----------------------------- MODULE MCIngress -----------------------------
EXTENDS Ingress, TLC

CONSTANTS a, b, r1, r2, k1, k2

MCOne == {<<{a}>>}
MCVarying == {<<{a}, {b}>>, <<{a, b}>>}
Valid == [secret |-> TRUE, basic |-> FALSE, json |-> TRUE, body |-> "ok"]
MCOffers == {Valid, [Valid EXCEPT !.secret = FALSE]}
Symmetry == Permutations(Requests)
=============================================================================
