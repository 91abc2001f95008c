----------------------------- MODULE MCDelivery -----------------------------
EXTENDS Delivery, TLC

CONSTANTS a, b, r1, r2, k1, k2

OneByOne == <<{a}, {b}>>
AllInOne == <<{a, b}>>

MCFixed == {OneByOne}
MCVarying == {OneByOne, AllInOne}
Symmetry == Permutations(Requests)
=============================================================================
