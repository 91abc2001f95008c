-------------------------------- MODULE Text --------------------------------
(***************************************************************************)
(* Go strings as sequences of characters, and the functions of strings,    *)
(* sort and html that the payload code uses.                               *)
(***************************************************************************)
EXTENDS Integers, Sequences, SequencesExt, FiniteSetsExt

Strings == Seq(Nat)

Blank == 32
Comma == 44
Less == 60
Equals == 61
Bar == 124
Ellipsis == 8230

\* The order of strings: byte by byte, a prefix before what it is a prefix of.
Before(s, t) ==
    \E i \in 1..Len(t) :
        /\ i <= Len(s) + 1
        /\ \A j \in 1..i - 1 : s[j] = t[j]
        /\ i = Len(s) + 1 \/ s[i] < t[i]

\* The members of S in an order, which is the set of the pairs <<x, y>> with x in
\* front of y: a member stands behind as many others as precede it.
Sorted(S, order) ==
    [i \in 1..Cardinality(S) |->
        CHOOSE x \in S : Cardinality({y \in S : <<y, x>> \in order}) = i - 1]

\* The pairs of a map by name.
ByName(pairs) == {p \in pairs \X pairs : Before(p[1][1], p[2][1])}
SortByName(pairs) == Sorted(pairs, ByName(pairs))

\* sort.Strings.  Strings that are equal are told apart by their positions.
Entries(s) == {<<s[i], i>> : i \in 1..Len(s)}
ByString(entries) ==
    ByName(entries) \cup {p \in entries \X entries : p[1][1] = p[2][1] /\ p[1][2] < p[2][2]}
SortStrings(s) == [i \in 1..Len(s) |-> Sorted(Entries(s), ByString(Entries(s)))[i][1]]

\* strings.Join
Join(strings, separator) ==
    LET joined[i \in 1..Len(strings)] ==
            IF i = 1 THEN strings[1] ELSE joined[i - 1] \o separator \o strings[i]
    IN  IF strings = <<>> THEN <<>> ELSE joined[Len(strings)]

\* strings.ToLower, and with it strings.EqualFold.
ToLower(s) == [i \in DOMAIN s |-> IF s[i] \in 65..90 THEN s[i] + 32 ELSE s[i]]
EqualFold(s, t) == ToLower(s) = ToLower(t)

\* strings.TrimSpace
TrimSpace(s) ==
    LET ink == {i \in DOMAIN s : s[i] # Blank} IN
    IF ink = {} THEN <<>> ELSE SubSeq(s, Min(ink), Max(ink))

\* html.EscapeString, of which "<" stands for the characters it replaces.
EscapeString(s) ==
    FlattenSeq([i \in DOMAIN s |-> IF s[i] = Less THEN <<38, 108, 116, 59>> ELSE <<s[i]>>])

HoldsAny(s, chars) == \E i \in DOMAIN s : s[i] \in chars
=============================================================================
