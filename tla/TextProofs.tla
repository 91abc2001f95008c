----------------------------- MODULE TextProofs -----------------------------
(***************************************************************************)
(* What the service makes of the strings of a webhook, for every webhook:  *)
(* the labels a message shows do not depend on the order in which Go       *)
(* ranges over its maps, none is lost, and the idempotency key tells two   *)
(* webhooks apart exactly when their content differs.                      *)
(*                                                                         *)
(* The sorts are sorts by rank: in a strict total order a member of a      *)
(* finite set has as many predecessors as its place says, so a set has one *)
(* sorted sequence, whatever sequence it came from.  What is joined with a *)
(* separator its parts do not hold is read back from the end, by induction *)
(* on the number of parts: pairs from a map, fields from an alert, alerts  *)
(* from a webhook, where the double bar is told from two fields' bars by   *)
(* the number of fields of an alert.  Induction is SetInduction: a set of  *)
(* numbers with 0 and the successors of its members is Nat.                *)
(***************************************************************************)
EXTENDS PayloadProofs, FunctionTheorems

-----------------------------------------------------------------------------
\* The order of strings is a strict total order.

LEMMA LeastNumber ==
    ASSUME NEW T \in SUBSET Nat, T # {}
    PROVE  \E n \in T : \A m \in T : n <= m
BY MinOfSet

LEMMA SetInduction ==
    ASSUME NEW T \in SUBSET Nat, 0 \in T, \A n \in T : n + 1 \in T
    PROVE  T = Nat
<1> SUFFICES ASSUME Nat \ T # {} PROVE FALSE
  OBVIOUS
<1>1. PICK n \in Nat \ T : \A m \in Nat \ T : n <= m
  BY LeastNumber
<1>2. n # 0
  OBVIOUS
<1>3. n - 1 \in Nat /\ n - 1 \notin T
  BY <1>2
<1> QED
  BY <1>1, <1>3

\* Where two sequences part.
Parts(s, t, i) ==
    /\ i \in 1..Len(s) + 1 /\ i \in 1..Len(t) + 1
    /\ \A j \in 1..i - 1 : s[j] = t[j]
    /\ i <= Len(s) /\ i <= Len(t) => s[i] # t[i]

LEMMA SequenceParts ==
    ASSUME NEW S, NEW s \in Seq(S), NEW t \in Seq(S)
    PROVE  \E i \in Nat : Parts(s, t, i)
<1> DEFINE D == {i \in Nat : /\ i \in 1..Len(s) + 1 /\ i \in 1..Len(t) + 1
                             /\ i <= Len(s) /\ i <= Len(t) => s[i] # t[i]}
<1>1. Len(s) \in Nat /\ Len(t) \in Nat
  OBVIOUS
<1>2. D # {}
  <2>1. CASE Len(s) <= Len(t)
    <3>1. Len(s) + 1 \in D
      BY <1>1, <2>1
    <3> QED
      BY <3>1
  <2>2. CASE Len(t) <= Len(s)
    <3>1. Len(t) + 1 \in D
      BY <1>1, <2>2
    <3> QED
      BY <3>1
  <2> QED
    BY <1>1, <2>1, <2>2
<1>3. PICK i \in D : \A j \in D : i <= j
  <2> HIDE DEF D
  <2>1. D \in SUBSET Nat
    BY DEF D
  <2> QED
    BY <1>2, <2>1, LeastNumber
<1>4. ASSUME NEW j \in 1..i - 1 PROVE s[j] = t[j]
  <2>1. j \in Nat /\ j < i /\ j \in 1..Len(s) + 1 /\ j \in 1..Len(t) + 1
    BY <1>1
  <2>2. j \notin D
    BY <1>3, <2>1
  <2> QED
    BY <2>1, <2>2
<1> QED
  BY <1>4 DEF Parts

LEMMA BeforeIsTotal ==
    ASSUME NEW s \in Strings, NEW t \in Strings, s # t
    PROVE  Before(s, t) \/ Before(t, s)
<1>1. PICK i \in Nat : Parts(s, t, i)
  BY SequenceParts DEF Strings
<1>2. /\ Len(s) \in Nat /\ Len(t) \in Nat /\ i \in 1..Len(s) + 1 /\ i \in 1..Len(t) + 1
      /\ \A j \in 1..i - 1 : s[j] = t[j]
      /\ i <= Len(s) /\ i <= Len(t) => s[i] # t[i]
  BY <1>1 DEF Parts, Strings
<1>3. CASE i = Len(s) + 1 /\ i = Len(t) + 1
  <2>1. Len(s) = Len(t) /\ \A j \in 1..Len(s) : s[j] = t[j]
    BY <1>2, <1>3
  <2>2. s \in Seq(Nat) /\ t \in Seq(Nat)
    BY DEF Strings
  <2>3. s = t
    BY <2>1, <2>2, SeqEqual
  <2> QED
    BY <2>3
<1>4. CASE i = Len(s) + 1 /\ i <= Len(t)
  <2>1. i \in 1..Len(t) /\ i <= Len(s) + 1
    BY <1>2, <1>4
  <2> QED
    BY <1>2, <1>4, <2>1 DEF Before
<1>5. CASE i = Len(t) + 1 /\ i <= Len(s)
  <2>1. i \in 1..Len(s) /\ i <= Len(t) + 1
    BY <1>2, <1>5
  <2> QED
    BY <1>2, <1>5, <2>1 DEF Before
<1>6. CASE i <= Len(s) /\ i <= Len(t)
  <2>1. i \in 1..Len(s) /\ i \in 1..Len(t) /\ i <= Len(s) + 1 /\ i <= Len(t) + 1
    BY <1>2, <1>6
  <2>2. s[i] \in Nat /\ t[i] \in Nat /\ s[i] # t[i]
    BY <1>2, <1>6, <2>1 DEF Strings
  <2>3. s[i] < t[i] \/ t[i] < s[i]
    BY <2>2
  <2> QED
    BY <1>2, <2>1, <2>3 DEF Before
<1> QED
  BY <1>2, <1>3, <1>4, <1>5, <1>6

LEMMA BeforeIsIrreflexive ==
    ASSUME NEW s \in Strings
    PROVE  ~Before(s, s)
<1> SUFFICES ASSUME NEW i \in 1..Len(s), i = Len(s) + 1 \/ s[i] < s[i] PROVE FALSE
  BY DEF Before
<1>1. Len(s) \in Nat /\ s[i] \in Nat
  BY DEF Strings
<1> QED
  BY <1>1

LEMMA BeforeIsTransitive ==
    ASSUME NEW s \in Strings, NEW t \in Strings, NEW u \in Strings, Before(s, t), Before(t, u)
    PROVE  Before(s, u)
<1>1. PICK i \in 1..Len(t) : /\ i <= Len(s) + 1 /\ \A j \in 1..i - 1 : s[j] = t[j]
                             /\ i = Len(s) + 1 \/ s[i] < t[i]
  BY DEF Before
<1>2. PICK k \in 1..Len(u) : /\ k <= Len(t) + 1 /\ \A j \in 1..k - 1 : t[j] = u[j]
                             /\ k = Len(t) + 1 \/ t[k] < u[k]
  BY DEF Before
<1>3. /\ Len(s) \in Nat /\ Len(t) \in Nat /\ Len(u) \in Nat
      /\ \A j \in 1..Len(s) : s[j] \in Nat
      /\ \A j \in 1..Len(t) : t[j] \in Nat
      /\ \A j \in 1..Len(u) : u[j] \in Nat
  <2>1. ASSUME NEW z \in Strings PROVE Len(z) \in Nat /\ \A j \in 1..Len(z) : z[j] \in Nat
    BY DEF Strings
  <2> QED
    BY <2>1
<1>4. CASE i < k
  <2>1. i \in 1..Len(u) /\ t[i] = u[i] /\ \A j \in 1..i - 1 : s[j] = u[j]
    BY <1>1, <1>2, <1>3, <1>4
  <2> QED
    BY <1>1, <2>1 DEF Before
<1>5. CASE k <= i
  <2>1. /\ k <= Len(s) + 1 /\ k <= Len(t) /\ k # Len(t) + 1
        /\ \A j \in 1..k - 1 : s[j] = u[j]
    BY <1>1, <1>2, <1>3, <1>5
  <2>2. t[k] < u[k]
    BY <1>2, <2>1
  <2>3. k = Len(s) + 1 \/ s[k] < u[k]
    <3>1. CASE k = Len(s) + 1
      BY <3>1
    <3>2. CASE k # Len(s) + 1 /\ k < i
      BY <1>1, <1>3, <2>2, <3>2
    <3>3. CASE k # Len(s) + 1 /\ k = i
      <4>1. k \in 1..Len(s) /\ k \in 1..Len(t) /\ k \in 1..Len(u) /\ s[k] < t[k]
        BY <1>1, <1>2, <1>3, <2>1, <3>3
      <4> QED
        BY <1>3, <2>2, <4>1
    <3> QED
      BY <1>3, <1>5, <3>1, <3>2, <3>3
  <2> QED
    BY <2>1, <2>3 DEF Before
<1> QED
  BY <1>3, <1>4, <1>5

-----------------------------------------------------------------------------
\* Sorting by rank.

StrictOrder(R, S) ==
    /\ \A x \in S : <<x, x>> \notin R
    /\ \A x, y \in S : x # y => <<x, y>> \in R \/ <<y, x>> \in R
    /\ \A x, y, z \in S : <<x, y>> \in R /\ <<y, z>> \in R => <<x, z>> \in R

Predecessors(S, R, x) == {y \in S : <<y, x>> \in R}
Rank(S, R, x) == Cardinality(Predecessors(S, R, x))

LEMMA RankType ==
    ASSUME NEW S, IsFiniteSet(S), NEW R, StrictOrder(R, S), NEW x \in S
    PROVE  Rank(S, R, x) \in Nat /\ Rank(S, R, x) < Cardinality(S)
<1> DEFINE P == Predecessors(S, R, x)
<1>1. P \in SUBSET S /\ x \notin P
  BY DEF StrictOrder, Predecessors
<1> HIDE DEF P
<1>2. /\ IsFiniteSet(P) /\ Cardinality(P) <= Cardinality(S)
      /\ Cardinality(S) = Cardinality(P) => S = P
  BY <1>1, FS_Subset
<1>3. Cardinality(P) \in Nat /\ Cardinality(S) \in Nat
  BY <1>2, FS_CardinalityType
<1>4. Cardinality(P) # Cardinality(S)
  BY <1>1, <1>2
<1> QED
  BY <1>2, <1>3, <1>4 DEF Rank, P

LEMMA RankGrows ==
    ASSUME NEW S, IsFiniteSet(S), NEW R, StrictOrder(R, S), NEW x \in S, NEW y \in S, <<x, y>> \in R
    PROVE  Rank(S, R, x) < Rank(S, R, y)
<1> DEFINE P == Predecessors(S, R, x)
           Q == Predecessors(S, R, y)
<1>1. P \in SUBSET Q /\ x \notin P /\ x \in Q /\ Q \in SUBSET S
  BY DEF StrictOrder, Predecessors
<1> HIDE DEF P, Q
<1>2. IsFiniteSet(Q)
  BY <1>1, FS_Subset
<1>3. IsFiniteSet(P) /\ Cardinality(P) <= Cardinality(Q) /\ (Cardinality(Q) = Cardinality(P) => Q = P)
  BY <1>1, <1>2, FS_Subset
<1>4. Cardinality(P) \in Nat /\ Cardinality(Q) \in Nat
  BY <1>2, <1>3, FS_CardinalityType
<1> QED
  BY <1>1, <1>3, <1>4 DEF Rank, P, Q

\* The ranks of the members are 0, 1, ... up to the last one.
LEMMA RankTaken ==
    ASSUME NEW S, IsFiniteSet(S), NEW R, StrictOrder(R, S), NEW i \in 1..Cardinality(S)
    PROVE  \E x \in S : Rank(S, R, x) = i - 1
<1> DEFINE n == Cardinality(S)
           T == 0..n - 1
           f == [x \in S |-> Rank(S, R, x)]
<1>1. n \in Nat
  BY FS_CardinalityType
<1>2. \A x \in S : Rank(S, R, x) \in T
  BY <1>1, RankType
<1>3. \A x, y \in S : Rank(S, R, x) = Rank(S, R, y) => x = y
  <2> SUFFICES ASSUME NEW x \in S, NEW y \in S, x # y PROVE Rank(S, R, x) # Rank(S, R, y)
    OBVIOUS
  <2>1. Rank(S, R, x) \in Nat /\ Rank(S, R, y) \in Nat
    BY RankType
  <2>2. <<x, y>> \in R \/ <<y, x>> \in R
    BY DEF StrictOrder
  <2>3. Rank(S, R, x) < Rank(S, R, y) \/ Rank(S, R, y) < Rank(S, R, x)
    BY <2>2, RankGrows
  <2> QED
    BY <2>1, <2>3
<1>4. f \in Injection(S, T)
  <2>1. f \in [S -> T] /\ \A x, y \in S : f[x] = f[y] => x = y
    BY <1>2, <1>3
  <2> HIDE DEF f, T
  <2> QED
    BY <2>1, Fun_IsInj
<1>5. IsFiniteSet(T) /\ Cardinality(T) = n
  <2>1. n - 1 \in Int /\ 0 \in Int /\ (IF 0 > n - 1 THEN 0 ELSE (n - 1) - 0 + 1) = n
    BY <1>1
  <2> QED
    BY <2>1, FS_Interval
<1>6. f \in Surjection(S, T)
  <2> HIDE DEF f, T
  <2> QED
    BY <1>4, <1>5, FS_Injection
<1>7. \A t \in T : \E x \in S : f[x] = t
  <2> HIDE DEF f, T
  <2> QED
    BY <1>6, Fun_SurjectionProperties
<1>8. i - 1 \in T
  BY <1>1
<1>9. PICK x \in S : f[x] = i - 1
  BY <1>7, <1>8
<1> QED
  BY <1>9

\* Sorted lists the members of S once each, in order.
LEMMA SortedFacts ==
    ASSUME NEW S, IsFiniteSet(S), NEW R, StrictOrder(R, S)
    PROVE  /\ Cardinality(S) \in Nat
           /\ Sorted(S, R) \in [1..Cardinality(S) -> S]
           /\ \A i \in 1..Cardinality(S) : Rank(S, R, Sorted(S, R)[i]) = i - 1
           /\ \A x \in S : \E i \in 1..Cardinality(S) : Sorted(S, R)[i] = x
           /\ \A i, j \in 1..Cardinality(S) : i < j => <<Sorted(S, R)[i], Sorted(S, R)[j]>> \in R
<1> DEFINE n == Cardinality(S)
           q == Sorted(S, R)
<1>1. n \in Nat
  BY FS_CardinalityType
<1>2. \A x \in S : Rank(S, R, x) \in Nat /\ Rank(S, R, x) < n
  BY RankType
<1>3. \A x, y \in S : <<x, y>> \in R => Rank(S, R, x) < Rank(S, R, y)
  BY RankGrows
<1>4. q = [i \in 1..n |-> CHOOSE x \in S : Rank(S, R, x) = i - 1]
  BY DEF Sorted, Rank, Predecessors
<1>5. ASSUME NEW i \in 1..n PROVE q[i] \in S /\ Rank(S, R, q[i]) = i - 1
  <2>1. \E x \in S : Rank(S, R, x) = i - 1
    BY RankTaken
  <2>2. q[i] = CHOOSE x \in S : Rank(S, R, x) = i - 1
    BY <1>4
  <2> HIDE DEF q
  <2> QED
    BY <2>1, <2>2
<1>6. q \in [1..n -> S]
  BY <1>4, <1>5
<1> HIDE DEF q, n
<1>7. ASSUME NEW x \in S PROVE \E i \in 1..n : q[i] = x
  <2>1. Rank(S, R, x) + 1 \in 1..n
    BY <1>1, <1>2
  <2>2. PICK i \in 1..n : i = Rank(S, R, x) + 1
    BY <2>1
  <2>3. q[i] \in S /\ Rank(S, R, q[i]) = i - 1
    BY <1>5
  <2>4. Rank(S, R, x) = i - 1 /\ Rank(S, R, x) \in Nat
    BY <1>2, <2>2
  <2>5. ~(<<q[i], x>> \in R) /\ ~(<<x, q[i]>> \in R)
    BY <1>3, <2>3, <2>4
  <2>6. q[i] = x
    BY <2>3, <2>5 DEF StrictOrder
  <2> QED
    BY <2>6
<1>8. ASSUME NEW i \in 1..n, NEW j \in 1..n, i < j PROVE <<q[i], q[j]>> \in R
  <2>1. /\ q[i] \in S /\ Rank(S, R, q[i]) = i - 1
        /\ q[j] \in S /\ Rank(S, R, q[j]) = j - 1
    BY <1>5
  <2>2. q[i] # q[j]
    BY <1>8, <2>1
  <2>3. ~(<<q[j], q[i]>> \in R)
    BY <1>3, <1>8, <2>1
  <2> QED
    BY <2>1, <2>2, <2>3 DEF StrictOrder
<1> QED
  BY <1>1, <1>5, <1>6, <1>7, <1>8 DEF q, n

\* There is one way to list the members of S in order.
LEMMA SortedUnique ==
    ASSUME NEW S, IsFiniteSet(S), NEW R, StrictOrder(R, S),
           NEW m \in Nat, NEW r \in [1..m -> S],
           \A x \in S : \E i \in 1..m : r[i] = x,
           \A i, j \in 1..m : i < j => <<r[i], r[j]>> \in R
    PROVE  m = Cardinality(S) /\ r = Sorted(S, R)
<1> DEFINE n == Cardinality(S)
           q == Sorted(S, R)
<1>1. ASSUME NEW i \in 1..m, NEW j \in 1..m, r[i] = r[j] PROVE i = j
  <2>1. ~(i < j) /\ ~(j < i)
    BY <1>1 DEF StrictOrder
  <2> QED
    BY <2>1
<1>2. ASSUME NEW i \in 1..m PROVE Rank(S, R, r[i]) = i - 1
  <2> DEFINE P == Predecessors(S, R, r[i])
             g == [k \in 1..i - 1 |-> r[k]]
  <2>1. \A k \in 1..i - 1 : k \in 1..m /\ k < i
    OBVIOUS
  <2>2. \A k \in 1..i - 1 : g[k] \in P
    BY <2>1 DEF Predecessors
  <2>3. ASSUME NEW y \in P PROVE \E k \in 1..i - 1 : g[k] = y
    <3>1. y \in S /\ <<y, r[i]>> \in R
      BY DEF Predecessors
    <3>2. PICK k \in 1..m : r[k] = y
      BY <3>1
    <3>3. k # i
      BY <3>1, <3>2 DEF StrictOrder
    <3>4. ~(i < k)
      <4> SUFFICES ASSUME i < k PROVE FALSE
        OBVIOUS
      <4>1. <<r[i], r[k]>> \in R /\ r[i] \in S /\ r[k] \in S
        OBVIOUS
      <4>2. <<r[i], r[i]>> \in R
        BY <3>1, <3>2, <4>1 DEF StrictOrder
      <4> QED
        BY <4>1, <4>2 DEF StrictOrder
    <3>5. k \in 1..i - 1
      BY <3>3, <3>4
    <3> QED
      BY <3>2, <3>5
  <2>4. \A k, l \in 1..i - 1 : g[k] = g[l] => k = l
    BY <1>1, <2>1
  <2>5. g \in [1..i - 1 -> P]
    BY <2>2
  <2>6. g \in Bijection(1..i - 1, P)
    <3> HIDE DEF g, P
    <3> QED
      BY <2>3, <2>4, <2>5, Fun_IsBij
  <2>7. ExistsBijection(1..i - 1, P)
    <3> HIDE DEF g, P
    <3> QED
      BY <2>6, Fun_ExistsBij
  <2>8. i - 1 \in Nat
    OBVIOUS
  <2> HIDE DEF P
  <2>9. Cardinality(P) = i - 1
    BY <2>7, <2>8, FS_CountingElements
  <2> QED
    BY <2>9 DEF Rank, P
<1>3. /\ n \in Nat /\ q \in [1..n -> S]
      /\ \A i \in 1..n : Rank(S, R, q[i]) = i - 1
      /\ \A x \in S : \E i \in 1..n : q[i] = x
  BY SortedFacts
<1> HIDE DEF n, q
<1>4. ASSUME NEW i \in 1..m PROVE i \in 1..n /\ q[i] = r[i]
  <2>1. PICK k \in 1..n : q[k] = r[i]
    BY <1>3
  <2>2. k - 1 = i - 1
    BY <1>2, <1>3, <2>1
  <2>3. k = i
    BY <1>3, <2>2
  <2> QED
    BY <2>1, <2>3
<1>5. ASSUME NEW i \in 1..n PROVE i \in 1..m
  <2>1. PICK k \in 1..m : r[k] = q[i]
    BY <1>3
  <2>2. k - 1 = i - 1
    BY <1>2, <1>3, <2>1
  <2> QED
    BY <1>3, <2>2
<1>6. m = n
  <2>1. CASE m < n
    <3>1. n \in 1..n
      BY <1>3, <2>1
    <3>2. n \in 1..m
      BY <1>5, <3>1
    <3> QED
      BY <1>3, <2>1, <3>2
  <2>2. CASE n < m
    <3>1. m \in 1..n
      BY <1>3, <1>4, <2>2
    <3> QED
      BY <1>3, <2>2, <3>1
  <2> QED
    BY <1>3, <2>1, <2>2
<1>7. r = q
  BY <1>3, <1>4, <1>6
<1> QED
  BY <1>6, <1>7 DEF n, q

-----------------------------------------------------------------------------
\* The orders of the model.

\* A finite map.
IsNamed(S) ==
    /\ IsFiniteSet(S)
    /\ S \subseteq Strings \X Strings
    /\ \A l, m \in S : l[1] = m[1] => l = m

LEMMA NamedSubset ==
    ASSUME NEW S, IsNamed(S), NEW T \in SUBSET S
    PROVE  IsNamed(T)
<1>1. IsFiniteSet(T)
  BY FS_Subset DEF IsNamed
<1> QED
  BY <1>1 DEF IsNamed

LEMMA ByNamePairs ==
    ASSUME NEW S, NEW x \in S, NEW y \in S
    PROVE  <<x, y>> \in ByName(S) <=> Before(x[1], y[1])
<1>1. <<x, y>> \in S \X S /\ <<x, y>>[1] = x /\ <<x, y>>[2] = y
  OBVIOUS
<1> QED
  BY <1>1 DEF ByName

LEMMA NameOrder ==
    ASSUME NEW S, IsNamed(S)
    PROVE  StrictOrder(ByName(S), S)
<1>1. \A x \in S : x[1] \in Strings
  BY DEF IsNamed
<1>2. \A x, y \in S : <<x, y>> \in ByName(S) <=> Before(x[1], y[1])
  BY ByNamePairs
<1>3. \A x \in S : <<x, x>> \notin ByName(S)
  BY <1>1, <1>2, BeforeIsIrreflexive
<1>4. \A x, y \in S : x # y => <<x, y>> \in ByName(S) \/ <<y, x>> \in ByName(S)
  <2> SUFFICES ASSUME NEW x \in S, NEW y \in S, x # y
               PROVE  Before(x[1], y[1]) \/ Before(y[1], x[1])
    BY <1>2
  <2>1. x[1] # y[1]
    BY DEF IsNamed
  <2> QED
    BY <1>1, <2>1, BeforeIsTotal
<1>5. \A x, y, z \in S : <<x, y>> \in ByName(S) /\ <<y, z>> \in ByName(S) => <<x, z>> \in ByName(S)
  <2> SUFFICES ASSUME NEW x \in S, NEW y \in S, NEW z \in S, Before(x[1], y[1]), Before(y[1], z[1])
               PROVE  Before(x[1], z[1])
    BY <1>2
  <2> QED
    BY <1>1, BeforeIsTransitive
<1> QED
  BY <1>3, <1>4, <1>5 DEF StrictOrder

LEMMA SortByNameFacts ==
    ASSUME NEW S, IsNamed(S)
    PROVE  /\ Cardinality(S) \in Nat
           /\ SortByName(S) \in [1..Cardinality(S) -> S]
           /\ SortByName(S) \in Seq(S) /\ Len(SortByName(S)) = Cardinality(S)
           /\ \A x \in S : \E i \in 1..Cardinality(S) : SortByName(S)[i] = x
           /\ \A i, j \in 1..Cardinality(S) :
                 i < j => Before(SortByName(S)[i][1], SortByName(S)[j][1])
           /\ \A i, j \in 1..Cardinality(S) :
                 SortByName(S)[i][1] = SortByName(S)[j][1] => i = j
<1> DEFINE n == Cardinality(S)
           q == SortByName(S)
<1>1. /\ n \in Nat /\ q \in [1..n -> S]
      /\ \A x \in S : \E i \in 1..n : q[i] = x
      /\ \A i, j \in 1..n : i < j => <<q[i], q[j]>> \in ByName(S)
  BY NameOrder, SortedFacts DEF SortByName, IsNamed
<1> HIDE DEF n, q
<1>2. q \in Seq(S) /\ Len(q) = n
  BY <1>1
<1>3. \A i, j \in 1..n : i < j => Before(q[i][1], q[j][1])
  BY <1>1, ByNamePairs
<1>4. ASSUME NEW i \in 1..n, NEW j \in 1..n, q[i][1] = q[j][1] PROVE i = j
  <2>1. q[i] \in S /\ q[j] \in S
    BY <1>1
  <2>2. q[i][1] \in Strings
    BY <2>1 DEF IsNamed
  <2>3. ~(i < j) /\ ~(j < i)
    BY <1>3, <1>4, <2>2, BeforeIsIrreflexive
  <2> QED
    BY <2>3
<1> QED
  BY <1>1, <1>2, <1>3, <1>4 DEF n, q

-----------------------------------------------------------------------------
\* Strings stay strings.

LEMMA TrimType ==
    ASSUME NEW s \in Strings
    PROVE  TrimSpace(s) \in Strings
<1> DEFINE ink == {i \in DOMAIN s : s[i] # Blank}
<1>1. ink \subseteq 1..Len(s) /\ Len(s) \in Nat
  BY DEF Strings
<1>2. CASE ink = {}
  BY <1>2 DEF TrimSpace, Strings
<1>3. CASE ink # {}
  <2>1. ink \in SUBSET Nat
    BY <1>1
  <2>2. \A i \in ink : i <= Len(s)
    BY <1>1
  <2> HIDE DEF ink
  <2>3. Min(ink) \in ink
    <3>1. \E n \in ink : \A m \in ink : n <= m
      BY <1>3, <2>1, LeastNumber
    <3> QED
      BY <3>1 DEF Min
  <2>4. Max(ink) \in ink
    <3>1. ink \in SUBSET (0..Len(s))
      BY <1>1
    <3>2. Split!Max(ink) \in ink /\ \A m \in ink : m <= Split!Max(ink)
      BY <1>1, <1>3, <3>1, MaxOfSet
    <3>3. \E n \in ink : \A m \in ink : n >= m
      BY <2>1, <3>2
    <3> QED
      BY <3>3 DEF Max
  <2>5. Min(ink) \in 1..Len(s) /\ Max(ink) \in 1..Len(s)
    BY <1>1, <2>3, <2>4
  <2>6. SubSeq(s, Min(ink), Max(ink)) \in Seq(Nat)
    BY <2>5 DEF Strings
  <2> QED
    BY <1>3, <2>6 DEF TrimSpace, ink, Strings
<1> QED
  BY <1>2, <1>3

\* The recursion of FlattenSeq is defined for every sequence of strings.
LEMMA FlattenExists ==
    ASSUME NEW s \in Seq(Strings)
    PROVE  \E f \in [1..Len(s) -> Strings] :
              \A i \in 1..Len(s) : f[i] = IF i = 1 THEN s[i] ELSE f[i - 1] \o s[i]
<1> DEFINE T == {n \in Nat : n <= Len(s) =>
                    \E f \in [1..n -> Strings] :
                       \A i \in 1..n : f[i] = IF i = 1 THEN s[i] ELSE f[i - 1] \o s[i]}
<1>1. 0 \in T
  <2>1. [i \in 1..0 |-> <<>>] \in [1..0 -> Strings]
    OBVIOUS
  <2>2. \A i \in 1..0 : FALSE
    OBVIOUS
  <2> QED
    BY <2>1, <2>2
<1>2. ASSUME NEW n \in T PROVE n + 1 \in T
  <2> SUFFICES ASSUME n + 1 <= Len(s)
               PROVE  \E f \in [1..n + 1 -> Strings] :
                         \A i \in 1..n + 1 : f[i] = IF i = 1 THEN s[i] ELSE f[i - 1] \o s[i]
    OBVIOUS
  <2>1. n \in Nat /\ Len(s) \in Nat
    OBVIOUS
  <2>2. PICK f \in [1..n -> Strings] :
           \A i \in 1..n : f[i] = IF i = 1 THEN s[i] ELSE f[i - 1] \o s[i]
    BY <2>1
  <2> DEFINE x == IF n = 0 THEN s[1] ELSE f[n] \o s[n + 1]
             g == [i \in 1..n + 1 |-> IF i = n + 1 THEN x ELSE f[i]]
  <2>3. x \in Strings
    <3>1. s[n + 1] \in Strings
      BY <2>1
    <3>2. CASE n = 0
      BY <3>1, <3>2
    <3>3. CASE n # 0
      <4>1. f[n] \in Strings
        BY <2>1, <3>3
      <4>2. f[n] \o s[n + 1] \in Strings
        BY <3>1, <4>1 DEF Strings
      <4> QED
        BY <3>3, <4>2
    <3> QED
      BY <3>2, <3>3
  <2> HIDE DEF x
  <2>4. g \in [1..n + 1 -> Strings]
    BY <2>1, <2>3
  <2>5. ASSUME NEW i \in 1..n + 1 PROVE g[i] = IF i = 1 THEN s[i] ELSE g[i - 1] \o s[i]
    <3>1. CASE i = n + 1
      <4>1. CASE n = 0
        BY <3>1, <4>1 DEF x
      <4>2. CASE n # 0
        <5>1. n \in 1..n + 1 /\ n # n + 1 /\ i # 1 /\ i - 1 = n
          BY <2>1, <3>1, <4>2
        <5>2. g[i - 1] = f[n] /\ g[i] = x
          BY <3>1, <5>1
        <5>3. x = f[n] \o s[i]
          BY <3>1, <4>2 DEF x
        <5> HIDE DEF g
        <5> QED
          BY <5>1, <5>2, <5>3
      <4> QED
        BY <4>1, <4>2
    <3>2. CASE i # n + 1
      <4>1. i \in 1..n /\ g[i] = f[i]
        BY <2>1, <3>2
      <4>2. i # 1 => g[i - 1] = f[i - 1]
        BY <2>1, <3>2
      <4> HIDE DEF g
      <4> QED
        BY <2>2, <4>1, <4>2
    <3> QED
      BY <3>1, <3>2
  <2> HIDE DEF g
  <2> QED
    BY <2>4, <2>5
<1> HIDE DEF T
<1>3. T \in SUBSET Nat
  BY DEF T
<1>4. T = Nat
  BY <1>1, <1>2, <1>3, SetInduction
<1>5. Len(s) \in T
  BY <1>4
<1> QED
  BY <1>5 DEF T

LEMMA FlattenType ==
    ASSUME NEW s \in Seq(Strings)
    PROVE  FlattenSeq(s) \in Strings
<1>1. CASE Len(s) = 0
  <2>1. s = <<>>
    BY <1>1
  <2> QED
    BY <1>1, <2>1 DEF FlattenSeq, Strings
<1>2. CASE Len(s) # 0
  <2> DEFINE F(f) == [i \in 1..Len(s) |-> IF i = 1 THEN s[i] ELSE f[i - 1] \o s[i]]
             flatten == CHOOSE f : f = F(f)
  <2>1. PICK f \in [1..Len(s) -> Strings] :
           \A i \in 1..Len(s) : f[i] = IF i = 1 THEN s[i] ELSE f[i - 1] \o s[i]
    BY FlattenExists
  <2>2. f = F(f)
    BY <2>1
  <2>3. flatten = F(flatten)
    <3> HIDE DEF F
    <3> QED
      BY <2>2
  <2>4. FlattenSeq(s) = flatten[Len(s)]
    BY <1>2 DEF FlattenSeq
  <2> HIDE DEF flatten
  <2>5. \A i \in 1..Len(s) : flatten[i] = IF i = 1 THEN s[i] ELSE flatten[i - 1] \o s[i]
    BY <2>3
  <2> DEFINE T == {n \in Nat : n \in 1..Len(s) => flatten[n] \in Strings}
  <2>6. 0 \in T
    OBVIOUS
  <2>7. ASSUME NEW n \in T PROVE n + 1 \in T
    <3> SUFFICES ASSUME n + 1 \in 1..Len(s) PROVE flatten[n + 1] \in Strings
      OBVIOUS
    <3>1. s[n + 1] \in Strings
      OBVIOUS
    <3>2. CASE n = 0
      <4>1. flatten[n + 1] = s[n + 1]
        BY <2>5, <3>2
      <4> QED
        BY <3>1, <4>1
    <3>3. CASE n # 0
      <4>1. n \in 1..Len(s) /\ n + 1 # 1 /\ (n + 1) - 1 = n
        BY <3>3
      <4>2. flatten[n + 1] = flatten[n] \o s[n + 1] /\ flatten[n] \in Strings
        BY <2>5, <4>1
      <4> QED
        BY <3>1, <4>2 DEF Strings
    <3> QED
      BY <3>2, <3>3
  <2> HIDE DEF T
  <2>8. T \in SUBSET Nat
    BY DEF T
  <2>9. T = Nat
    BY <2>6, <2>7, <2>8, SetInduction
  <2>10. Len(s) \in T
    BY <2>9
  <2> QED
    BY <1>2, <2>4, <2>10 DEF T
<1> QED
  BY <1>1, <1>2

LEMMA EscapeType ==
    ASSUME NEW s \in Strings
    PROVE  EscapeString(s) \in Strings
<1> DEFINE t == [i \in DOMAIN s |-> IF s[i] = Less THEN <<38, 108, 116, 59>> ELSE <<s[i]>>]
<1>1. DOMAIN s = 1..Len(s) /\ Len(s) \in Nat /\ \A i \in 1..Len(s) : s[i] \in Nat
  BY DEF Strings
<1>2. \A x \in Nat : <<x>> \in Strings
  BY DEF Strings
<1>3. <<38, 108, 116, 59>> \in Strings
  BY DEF Strings
<1>4. \A i \in 1..Len(s) : t[i] \in Strings
  BY <1>1, <1>2, <1>3
<1>5. t \in [1..Len(s) -> Strings]
  BY <1>1, <1>4
<1> HIDE DEF t
<1>6. t \in Seq(Strings)
  BY <1>1, <1>5
<1>7. FlattenSeq(t) \in Strings
  BY <1>6, FlattenType
<1> QED
  BY <1>7 DEF EscapeString, t

LEMMA SanitizeType ==
    ASSUME NEW s \in Strings, NEW maxLen \in Nat \ {0, 1}
    PROVE  sanitize(s, maxLen) \in Strings
<1> DEFINE escaped == EscapeString(TrimSpace(s))
<1>1. escaped \in Seq(Nat)
  BY TrimType, EscapeType DEF Strings
<1> HIDE DEF escaped
<1>2. CASE Len(escaped) <= maxLen
  BY <1>1, <1>2 DEF sanitize, escaped, Strings
<1>3. CASE ~(Len(escaped) <= maxLen)
  <2>1. 1 \in 1..Len(escaped) /\ maxLen - 1 \in 1..Len(escaped)
    BY <1>1, <1>3
  <2>2. SubSeq(escaped, 1, maxLen - 1) \in Seq(Nat)
    BY <1>1, <2>1
  <2>3. Append(SubSeq(escaped, 1, maxLen - 1), Ellipsis) \in Seq(Nat)
    BY <2>2 DEF Ellipsis
  <2> QED
    BY <1>3, <2>3 DEF sanitize, escaped, Strings
<1> QED
  BY <1>2, <1>3

LEMMA SanitizedType ==
    ASSUME NEW l \in Strings \X Strings
    PROVE  /\ Sanitized(l) \in Strings \X Strings
           /\ Sanitized(l)[1] = sanitize(l[1], MaxKeyLen)
<1>1. MaxKeyLen \in Nat \ {0, 1} /\ MaxValueLen \in Nat \ {0, 1}
  BY LabelsAssumption
<1>2. sanitize(l[1], MaxKeyLen) \in Strings /\ sanitize(l[2], MaxValueLen) \in Strings
  BY <1>1, SanitizeType
<1> QED
  BY <1>2 DEF Sanitized

-----------------------------------------------------------------------------
\* The invariant of the label selection.

LabelTypes ==
    /\ IsNamed(labels) /\ IsNamed(source) /\ left \subseteq labels
    /\ list \in {"where", "context"} /\ pass \in {"sanitize", "prefer", "done"}
    /\ nextName \in 1..Len(Priority) + 1

\* A pair stands for each of the labels that the range visited.  Without twins no
\* label overwrites another one, whatever the order of the range.
SanitizeOK ==
    pass = "sanitize" =>
        /\ shown = <<>> /\ nextName = 1
        /\ source \subseteq Clean
        /\ \A l \in labels \ left : \E m \in source : m[1] = Sanitized(l)[1]
        /\ ~Twins => source = {Sanitized(l) : l \in labels \ left}

KeptOK ==
    pass # "sanitize" =>
        /\ source \subseteq filtered(Clean)
        /\ \A l \in labels : MayStandFor(l) \subseteq filtered(Clean) =>
              \E m \in source : m[1] = Sanitized(l)[1]
        /\ ~Twins => source = filtered(Clean)

\* The preferred names before nextName are shown, if they are there, in their order.
PreferOK ==
    pass = "prefer" =>
        /\ shown \in Seq(source)
        /\ \A i \in 1..Len(shown) : PriorityOf(shown[i]) < nextName
        /\ \A i, j \in 1..Len(shown) : i < j => PriorityOf(shown[i]) < PriorityOf(shown[j])
        /\ \A l \in source : PriorityOf(l) < nextName =>
              \E i \in 1..Len(shown) : EqualFold(l[1], shown[i][1])

LabelInv ==
    /\ LabelTypes /\ SanitizeOK /\ KeptOK /\ PreferOK
    /\ EveryNameIsShown /\ LabelsAreCanonical

\* Names without twins tell their labels apart.
LEMMA NoTwins ==
    ASSUME ~Twins, NEW l \in Clean, NEW m \in Clean, EqualFold(l[1], m[1])
    PROVE  l = m
<1>1. PICK a \in labels : l = Sanitized(a)
  BY DEF Clean
<1>2. PICK b \in labels : m = Sanitized(b)
  BY DEF Clean
<1>3. a = b
  BY <1>1, <1>2 DEF Twins
<1> QED
  BY <1>1, <1>2, <1>3

LEMMA PriorityType ==
    ASSUME list \in {"where", "context"}
    PROVE  /\ Priority \in Seq(Strings) /\ Len(Priority) \in Nat /\ DOMAIN Priority = 1..Len(Priority)
           /\ \A i, j \in DOMAIN Priority : EqualFold(Priority[i], Priority[j]) => i = j
<1>1. Priority \in {whereLabelPriority, groupContextPriority}
  BY DEF Priority
<1>2. /\ Priority \in Seq(Strings)
      /\ \A i, j \in DOMAIN Priority : EqualFold(Priority[i], Priority[j]) => i = j
  BY <1>1, LabelsAssumption
<1> QED
  BY <1>2

\* A label has the priority of the one name that it is, up to case.
LEMMA PriorityFacts ==
    ASSUME list \in {"where", "context"}, NEW l
    PROVE  /\ PriorityOf(l) \in 1..Len(Priority) + 1
           /\ \A k \in 1..Len(Priority) : PriorityOf(l) = k <=> EqualFold(l[1], Priority[k])
<1> DEFINE P == Priority
           T == {i \in DOMAIN P : EqualFold(l[1], P[i])} \cup {Len(P) + 1}
<1>1. Len(P) \in Nat /\ DOMAIN P = 1..Len(P)
      /\ \A i, j \in 1..Len(P) : EqualFold(P[i], P[j]) => i = j
  BY PriorityType
<1> HIDE DEF P
<1>2. T \in SUBSET Nat /\ T \subseteq 1..Len(P) + 1 /\ Len(P) + 1 \in T
  BY <1>1
<1>3. Min(T) \in T /\ \A i \in T : Min(T) <= i
  <2> HIDE DEF T
  <2>1. \E i \in T : \A j \in T : i <= j
    BY <1>2, LeastNumber
  <2> QED
    BY <2>1 DEF Min
<1>4. PriorityOf(l) = Min(T)
  BY DEF PriorityOf, P
<1>5. ASSUME NEW k \in 1..Len(P), EqualFold(l[1], P[k]) PROVE Min(T) = k
  <2>1. k \in T
    BY <1>1, <1>5
  <2>2. Min(T) <= k /\ Min(T) # Len(P) + 1
    BY <1>1, <1>2, <1>3, <2>1
  <2>3. Min(T) \in 1..Len(P) /\ EqualFold(l[1], P[Min(T)])
    BY <1>1, <1>3, <2>2
  <2>4. EqualFold(P[Min(T)], P[k])
    BY <1>5, <2>3 DEF EqualFold
  <2> QED
    BY <1>1, <2>3, <2>4
<1>6. ASSUME NEW k \in 1..Len(P), Min(T) = k PROVE EqualFold(l[1], P[k])
  BY <1>1, <1>3, <1>6
<1> QED
  BY <1>2, <1>3, <1>4, <1>5, <1>6 DEF P

LEMMA SamePriority ==
    ASSUME NEW l, NEW m, l[1] = m[1]
    PROVE  PriorityOf(l) = PriorityOf(m)
BY DEF PriorityOf

\* Labels without twins are in one order: by priority, then by name.
LEMMA PriorityOrder ==
    ASSUME list \in {"where", "context"}, NEW S, IsNamed(S)
    PROVE  StrictOrder(ByPriority(S), S)
<1> DEFINE R == ByPriority(S)
<1>1. \A x \in S : PriorityOf(x) \in Nat
  BY PriorityFacts, PriorityType
<1>2. \A x, y \in S : <<x, y>> \in R <=>
          \/ PriorityOf(x) < PriorityOf(y)
          \/ PriorityOf(x) = PriorityOf(y) /\ <<x, y>> \in ByName(S)
  <2> SUFFICES ASSUME NEW x \in S, NEW y \in S
               PROVE  <<x, y>> \in R <=>
                        \/ PriorityOf(x) < PriorityOf(y)
                        \/ PriorityOf(x) = PriorityOf(y) /\ <<x, y>> \in ByName(S)
    OBVIOUS
  <2>1. <<x, y>> \in S \X S /\ <<x, y>>[1] = x /\ <<x, y>>[2] = y
    OBVIOUS
  <2> QED
    BY <2>1 DEF ByPriority
<1> HIDE DEF R
<1>3. StrictOrder(ByName(S), S)
  BY NameOrder
<1>4. \A x \in S : <<x, x>> \notin R
  <2> TAKE x \in S
  <2>1. PriorityOf(x) \in Nat /\ <<x, x>> \notin ByName(S)
    BY <1>1, <1>3 DEF StrictOrder
  <2>2. ~(PriorityOf(x) < PriorityOf(x))
    BY <2>1
  <2> QED
    BY <1>2, <2>1, <2>2
<1>5. \A x, y \in S : x # y => <<x, y>> \in R \/ <<y, x>> \in R
  <2> SUFFICES ASSUME NEW x \in S, NEW y \in S, x # y PROVE <<x, y>> \in R \/ <<y, x>> \in R
    OBVIOUS
  <2>1. <<x, y>> \in ByName(S) \/ <<y, x>> \in ByName(S)
    BY <1>3 DEF StrictOrder
  <2>2. PriorityOf(x) < PriorityOf(y) \/ PriorityOf(y) < PriorityOf(x) \/ PriorityOf(x) = PriorityOf(y)
    BY <1>1
  <2> QED
    BY <1>2, <2>1, <2>2
<1>6. \A x, y, z \in S : <<x, y>> \in R /\ <<y, z>> \in R => <<x, z>> \in R
  <2> SUFFICES ASSUME NEW x \in S, NEW y \in S, NEW z \in S, <<x, y>> \in R, <<y, z>> \in R
               PROVE  <<x, z>> \in R
    OBVIOUS
  <2>1. PriorityOf(x) \in Nat /\ PriorityOf(y) \in Nat /\ PriorityOf(z) \in Nat
    BY <1>1
  <2>2. PriorityOf(x) < PriorityOf(y) \/ (PriorityOf(x) = PriorityOf(y) /\ <<x, y>> \in ByName(S))
    BY <1>2
  <2>3. PriorityOf(y) < PriorityOf(z) \/ (PriorityOf(y) = PriorityOf(z) /\ <<y, z>> \in ByName(S))
    BY <1>2
  <2>4. <<x, y>> \in ByName(S) /\ <<y, z>> \in ByName(S) => <<x, z>> \in ByName(S)
    BY <1>3 DEF StrictOrder
  <2>5. PriorityOf(x) < PriorityOf(z) \/ (PriorityOf(x) = PriorityOf(z) /\ <<x, z>> \in ByName(S))
    BY <2>1, <2>2, <2>3, <2>4
  <2> QED
    BY <1>2, <2>5
<1> QED
  BY <1>4, <1>5, <1>6 DEF StrictOrder, R

-----------------------------------------------------------------------------
\* Every step keeps the invariant.

LEMMA EmptyNamed == IsNamed({})
BY FS_EmptySet DEF IsNamed

LEMMA LabelsInitOK ==
    ASSUME LabelsInit \/ LabelsIdle
    PROVE  LabelInv
<1>1. labels \in LabelSets \/ labels = {}
  BY DEF LabelsInit, LabelsIdle
<1>2. IsNamed(labels)
  BY <1>1, EmptyNamed, LabelsAssumption DEF IsNamed
<1>3. /\ list \in {"where", "context"} /\ pass = "sanitize" /\ left = labels
      /\ source = {} /\ nextName = 1 /\ shown = <<>>
  BY DEF LabelsInit, LabelsIdle
<1>4. LabelTypes
  <2>1. Len(Priority) \in Nat
    BY <1>3, PriorityType
  <2>2. nextName \in 1..Len(Priority) + 1
    BY <1>3, <2>1
  <2> QED
    BY <1>2, <1>3, <2>2, EmptyNamed DEF LabelTypes
<1>5. SanitizeOK
  BY <1>3 DEF SanitizeOK
<1> QED
  BY <1>3, <1>4, <1>5 DEF LabelInv, KeptOK, PreferOK, EveryNameIsShown, LabelsAreCanonical

\* What does not change with the step.
LEMMA SameList ==
    ASSUME UNCHANGED list
    PROVE  Priority' = Priority /\ \A l : PriorityOf(l)' = PriorityOf(l)
BY DEF Priority, PriorityOf

\* Nor do the sets of labels that the invariant compares.
LEMMA SameLabels ==
    ASSUME UNCHANGED labels
    PROVE  /\ Twins' = Twins /\ Clean' = Clean
           /\ \A l : MayStandFor(l)' = MayStandFor(l)
           /\ \A S : filtered(S)' = filtered(S)
BY DEF Twins, Clean, MayStandFor, filtered, isExporterPod

\* Once the map is filtered it does not change.
LEMMA KeptStutter ==
    ASSUME KeptOK, pass # "sanitize", UNCHANGED <<labels, source>>
    PROVE  KeptOK'
<1>1. /\ Twins' = Twins /\ filtered(Clean)' = filtered(Clean)
      /\ \A l : MayStandFor(l)' = MayStandFor(l)
  BY SameLabels DEF filtered, isExporterPod
<1> QED
  BY <1>1 DEF KeptOK, Sanitized

LEMMA SanitizeStep == ASSUME LabelInv, sanitizeStringMap PROVE LabelInv'
<1>1. PICK l \in left : /\ source' = {m \in source : m[1] # Sanitized(l)[1]} \cup {Sanitized(l)}
                        /\ left' = left \ {l}
  BY DEF sanitizeStringMap, Stored
<1>2. /\ pass = "sanitize" /\ pass' = pass /\ labels' = labels /\ list' = list
      /\ nextName' = nextName /\ shown' = shown
  BY DEF sanitizeStringMap
<1>3. /\ IsNamed(labels) /\ IsNamed(source) /\ left \subseteq labels /\ l \in labels
      /\ list \in {"where", "context"} /\ nextName \in 1..Len(Priority) + 1
  BY DEF LabelInv, LabelTypes
<1> DEFINE x == Sanitized(l)
           S == {m \in source : m[1] # x[1]}
<1>4. x \in Strings \X Strings
  BY <1>3, SanitizedType DEF IsNamed
<1> HIDE DEF x
<1>5. IsNamed(source')
  <2>1. IsNamed(S) /\ S \subseteq source
    BY <1>3, NamedSubset
  <2>2. IsFiniteSet(S \cup {x})
    <3>1. IsFiniteSet(S)
      BY <2>1 DEF IsNamed
    <3> HIDE DEF S
    <3> QED
      BY <3>1, FS_AddElement
  <2>3. S \cup {x} \subseteq Strings \X Strings
    BY <1>4, <2>1 DEF IsNamed
  <2>4. \A a, b \in S \cup {x} : a[1] = b[1] => a = b
    BY <2>1 DEF IsNamed
  <2>5. source' = S \cup {x}
    BY <1>1 DEF x
  <2> HIDE DEF S
  <2> QED
    BY <2>2, <2>3, <2>4, <2>5 DEF IsNamed
<1>6. LabelTypes'
  <2>1. Priority' = Priority
    BY <1>2, SameList
  <2>2. IsNamed(labels') /\ left' \subseteq labels'
    BY <1>1, <1>2, <1>3
  <2> QED
    BY <1>2, <1>3, <1>5, <2>1, <2>2 DEF LabelTypes, IsNamed
<1>7. Twins' = Twins
  BY <1>2 DEF Twins
<1>8. ASSUME ~Twins PROVE source' = {Sanitized(a) : a \in labels \ left'}
  <2>1. source = {Sanitized(a) : a \in labels \ left}
    BY <1>2, <1>8 DEF LabelInv, SanitizeOK
  <2>2. ASSUME NEW m \in source PROVE m[1] # x[1]
    <3>1. PICK a \in labels \ left : m = Sanitized(a)
      BY <2>1
    <3>2. a # l /\ a \in labels
      BY <1>1
    <3>3. ~EqualFold(Sanitized(l)[1], Sanitized(a)[1])
      BY <1>3, <1>8, <3>2 DEF Twins
    <3> QED
      BY <3>1, <3>3 DEF EqualFold, x
  <2>3. source' = source \cup {Sanitized(l)}
    BY <1>1, <2>2 DEF x
  <2>4. labels \ left' = (labels \ left) \cup {l}
    BY <1>1, <1>3
  <2> QED
    BY <2>1, <2>3, <2>4
<1>9. SanitizeOK'
  <2>1. /\ shown' = <<>> /\ nextName' = 1 /\ source \subseteq Clean
        /\ \A a \in labels \ left : \E m \in source : m[1] = Sanitized(a)[1]
    BY <1>2 DEF LabelInv, SanitizeOK
  <2>2. ~Twins' => source' = {Sanitized(a) : a \in labels' \ left'}
    BY <1>2, <1>7, <1>8
  <2>3. source' \subseteq Clean'
    BY <1>1, <1>2, <1>3, <2>1 DEF Clean
  <2>4. ASSUME NEW a \in labels' \ left' PROVE \E m \in source' : m[1] = Sanitized(a)[1]
    <3>1. CASE Sanitized(a)[1] = Sanitized(l)[1]
      BY <1>1, <3>1
    <3>2. CASE Sanitized(a)[1] # Sanitized(l)[1]
      <4>1. a \in labels \ left
        BY <1>1, <1>2, <2>4, <3>2
      <4>2. PICK m \in source : m[1] = Sanitized(a)[1]
        BY <2>1, <4>1
      <4> QED
        BY <1>1, <3>2, <4>2
    <3> QED
      BY <3>1, <3>2
  <2> QED
    BY <2>1, <2>2, <2>3, <2>4 DEF SanitizeOK, Sanitized
<1> QED
  BY <1>2, <1>6, <1>9 DEF LabelInv, KeptOK, PreferOK, EveryNameIsShown, LabelsAreCanonical

LEMMA FilterStep == ASSUME LabelInv, filterLabels PROVE LabelInv'
<1>1. /\ pass = "sanitize" /\ left = {} /\ source' = filtered(source) /\ pass' = "prefer"
      /\ labels' = labels /\ list' = list /\ left' = left /\ nextName' = nextName /\ shown' = shown
  BY DEF filterLabels
<1>2. /\ IsNamed(labels) /\ IsNamed(source) /\ left \subseteq labels
      /\ list \in {"where", "context"} /\ nextName \in 1..Len(Priority) + 1
      /\ shown = <<>> /\ nextName = 1 /\ source \subseteq Clean
      /\ \A a \in labels \ left : \E m \in source : m[1] = Sanitized(a)[1]
      /\ ~Twins => source = {Sanitized(a) : a \in labels \ left}
  BY <1>1 DEF LabelInv, LabelTypes, SanitizeOK
<1>3. Priority' = Priority /\ \A l : PriorityOf(l)' = PriorityOf(l)
  BY <1>1, SameList
<1>4. IsNamed(source')
  <2>1. filtered(source) \in SUBSET source
    BY DEF filtered
  <2> QED
    BY <1>1, <1>2, <2>1, NamedSubset
<1>5. LabelTypes'
  BY <1>1, <1>2, <1>3, <1>4 DEF LabelTypes, IsNamed
<1>6. KeptOK'
  <2>1. /\ Twins' = Twins /\ filtered(Clean)' = filtered(Clean)
        /\ \A l : MayStandFor(l)' = MayStandFor(l)
    BY <1>1, SameLabels DEF filtered, isExporterPod
  <2>2. ~Twins => source = Clean
    BY <1>1, <1>2 DEF Clean
  <2>3. source' \subseteq filtered(Clean)
    BY <1>1, <1>2 DEF filtered
  <2>4. ASSUME NEW l \in labels, MayStandFor(l) \subseteq filtered(Clean)
        PROVE  \E m \in source' : m[1] = Sanitized(l)[1]
    <3>1. PICK m \in source : m[1] = Sanitized(l)[1]
      BY <1>1, <1>2
    <3>2. m \in filtered(Clean)
      BY <1>2, <2>4, <3>1 DEF MayStandFor
    <3> QED
      BY <1>1, <3>1, <3>2 DEF filtered
  <2> QED
    BY <1>1, <2>1, <2>2, <2>3, <2>4 DEF KeptOK, Sanitized
<1>7. PreferOK'
  <2>1. shown' = <<>> /\ nextName' = 1 /\ Len(shown') = 0
    BY <1>1, <1>2
  <2>2. shown' \in Seq(source')
    BY <2>1
  <2>3. \A l \in source' : ~(PriorityOf(l)' < nextName')
    <3>1. \A l : PriorityOf(l) \in 1..Len(Priority) + 1
      BY <1>2, PriorityFacts
    <3>2. Len(Priority) \in Nat
      BY <1>2, PriorityType
    <3> QED
      BY <1>3, <2>1, <3>1, <3>2
  <2> QED
    BY <2>1, <2>2, <2>3 DEF PreferOK
<1> QED
  BY <1>1, <1>5, <1>6, <1>7 DEF LabelInv, SanitizeOK, EveryNameIsShown, LabelsAreCanonical

LEMMA PreferStep == ASSUME LabelInv, PreferName PROVE LabelInv'
<1> DEFINE k == nextName
           matches == {l \in source : EqualFold(l[1], Priority[k])}
<1>1. /\ pass = "prefer" /\ k <= Len(Priority) /\ nextName' = k + 1
      /\ IF matches = {} THEN UNCHANGED shown
                         ELSE \E l \in matches : shown' = Append(shown, l)
      /\ labels' = labels /\ list' = list /\ pass' = pass /\ left' = left /\ source' = source
  BY DEF PreferName
<1>2. /\ list \in {"where", "context"} /\ k \in 1..Len(Priority) + 1
      /\ shown \in Seq(source)
      /\ \A i \in 1..Len(shown) : PriorityOf(shown[i]) < k
      /\ \A i, j \in 1..Len(shown) : i < j => PriorityOf(shown[i]) < PriorityOf(shown[j])
      /\ \A l \in source : PriorityOf(l) < k =>
            \E i \in 1..Len(shown) : EqualFold(l[1], shown[i][1])
  BY <1>1 DEF LabelInv, LabelTypes, PreferOK
<1>3. Priority' = Priority /\ \A l : PriorityOf(l)' = PriorityOf(l)
  BY <1>1, SameList
<1>4. Len(Priority) \in Nat /\ k \in 1..Len(Priority)
  BY <1>1, <1>2, PriorityType
<1>5. \A l : PriorityOf(l) \in Nat /\ (PriorityOf(l) = k <=> EqualFold(l[1], Priority[k]))
  BY <1>2, <1>4, PriorityFacts
<1>6. LabelTypes'
  <2>1. nextName' \in 1..Len(Priority') + 1
    BY <1>1, <1>3, <1>4
  <2> QED
    BY <1>1, <2>1 DEF LabelInv, LabelTypes, IsNamed
<1>7. KeptOK'
  BY <1>1, KeptStutter DEF LabelInv
<1>8. PreferOK'
  <2>1. CASE matches = {}
    <3>1. shown' = shown
      BY <1>1, <2>1
    <3>2. \A l \in source : ~EqualFold(l[1], Priority[k])
      BY <2>1
    <3>3. ASSUME NEW l \in source, PriorityOf(l) < k + 1 PROVE PriorityOf(l) < k
      BY <1>4, <1>5, <3>2, <3>3
    <3>4. \A i \in 1..Len(shown) : PriorityOf(shown[i]) < k + 1
      BY <1>2, <1>4, <1>5
    <3>5. \A l \in source : PriorityOf(l) < k + 1 =>
             \E i \in 1..Len(shown) : EqualFold(l[1], shown[i][1])
      BY <1>2, <3>3
    <3> HIDE DEF k
    <3> QED
      BY <1>1, <1>2, <1>3, <3>1, <3>4, <3>5 DEF PreferOK, EqualFold, ToLower
  <2>2. CASE matches # {}
    <3>1. PICK l \in matches : shown' = Append(shown, l)
      BY <1>1, <2>2
    <3>2. l \in source /\ EqualFold(l[1], Priority[k]) /\ PriorityOf(l) = k
      BY <1>5
    <3> DEFINE n == Len(shown)
               t == Append(shown, l)
    <3>3. n \in Nat /\ t \in Seq(source) /\ Len(t) = n + 1 /\ t[n + 1] = l
          /\ \A i \in 1..n : t[i] = shown[i]
      BY <1>2, <3>2
    <3> HIDE DEF n, t
    <3>4. \A i \in 1..n + 1 : PriorityOf(t[i]) < k + 1
      <4> TAKE i \in 1..n + 1
      <4>1. CASE i = n + 1
        BY <1>4, <3>2, <3>3, <4>1
      <4>2. CASE i # n + 1
        <5>1. i \in 1..n /\ t[i] = shown[i]
          BY <3>3, <4>2
        <5>2. PriorityOf(t[i]) < k /\ PriorityOf(t[i]) \in Nat
          BY <1>2, <1>5, <5>1 DEF n
        <5> QED
          BY <1>4, <5>2
      <4> QED
        BY <4>1, <4>2
    <3>5. \A i, j \in 1..n + 1 : i < j => PriorityOf(t[i]) < PriorityOf(t[j])
      <4> SUFFICES ASSUME NEW i \in 1..n + 1, NEW j \in 1..n + 1, i < j
                   PROVE  PriorityOf(t[i]) < PriorityOf(t[j])
        OBVIOUS
      <4>1. i \in 1..n /\ t[i] = shown[i]
        BY <3>3
      <4>2. CASE j = n + 1
        BY <1>2, <3>2, <3>3, <4>1, <4>2 DEF n
      <4>3. CASE j # n + 1
        <5>1. j \in 1..n /\ t[j] = shown[j]
          BY <3>3, <4>3
        <5> QED
          BY <1>2, <4>1, <5>1 DEF n
      <4> QED
        BY <4>2, <4>3
    <3>6. \A m \in source : PriorityOf(m) < k + 1 =>
             \E i \in 1..n + 1 : EqualFold(m[1], t[i][1])
      <4> SUFFICES ASSUME NEW m \in source, PriorityOf(m) < k + 1
                   PROVE  \E i \in 1..n + 1 : EqualFold(m[1], t[i][1])
        OBVIOUS
      <4>1. CASE PriorityOf(m) < k
        <5>1. PICK i \in 1..n : EqualFold(m[1], shown[i][1])
          BY <1>2, <4>1 DEF n
        <5>2. i \in 1..n + 1 /\ t[i] = shown[i]
          BY <3>3
        <5> QED
          BY <5>1, <5>2
      <4>2. CASE PriorityOf(m) = k
        <5>1. EqualFold(m[1], Priority[k])
          BY <1>5, <4>2
        <5>2. EqualFold(m[1], l[1])
          BY <3>2, <5>1 DEF EqualFold
        <5>3. n + 1 \in 1..n + 1
          BY <3>3
        <5> QED
          BY <3>3, <5>2, <5>3
      <4>3. PriorityOf(m) < k \/ PriorityOf(m) = k
        BY <1>4, <1>5
      <4> QED
        BY <4>1, <4>2, <4>3
    <3>7. shown' = t /\ Len(shown') = n + 1
      BY <3>1, <3>3 DEF t
    <3>8. nextName' = k + 1 /\ source' = source
      BY <1>1
    <3> HIDE DEF k, matches
    <3>9. (shown \in Seq(source))'
      BY <3>3, <3>7, <3>8
    <3>10. (\A i \in 1..Len(shown) : PriorityOf(shown[i]) < nextName)'
      BY <1>3, <3>4, <3>7, <3>8
    <3>11. (\A i, j \in 1..Len(shown) : i < j => PriorityOf(shown[i]) < PriorityOf(shown[j]))'
      BY <1>3, <3>5, <3>7
    <3>12. (\A m \in source : PriorityOf(m) < nextName =>
               \E i \in 1..Len(shown) : EqualFold(m[1], shown[i][1]))'
      BY <1>3, <3>6, <3>7, <3>8 DEF EqualFold, ToLower
    <3> QED
      BY <3>9, <3>10, <3>11, <3>12 DEF PreferOK
  <2> QED
    BY <2>1, <2>2
<1> QED
  BY <1>1, <1>6, <1>7, <1>8 DEF LabelInv, SanitizeOK, EveryNameIsShown, LabelsAreCanonical

\* The end of the preferred names: what is shown then.
LEMMA PreferredShown ==
    ASSUME LabelInv, pass = "prefer", nextName > Len(Priority)
    PROVE  /\ list \in {"where", "context"} /\ IsNamed(source)
           /\ shown \in Seq(source) /\ Len(shown) \in Nat
           /\ \A l : PriorityOf(l) \in Nat /\ PriorityOf(l) <= Len(Priority) + 1
           /\ Len(Priority) \in Nat
           /\ \A i \in 1..Len(shown) : PriorityOf(shown[i]) <= Len(Priority)
           /\ \A i, j \in 1..Len(shown) : i < j => PriorityOf(shown[i]) < PriorityOf(shown[j])
           /\ \A l \in source : PriorityOf(l) <= Len(Priority) =>
                 \E i \in 1..Len(shown) : EqualFold(l[1], shown[i][1])
           /\ ~Twins => source = filtered(Clean) /\
                 \A l, m \in source : EqualFold(l[1], m[1]) => l = m
<1>1. /\ list \in {"where", "context"} /\ IsNamed(source)
      /\ nextName \in 1..Len(Priority) + 1
      /\ shown \in Seq(source)
      /\ \A i \in 1..Len(shown) : PriorityOf(shown[i]) < nextName
      /\ \A i, j \in 1..Len(shown) : i < j => PriorityOf(shown[i]) < PriorityOf(shown[j])
      /\ \A l \in source : PriorityOf(l) < nextName =>
            \E i \in 1..Len(shown) : EqualFold(l[1], shown[i][1])
  BY DEF LabelInv, LabelTypes, PreferOK
<1>2. Len(Priority) \in Nat
  BY <1>1, PriorityType
<1>3. \A l : PriorityOf(l) \in Nat /\ PriorityOf(l) <= Len(Priority) + 1
  BY <1>1, <1>2, PriorityFacts
<1>4. nextName = Len(Priority) + 1
  BY <1>1, <1>2
<1>5. \A l : PriorityOf(l) < nextName <=> PriorityOf(l) <= Len(Priority)
  BY <1>2, <1>3, <1>4
<1>6. ASSUME ~Twins
      PROVE  source = filtered(Clean) /\ \A l, m \in source : EqualFold(l[1], m[1]) => l = m
  <2>1. source = filtered(Clean)
    BY <1>6 DEF LabelInv, KeptOK
  <2>2. source \subseteq Clean
    BY <2>1 DEF filtered
  <2>3. \A l, m \in source : EqualFold(l[1], m[1]) => l = m
    BY <1>6, <2>2, NoTwins
  <2> QED
    BY <2>1, <2>3
<1>7. Len(shown) \in Nat
  BY <1>1
<1> QED
  BY <1>1, <1>2, <1>3, <1>5, <1>6, <1>7

\* renderWhereLines: the preferred labels, then the others by name.
LEMMA WhereLines ==
    ASSUME LabelInv, pass = "prefer", nextName > Len(Priority)
    PROVE  LET q == shown \o SortByName(Remainder) IN
           /\ \A i, j \in DOMAIN q : q[i][1] = q[j][1] => i = j
           /\ \A i \in DOMAIN q : q[i] \in source
           /\ \A l \in source : \E i \in DOMAIN q : EqualFold(q[i][1], l[1])
           /\ ~Twins => q = Sorted(source, ByPriority(source))
<1> DEFINE n == Len(shown)
           rest == SortByName(Remainder)
           r == Cardinality(Remainder)
           top == Len(Priority)
           q == shown \o SortByName(Remainder)
<1>1. /\ list \in {"where", "context"} /\ IsNamed(source)
      /\ shown \in Seq(source) /\ n \in Nat /\ top \in Nat
      /\ \A l : PriorityOf(l) \in Nat /\ PriorityOf(l) <= top + 1
      /\ \A i \in 1..n : PriorityOf(shown[i]) <= top
      /\ \A i, j \in 1..n : i < j => PriorityOf(shown[i]) < PriorityOf(shown[j])
      /\ \A l \in source : PriorityOf(l) <= top => \E i \in 1..n : EqualFold(l[1], shown[i][1])
      /\ ~Twins => \A l, m \in source : EqualFold(l[1], m[1]) => l = m
  BY PreferredShown
<1>2. Remainder \in SUBSET source
  BY DEF Remainder
<1>3. \A l \in source : l \in Remainder <=> \A i \in 1..n : ~EqualFold(l[1], shown[i][1])
  <2>1. DOMAIN shown = 1..n
    BY <1>1
  <2> QED
    BY <2>1 DEF Remainder
<1>4. /\ r \in Nat /\ rest \in Seq(Remainder) /\ Len(rest) = r
      /\ \A x \in Remainder : \E i \in 1..r : rest[i] = x
      /\ \A i, j \in 1..r : i < j => Before(rest[i][1], rest[j][1])
      /\ \A i, j \in 1..r : rest[i][1] = rest[j][1] => i = j
  BY <1>1, <1>2, NamedSubset, SortByNameFacts
<1>5. ASSUME NEW l \in Remainder PROVE PriorityOf(l) = top + 1
  <2>1. ~(PriorityOf(l) <= top)
    BY <1>1, <1>2, <1>3
  <2>2. PriorityOf(l) \in Nat /\ PriorityOf(l) <= top + 1
    BY <1>1
  <2> QED
    BY <1>1, <2>1, <2>2
<1>6. q = shown \o rest
  OBVIOUS
<1> HIDE DEF n, rest, r, top, q
<1>7. \A i \in 1..r : rest[i] \in Remainder /\ rest[i] \in source
  BY <1>2, <1>4
<1>8. /\ Len(q) = n + r /\ DOMAIN q = 1..n + r
      /\ \A i \in 1..n : q[i] = shown[i] /\ q[i] \in source
      /\ \A i \in 1..r : q[n + i] = rest[i]
  <2>1. rest \in Seq(source)
    BY <1>4, <1>7
  <2>2. Len(q) = n + r /\ DOMAIN q = 1..n + r
    <3>1. q \in Seq(source) /\ Len(q) = Len(shown) + Len(rest)
      BY <1>1, <1>6, <2>1, ConcatProperties
    <3>2. Len(q) = n + r
      BY <1>4, <3>1 DEF n
    <3> QED
      BY <3>1, <3>2
  <2>3. \A i \in 1..n : q[i] = shown[i] /\ q[i] \in source
    BY <1>1, <1>4, <1>6, <2>1 DEF n
  <2>4. \A i \in 1..r : q[n + i] = rest[i]
    BY <1>1, <1>4, <1>6, <2>1 DEF n
  <2> QED
    BY <2>2, <2>3, <2>4
\* A position is one of the preferred labels or one of the others.
<1>9. ASSUME NEW i \in 1..n + r
      PROVE  \/ i \in 1..n
             \/ i > n /\ i - n \in 1..r /\ q[i] = rest[i - n]
  <2>1. CASE i <= n
    BY <1>1, <2>1
  <2>2. CASE i > n
    <3>1. i - n \in 1..r /\ n + (i - n) = i
      BY <1>1, <1>4, <2>2
    <3>2. q[n + (i - n)] = rest[i - n]
      BY <1>8, <3>1
    <3> QED
      BY <2>2, <3>1, <3>2
  <2>3. i <= n \/ i > n
    BY <1>1, <1>4
  <2> QED
    BY <2>1, <2>2, <2>3
<1>10. \A i \in 1..n + r : q[i] \in source
  BY <1>7, <1>8, <1>9
<1>11. ASSUME NEW i \in 1..n + r, NEW j \in 1..n + r, i < j
       PROVE  \/ PriorityOf(q[i]) < PriorityOf(q[j])
              \/ PriorityOf(q[i]) = PriorityOf(q[j]) /\ Before(q[i][1], q[j][1])
  <2>1. CASE j \in 1..n
    <3>1. i \in 1..n
      BY <1>1, <1>4, <1>11, <2>1
    <3> QED
      BY <1>1, <1>8, <1>11, <2>1, <3>1
  <2>2. CASE j > n /\ j - n \in 1..r /\ q[j] = rest[j - n]
    <3>1. PriorityOf(q[j]) = top + 1
      BY <1>5, <1>7, <2>2
    <3>2. CASE i \in 1..n
      <4>1. PriorityOf(q[i]) <= top /\ PriorityOf(q[i]) \in Nat /\ top \in Nat
        BY <1>1, <1>8, <3>2
      <4>2. PriorityOf(q[i]) < PriorityOf(q[j])
        BY <3>1, <4>1
      <4> QED
        BY <4>2
    <3>3. CASE i > n /\ i - n \in 1..r /\ q[i] = rest[i - n]
      <4>1. PriorityOf(q[i]) = top + 1
        BY <1>5, <1>7, <3>3
      <4>2. i - n < j - n
        BY <1>1, <1>11
      <4>3. Before(q[i][1], q[j][1])
        BY <1>4, <2>2, <3>3, <4>2
      <4> QED
        BY <3>1, <4>1, <4>3
    <3> QED
      BY <1>9, <3>2, <3>3
  <2> QED
    BY <1>9, <2>1, <2>2
<1>12. ASSUME NEW i \in DOMAIN q, NEW j \in DOMAIN q, q[i][1] = q[j][1], i < j PROVE FALSE
  <2>1. i \in 1..n + r /\ j \in 1..n + r
    BY <1>8
  <2>2. PriorityOf(q[i]) = PriorityOf(q[j]) /\ PriorityOf(q[i]) \in Nat
    BY <1>1, <1>12, SamePriority
  <2>3. Before(q[i][1], q[j][1])
    BY <1>11, <1>12, <2>1, <2>2
  <2>4. q[i][1] \in Strings
    BY <1>1, <1>10, <2>1 DEF IsNamed
  <2> QED
    BY <1>12, <2>3, <2>4, BeforeIsIrreflexive
<1>13. \A i, j \in DOMAIN q : q[i][1] = q[j][1] => i = j
  <2> SUFFICES ASSUME NEW i \in DOMAIN q, NEW j \in DOMAIN q, q[i][1] = q[j][1] PROVE i = j
    OBVIOUS
  <2>1. ~(i < j) /\ ~(j < i)
    BY <1>12
  <2> QED
    BY <1>1, <1>4, <1>8, <2>1
<1>14. ASSUME NEW l \in source, l \notin Remainder
       PROVE  \E i \in 1..n : i \in DOMAIN q /\ q[i] = shown[i] /\ EqualFold(l[1], q[i][1])
  <2>1. PICK i \in 1..n : EqualFold(l[1], shown[i][1])
    BY <1>3, <1>14
  <2>2. i \in 1..n + r
    BY <1>1, <1>4
  <2> QED
    BY <1>8, <2>1, <2>2
<1>15. ASSUME NEW l \in source, l \in Remainder
       PROVE  \E i \in DOMAIN q : q[i] = l
  <2>1. PICK i \in 1..r : rest[i] = l
    BY <1>4, <1>15
  <2>2. n + i \in 1..n + r
    BY <1>1, <1>4
  <2> QED
    BY <1>8, <2>1, <2>2
<1>16. \A l \in source : \E i \in DOMAIN q : EqualFold(q[i][1], l[1])
  BY <1>14, <1>15 DEF EqualFold
<1>17. ASSUME ~Twins PROVE q = Sorted(source, ByPriority(source))
  <2>1. n + r \in Nat /\ q \in [1..n + r -> source]
    <3>1. n + r \in Nat
      BY <1>1, <1>4
    <3>2. rest \in Seq(source)
      BY <1>4, <1>7
    <3>3. q \in Seq(source)
      BY <1>1, <1>6, <3>2
    <3>4. q \in [1..Len(q) -> source]
      BY <3>3
    <3> QED
      BY <1>8, <3>1, <3>4
  <2>2. \A l \in source : \E i \in 1..n + r : q[i] = l
    <3> TAKE l \in source
    <3>1. CASE l \in Remainder
      BY <1>8, <1>15, <3>1
    <3>2. CASE l \notin Remainder
      <4>1. PICK i \in DOMAIN q : EqualFold(l[1], q[i][1])
        BY <1>14, <3>2
      <4>2. i \in 1..n + r /\ q[i] \in source
        BY <1>8, <1>10
      <4>3. l = q[i]
        BY <1>1, <1>17, <4>1, <4>2
      <4> QED
        BY <4>2, <4>3
    <3> QED
      BY <3>1, <3>2
  <2>3. \A i, j \in 1..n + r : i < j => <<q[i], q[j]>> \in ByPriority(source)
    <3> SUFFICES ASSUME NEW i \in 1..n + r, NEW j \in 1..n + r, i < j
                 PROVE  <<q[i], q[j]>> \in ByPriority(source)
      OBVIOUS
    <3>1. PICK x \in source, y \in source : x = q[i] /\ y = q[j]
      BY <1>10
    <3>2. PriorityOf(x) < PriorityOf(y) \/ (PriorityOf(x) = PriorityOf(y) /\ Before(x[1], y[1]))
      BY <1>11, <3>1
    <3>3. Before(x[1], y[1]) <=> <<x, y>> \in ByName(source)
      BY ByNamePairs
    <3>4. <<x, y>> \in source \X source /\ <<x, y>>[1] = x /\ <<x, y>>[2] = y
      OBVIOUS
    <3>5. <<x, y>> \in ByPriority(source)
      BY <3>2, <3>3, <3>4 DEF ByPriority
    <3> QED
      BY <3>1, <3>5
  <2>4. StrictOrder(ByPriority(source), source) /\ IsFiniteSet(source)
    BY <1>1, PriorityOrder DEF IsNamed
  <2>5. PICK m \in Nat : m = n + r
    BY <2>1
  <2>6. /\ q \in [1..m -> source] /\ \A l \in source : \E i \in 1..m : q[i] = l
        /\ \A i, j \in 1..m : i < j => <<q[i], q[j]>> \in ByPriority(source)
    BY <2>1, <2>2, <2>3, <2>5
  <2> QED
    BY <2>4, <2>6, SortedUnique
<1> QED
  BY <1>8, <1>10, <1>13, <1>16, <1>17 DEF q

\* renderGroupContext: without twins it shows the preferred labels, or all of them.
LEMMA GroupContext ==
    ASSUME LabelInv, pass = "prefer", nextName > Len(Priority), ~Twins
    PROVE  (IF shown = <<>> THEN source ELSE Range(shown)) =
           (IF Preferred(source) = {} THEN source ELSE Preferred(source))
<1> DEFINE n == Len(shown)
<1>1. /\ shown \in Seq(source) /\ n \in Nat
      /\ \A i \in 1..n : PriorityOf(shown[i]) <= Len(Priority)
      /\ \A l \in source : PriorityOf(l) <= Len(Priority) =>
            \E i \in 1..n : EqualFold(l[1], shown[i][1])
      /\ \A l, m \in source : EqualFold(l[1], m[1]) => l = m
  BY PreferredShown
<1>2. \A i \in 1..n : shown[i] \in source
  BY <1>1
<1>3. Range(shown) = {shown[i] : i \in 1..n}
  BY <1>1 DEF Range
<1>4. Range(shown) \subseteq Preferred(source)
  BY <1>1, <1>2, <1>3 DEF Preferred
<1>5. Preferred(source) \subseteq Range(shown)
  <2> SUFFICES ASSUME NEW l \in source, PriorityOf(l) <= Len(Priority) PROVE l \in Range(shown)
    BY DEF Preferred
  <2>1. PICK i \in 1..n : EqualFold(l[1], shown[i][1])
    BY <1>1
  <2>2. l = shown[i]
    BY <1>1, <1>2, <2>1
  <2> QED
    BY <1>3, <2>2
<1>6. shown = <<>> <=> Range(shown) = {}
  <2>1. ASSUME shown = <<>> PROVE Range(shown) = {}
    <3>1. 1..n = {}
      BY <2>1
    <3> QED
      BY <1>3, <3>1
  <2>2. ASSUME shown # <<>> PROVE shown[1] \in Range(shown)
    <3>1. 1 \in 1..n
      BY <1>1, <2>2
    <3> QED
      BY <1>3, <3>1
  <2> QED
    BY <2>1, <2>2
<1> QED
  BY <1>4, <1>5, <1>6

LEMMA EndWhereStep == ASSUME LabelInv, EndWhereLines PROVE LabelInv'
<1>1. /\ pass = "prefer" /\ list = "where" /\ nextName > Len(Priority)
      /\ shown' = shown \o SortByName(Remainder) /\ pass' = "done"
      /\ labels' = labels /\ list' = list /\ left' = left /\ source' = source /\ nextName' = nextName
  BY DEF EndWhereLines
<1> DEFINE q == shown \o SortByName(Remainder)
<1>2. /\ \A i, j \in DOMAIN q : q[i][1] = q[j][1] => i = j
      /\ \A i \in DOMAIN q : q[i] \in source
      /\ \A l \in source : \E i \in DOMAIN q : EqualFold(q[i][1], l[1])
      /\ ~Twins => q = Sorted(source, ByPriority(source))
  BY <1>1, WhereLines
<1>3. shown' = q
  BY <1>1
<1> HIDE DEF q
<1>4. LabelTypes'
  <2>1. Priority' = Priority
    BY <1>1, SameList
  <2> QED
    BY <1>1, <2>1 DEF LabelInv, LabelTypes, IsNamed
<1>5. Twins' = Twins /\ Clean' = Clean /\ filtered(Clean)' = filtered(Clean)
  BY <1>1 DEF Twins, Clean, filtered, isExporterPod
<1>6. ~Twins => source = filtered(Clean)
  BY <1>1 DEF LabelInv, KeptOK
<1>7. KeptOK'
  BY <1>1, KeptStutter DEF LabelInv
<1>8. EveryNameIsShown'
  <2>1. /\ source \subseteq filtered(Clean)
        /\ \A l \in labels : MayStandFor(l) \subseteq filtered(Clean) =>
              \E m \in source : m[1] = Sanitized(l)[1]
    BY <1>1 DEF LabelInv, KeptOK
  <2>2. \A i \in DOMAIN q : q[i] \in filtered(Clean)
    BY <1>2, <2>1
  <2>3. ASSUME NEW l \in labels, MayStandFor(l) \subseteq filtered(Clean)
        PROVE  \E i \in DOMAIN q : EqualFold(q[i][1], Sanitized(l)[1])
    <3>1. PICK m \in source : m[1] = Sanitized(l)[1]
      BY <2>1, <2>3
    <3>2. PICK i \in DOMAIN q : EqualFold(q[i][1], m[1])
      BY <1>2
    <3> QED
      BY <3>1, <3>2
  <2>4. /\ \A l : MayStandFor(l)' = MayStandFor(l) /\ Sanitized(l)' = Sanitized(l)
        /\ \A u, v : EqualFold(u, v)' = EqualFold(u, v)
    BY <1>1, SameLabels DEF Sanitized, EqualFold, ToLower
  <2>5. /\ \A i, j \in DOMAIN shown' : shown'[i][1] = shown'[j][1] => i = j
        /\ \A i \in DOMAIN shown' : shown'[i] \in filtered(Clean)'
    BY <1>2, <1>3, <1>5, <2>2
  <2>6. \A l \in labels' : MayStandFor(l)' \subseteq filtered(Clean)' =>
           \E i \in DOMAIN shown' : EqualFold(shown'[i][1], Sanitized(l)[1])
    BY <1>1, <1>3, <1>5, <2>3, <2>4
  <2> QED
    BY <2>5, <2>6 DEF EveryNameIsShown, EqualFold, ToLower, Sanitized
<1>9. LabelsAreCanonical'
  <2>1. Expected = Sorted(filtered(Clean), ByPriority(filtered(Clean)))
    BY <1>1 DEF Expected, Clean
  <2>2. Expected' = Expected
    BY <1>1 DEF Expected, Clean, filtered, isExporterPod, ByPriority, PriorityOf, Priority, Preferred
  <2>3. ~Twins => q = Expected
    BY <1>2, <1>6, <2>1
  <2> QED
    BY <1>3, <1>5, <2>2, <2>3 DEF LabelsAreCanonical
<1> QED
  BY <1>1, <1>4, <1>7, <1>8, <1>9 DEF LabelInv, SanitizeOK, PreferOK

LEMMA EndContextStep == ASSUME LabelInv, EndGroupContext PROVE LabelInv'
<1>1. /\ pass = "prefer" /\ list = "context" /\ nextName > Len(Priority)
      /\ shown' = SortByName(IF shown = <<>> THEN source ELSE Range(shown)) /\ pass' = "done"
      /\ labels' = labels /\ list' = list /\ left' = left /\ source' = source /\ nextName' = nextName
  BY DEF EndGroupContext
<1>2. LabelTypes'
  <2>1. Priority' = Priority
    BY <1>1, SameList
  <2> QED
    BY <1>1, <2>1 DEF LabelInv, LabelTypes, IsNamed
<1>3. Twins' = Twins /\ Clean' = Clean /\ filtered(Clean)' = filtered(Clean)
  BY <1>1 DEF Twins, Clean, filtered, isExporterPod
<1>4. ~Twins => source = filtered(Clean)
  BY <1>1 DEF LabelInv, KeptOK
<1>5. KeptOK'
  BY <1>1, KeptStutter DEF LabelInv
<1>6. LabelsAreCanonical'
  <2>1. Expected = SortByName(IF Preferred(filtered(Clean)) = {} THEN filtered(Clean)
                                                                ELSE Preferred(filtered(Clean)))
    BY <1>1 DEF Expected, Clean
  <2>2. Expected' = Expected
    BY <1>1 DEF Expected, Clean, filtered, isExporterPod, ByPriority, PriorityOf, Priority, Preferred
  <2>3. ASSUME ~Twins PROVE shown' = Expected
    <3>1. (IF shown = <<>> THEN source ELSE Range(shown)) =
          (IF Preferred(source) = {} THEN source ELSE Preferred(source))
      BY <1>1, <2>3, GroupContext
    <3> QED
      BY <1>1, <1>4, <2>1, <2>3, <3>1
  <2> QED
    BY <1>3, <2>2, <2>3 DEF LabelsAreCanonical
<1> QED
  BY <1>1, <1>2, <1>5, <1>6 DEF LabelInv, SanitizeOK, PreferOK, EveryNameIsShown

LEMMA LabelStutter == ASSUME LabelInv, UNCHANGED labelVars PROVE LabelInv'
<1>1. /\ labels' = labels /\ list' = list /\ pass' = pass /\ left' = left
      /\ source' = source /\ nextName' = nextName /\ shown' = shown
  BY DEF labelVars
<1>2. Priority' = Priority /\ Twins' = Twins
  BY <1>1 DEF Priority, Twins
<1>3. LabelTypes'
  BY <1>1, <1>2 DEF LabelInv, LabelTypes, IsNamed
<1>4. SanitizeOK'
  BY <1>1, <1>2 DEF LabelInv, SanitizeOK, Clean
<1>5. KeptOK'
  <2>1. CASE pass = "sanitize"
    BY <1>1, <2>1 DEF KeptOK
  <2>2. CASE pass # "sanitize"
    BY <1>1, <2>2, KeptStutter DEF LabelInv
  <2> QED
    BY <2>1, <2>2
<1>6. PreferOK'
  <2>1. \A l : PriorityOf(l)' = PriorityOf(l)
    BY <1>1, SameList
  <2>2. PreferOK
    BY DEF LabelInv
  <2> QED
    BY <1>1, <2>1, <2>2 DEF PreferOK, EqualFold, ToLower
<1>7. EveryNameIsShown'
  <2>1. filtered(Clean)' = filtered(Clean) /\ \A l : MayStandFor(l)' = MayStandFor(l)
    BY <1>1, SameLabels DEF filtered, isExporterPod
  <2> QED
    BY <1>1, <2>1 DEF LabelInv, EveryNameIsShown
<1>8. LabelsAreCanonical'
  <2>1. Expected' = Expected
    BY <1>1 DEF Expected, Clean, filtered, isExporterPod, ByPriority, PriorityOf, Priority, Preferred
  <2> QED
    BY <1>1, <1>2, <2>1 DEF LabelInv, LabelsAreCanonical
<1> QED
  BY <1>3, <1>4, <1>5, <1>6, <1>7, <1>8 DEF LabelInv

LEMMA LabelInductive == PayloadSpec => []LabelInv
<1>1. PayloadInit => LabelInv
  BY LabelsInitOK DEF PayloadInit
<1>2. LabelInv /\ [PayloadNext]_payloadVars => LabelInv'
  <2> SUFFICES ASSUME LabelInv, [PayloadNext]_payloadVars PROVE LabelInv'
    OBVIOUS
  <2>1. ASSUME SelectLabels PROVE LabelInv'
    <3>1. \/ sanitizeStringMap \/ filterLabels \/ PreferName \/ EndWhereLines \/ EndGroupContext
      BY <2>1 DEF SelectLabels, LabelsNext
    <3> QED
      BY <3>1, SanitizeStep, FilterStep, PreferStep, EndWhereStep, EndContextStep
  <2>2. ASSUME UNCHANGED labelVars PROVE LabelInv'
    BY <2>2, LabelStutter
  <2>3. SelectLabels \/ UNCHANGED labelVars
    BY DEF PayloadNext, PackMessages, CutMessage, RecognisePayload, payloadVars
  <2> QED
    BY <2>1, <2>2, <2>3
<1> QED
  BY <1>1, <1>2, PTL DEF PayloadSpec

\* In the lines of an alert (renderWhereLines) every label received has its name, once,
\* unless the map may hold a filtered label under that name, for every set of labels,
\* every list of preferred names and every order in which Go iterates over the maps.
THEOREM NamesAreShown == PayloadSpec => []EveryNameIsShown
<1>1. LabelInv => EveryNameIsShown
  BY DEF LabelInv
<1> QED
  BY <1>1, LabelInductive, PTL

\* What a message shows of its labels is a function of the labels: preferred names in
\* their order, then the others by name, whatever the order of the ranges over the maps.
THEOREM LabelsInOneOrder == PayloadSpec => []LabelsAreCanonical
<1>1. LabelInv => LabelsAreCanonical
  BY DEF LabelInv
<1> QED
  BY <1>1, LabelInductive, PTL

-----------------------------------------------------------------------------
\* Separators.

\* The string does not hold the character c.
Free(s, c) == \A i \in 1..Len(s) : s[i] # c

\* a and x with c between them.
Glued(a, c, x) == a \o <<c>> \o x

GlueOf(w, a, c, x) ==
    /\ w \in Strings /\ Len(a) \in Nat /\ Len(x) \in Nat
    /\ Len(w) = Len(a) + 1 + Len(x)
    /\ \A i \in 1..Len(a) : w[i] = a[i]
    /\ w[Len(a) + 1] = c
    /\ \A i \in 1..Len(x) : w[Len(a) + 1 + i] = x[i]

LEMMA GlueFacts ==
    ASSUME NEW a \in Strings, NEW c \in Nat, NEW x \in Strings
    PROVE  GlueOf(Glued(a, c, x), a, c, x)
<1> DEFINE b == a \o <<c>>
           w == b \o x
<1>1. a \in Seq(Nat) /\ x \in Seq(Nat) /\ <<c>> \in Seq(Nat) /\ Len(<<c>>) = 1 /\ <<c>>[1] = c
  BY DEF Strings
<1>2. Len(a) \in Nat /\ Len(x) \in Nat
  BY <1>1
<1>3. b \in Seq(Nat) /\ Len(b) = Len(a) + 1 /\ b[Len(a) + 1] = c /\ \A i \in 1..Len(a) : b[i] = a[i]
  <2>1. /\ b \in Seq(Nat) /\ Len(b) = Len(a) + Len(<<c>>)
        /\ \A i \in 1..Len(a) + Len(<<c>>) : b[i] = IF i <= Len(a) THEN a[i] ELSE <<c>>[i - Len(a)]
    BY <1>1, ConcatProperties
  <2>2. \A i \in 1..Len(a) : b[i] = a[i]
    BY <1>1, <1>2, <2>1
  <2>3. b[Len(a) + 1] = <<c>>[(Len(a) + 1) - Len(a)]
    BY <1>1, <1>2, <2>1
  <2>4. (Len(a) + 1) - Len(a) = 1
    BY <1>2
  <2> QED
    BY <1>1, <2>1, <2>2, <2>3, <2>4
<1> HIDE DEF b
<1>4. b \in Seq(Nat) /\ x \in Seq(Nat)
  BY <1>1, <1>3
<1>5. /\ w \in Seq(Nat) /\ Len(w) = Len(b) + Len(x)
      /\ \A i \in 1..Len(b) + Len(x) : w[i] = IF i <= Len(b) THEN b[i] ELSE x[i - Len(b)]
  BY <1>4, ConcatProperties
<1> HIDE DEF w
<1>6. \A i \in 1..Len(a) : w[i] = a[i]
  BY <1>2, <1>3, <1>5
<1>7. w[Len(a) + 1] = c
  BY <1>2, <1>3, <1>5
<1>8. ASSUME NEW i \in 1..Len(x) PROVE w[Len(a) + 1 + i] = x[i]
  <2>1. /\ Len(a) + 1 + i \in 1..Len(b) + Len(x) /\ ~(Len(a) + 1 + i <= Len(b))
        /\ (Len(a) + 1 + i) - Len(b) = i
    BY <1>2, <1>3
  <2> QED
    BY <1>5, <2>1
<1>9. Glued(a, c, x) = w
  BY DEF Glued, w, b
<1>10. Len(w) = Len(a) + 1 + Len(x)
  BY <1>3, <1>5
<1> QED
  BY <1>2, <1>5, <1>6, <1>7, <1>8, <1>9, <1>10 DEF GlueOf, Strings

LEMMA SameString ==
    ASSUME NEW s \in Strings, NEW t \in Strings, Len(s) = Len(t), \A i \in 1..Len(s) : s[i] = t[i]
    PROVE  s = t
BY DEF Strings

\* What is glued can be told apart, if one of the places of the separators is known.
LEMMA SamePlace ==
    ASSUME NEW a \in Strings, NEW b \in Strings, NEW c \in Nat, NEW x \in Strings, NEW y \in Strings,
           Glued(a, c, x) = Glued(b, c, y), Len(a) = Len(b)
    PROVE  a = b /\ x = y
<1> DEFINE w == Glued(a, c, x)
<1>1. GlueOf(w, a, c, x)
  BY GlueFacts
<1>2. GlueOf(w, b, c, y)
  BY GlueFacts
<1> HIDE DEF w
<1>3. Len(x) = Len(y)
  BY <1>1, <1>2 DEF GlueOf
<1>4. \A i \in 1..Len(a) : a[i] = b[i]
  BY <1>1, <1>2 DEF GlueOf
<1>5. \A i \in 1..Len(x) : x[i] = y[i]
  BY <1>1, <1>2, <1>3 DEF GlueOf
<1> QED
  BY <1>3, <1>4, <1>5, SameString

\* The later of two separators lies behind the other one.
LEMMA LaterPlace ==
    ASSUME NEW a \in Strings, NEW b \in Strings, NEW c \in Nat, NEW x \in Strings, NEW y \in Strings,
           Glued(a, c, x) = Glued(b, c, y), Len(a) < Len(b)
    PROVE  ~Free(x, c) /\ ~Free(b, c)
<1> DEFINE w == Glued(a, c, x)
<1>1. GlueOf(w, a, c, x)
  BY GlueFacts
<1>2. GlueOf(w, b, c, y)
  BY GlueFacts
<1> HIDE DEF w
<1>3. Len(b) - Len(a) \in 1..Len(x) /\ Len(a) + 1 + (Len(b) - Len(a)) = Len(b) + 1
  BY <1>1, <1>2 DEF GlueOf
<1>4. x[Len(b) - Len(a)] = c
  BY <1>1, <1>2, <1>3 DEF GlueOf
<1>5. Len(a) + 1 \in 1..Len(b)
  BY <1>1, <1>2 DEF GlueOf
<1>6. b[Len(a) + 1] = c
  BY <1>1, <1>2, <1>5 DEF GlueOf
<1> QED
  BY <1>3, <1>4, <1>5, <1>6 DEF Free

\* Nothing behind the separator holds it: it is the last one.
LEMMA LastSeparator ==
    ASSUME NEW a \in Strings, NEW b \in Strings, NEW c \in Nat, NEW x \in Strings, NEW y \in Strings,
           Glued(a, c, x) = Glued(b, c, y), Free(x, c), Free(y, c)
    PROVE  a = b /\ x = y
<1>1. Len(a) \in Nat /\ Len(b) \in Nat
  BY DEF Strings
<1>2. ~(Len(a) < Len(b)) /\ ~(Len(b) < Len(a))
  BY LaterPlace
<1>3. Len(a) = Len(b)
  BY <1>1, <1>2
<1> QED
  BY <1>3, SamePlace

\* Nothing in front of the separator holds it: it is the first one.
LEMMA FirstSeparator ==
    ASSUME NEW a \in Strings, NEW b \in Strings, NEW c \in Nat, NEW x \in Strings, NEW y \in Strings,
           Glued(a, c, x) = Glued(b, c, y), Free(a, c), Free(b, c)
    PROVE  a = b /\ x = y
<1>1. Len(a) \in Nat /\ Len(b) \in Nat
  BY DEF Strings
<1>2. ~(Len(a) < Len(b)) /\ ~(Len(b) < Len(a))
  BY LaterPlace
<1>3. Len(a) = Len(b)
  BY <1>1, <1>2
<1> QED
  BY <1>3, SamePlace

LEMMA GlueHolds ==
    ASSUME NEW a \in Strings, NEW c \in Nat, NEW x \in Strings
    PROVE  ~Free(Glued(a, c, x), c) /\ Glued(a, c, x) # <<>>
<1>1. /\ Glued(a, c, x)[Len(a) + 1] = c /\ Len(Glued(a, c, x)) = Len(a) + 1 + Len(x)
      /\ Len(a) \in Nat /\ Len(x) \in Nat
  BY GlueFacts DEF GlueOf
<1>2. Len(a) + 1 \in 1..Len(Glued(a, c, x)) /\ Len(Glued(a, c, x)) # 0
  BY <1>1
<1> QED
  BY <1>1, <1>2 DEF Free

LEMMA GlueFree ==
    ASSUME NEW a \in Strings, NEW c \in Nat, NEW x \in Strings, NEW d \in Nat, c # d, Free(a, d), Free(x, d)
    PROVE  Free(Glued(a, c, x), d)
<1> DEFINE w == Glued(a, c, x)
<1>1. GlueOf(w, a, c, x)
  BY GlueFacts
<1> HIDE DEF w
<1>2. ASSUME NEW i \in 1..Len(w) PROVE w[i] # d
  <2>1. CASE i <= Len(a)
    <3>1. i \in 1..Len(a)
      BY <1>1, <2>1 DEF GlueOf
    <3>2. w[i] = a[i]
      BY <1>1, <3>1 DEF GlueOf
    <3> QED
      BY <3>1, <3>2 DEF Free
  <2>2. CASE i = Len(a) + 1
    BY <1>1, <2>2 DEF GlueOf
  <2>3. CASE i > Len(a) + 1
    <3>1. i - (Len(a) + 1) \in 1..Len(x) /\ Len(a) + 1 + (i - (Len(a) + 1)) = i
      BY <1>1, <2>3 DEF GlueOf
    <3>2. PICK j \in 1..Len(x) : j = i - (Len(a) + 1)
      BY <3>1
    <3>3. w[Len(a) + 1 + j] = x[j]
      BY <1>1 DEF GlueOf
    <3>4. w[i] = x[j]
      BY <3>1, <3>2, <3>3
    <3> QED
      BY <3>4 DEF Free
  <2> QED
    BY <1>1, <2>1, <2>2, <2>3 DEF GlueOf
<1> QED
  BY <1>2 DEF Free, w

Associate(s, t, u) == (s \o t) \o u = s \o (t \o u)

LEMMA ConcatStrings ==
    ASSUME NEW s \in Seq(Nat), NEW t \in Seq(Nat), NEW u \in Seq(Nat)
    PROVE  Associate(s, t, u)
BY ConcatAssociative, SMTT(30) DEF Associate

LEMMA GlueAssociative ==
    ASSUME NEW a \in Strings, NEW c \in Nat, NEW b \in Strings, NEW d \in Nat, NEW x \in Strings
    PROVE  Glued(Glued(a, c, b), d, x) = Glued(a, c, Glued(b, d, x))
<1>1. <<c>> \in Seq(Nat) /\ <<d>> \in Seq(Nat)
  OBVIOUS
<1>2. PICK C \in Seq(Nat) : C = <<c>>
  BY <1>1
<1>3. PICK D \in Seq(Nat) : D = <<d>>
  BY <1>1
<1>4. a \in Seq(Nat) /\ b \in Seq(Nat) /\ x \in Seq(Nat)
  BY DEF Strings
<1>5. PICK e \in Seq(Nat) : e = a \o C
  BY <1>4, ConcatProperties
<1>6. PICK f \in Seq(Nat) : f = b \o D
  BY <1>4, ConcatProperties
<1>7. Associate(e, b, D) /\ Associate(e, f, x)
  BY <1>4, ConcatStrings
<1>8. Glued(Glued(a, c, b), d, x) = ((e \o b) \o D) \o x
  BY <1>2, <1>3, <1>5, Zenon DEF Glued
<1>9. Glued(a, c, Glued(b, d, x)) = e \o (f \o x)
  BY <1>2, <1>3, <1>5, <1>6, Zenon DEF Glued
<1> QED
  BY <1>6, <1>7, <1>8, <1>9, Zenon DEF Associate

\* Every string that holds a character can be taken apart at the last one.
LEMMA LastPlace ==
    ASSUME NEW s \in Strings, NEW c \in Nat, ~Free(s, c)
    PROVE  \E a \in Strings, x \in Strings : s = Glued(a, c, x) /\ Free(x, c)
<1> DEFINE T == {i \in 1..Len(s) : s[i] = c}
<1>1. Len(s) \in Nat /\ s \in Seq(Nat)
  BY DEF Strings
<1>2. T \in SUBSET (0..Len(s)) /\ T # {}
  BY <1>1 DEF Free
<1> HIDE DEF T
<1>3. Split!Max(T) \in T /\ \A m \in T : m <= Split!Max(T)
  BY <1>1, <1>2, MaxOfSet
<1>4. PICK k \in T : \A m \in T : m <= k
  BY <1>3
<1>5. k \in 1..Len(s) /\ s[k] = c /\ \A i \in 1..Len(s) : i > k => s[i] # c
  BY <1>1, <1>4 DEF T
<1> DEFINE a == [i \in 1..k - 1 |-> s[i]]
           x == [i \in 1..Len(s) - k |-> s[k + i]]
<1>6. a \in Strings /\ Len(a) = k - 1 /\ \A i \in 1..Len(a) : a[i] = s[i]
  <2>1. k - 1 \in Nat /\ \A i \in 1..k - 1 : s[i] \in Nat
    BY <1>1, <1>5
  <2>2. a \in [1..k - 1 -> Nat]
    BY <2>1
  <2>3. a \in Seq(Nat) /\ Len(a) = k - 1
    BY <2>1, <2>2
  <2> QED
    BY <2>3 DEF Strings
<1>7. x \in Strings /\ Len(x) = Len(s) - k /\ \A i \in 1..Len(x) : x[i] = s[k + i]
  <2>1. Len(s) - k \in Nat /\ \A i \in 1..Len(s) - k : k + i \in 1..Len(s)
    BY <1>1, <1>5
  <2>2. x \in [1..Len(s) - k -> Nat]
    BY <1>1, <2>1
  <2>3. PICK m \in Nat : m = Len(s) - k
    BY <2>1
  <2>4. x \in [1..m -> Nat]
    BY <2>2, <2>3
  <2> HIDE DEF x
  <2>5. x \in Seq(Nat) /\ Len(x) = m
    BY <2>4
  <2> QED
    BY <2>3, <2>5 DEF Strings, x
<1> HIDE DEF a, x
<1> DEFINE w == Glued(a, c, x)
<1>8. GlueOf(w, a, c, x)
  BY <1>6, <1>7, GlueFacts
<1> HIDE DEF w
<1>9. ASSUME NEW i \in 1..Len(s) PROVE s[i] = w[i]
  <2>1. CASE i < k
    BY <1>1, <1>5, <1>6, <1>8, <2>1 DEF GlueOf
  <2>2. CASE i = k
    BY <1>1, <1>5, <1>6, <1>8, <2>2 DEF GlueOf
  <2>3. CASE i > k
    <3>1. i - k \in 1..Len(x) /\ Len(a) + 1 + (i - k) = i /\ k + (i - k) = i
      BY <1>1, <1>5, <1>6, <1>7, <2>3
    <3> QED
      BY <1>7, <1>8, <3>1 DEF GlueOf
  <2> QED
    BY <1>1, <1>5, <2>1, <2>2, <2>3
<1>10. s = w
  <2>1. Len(s) = Len(w)
    BY <1>1, <1>5, <1>6, <1>7, <1>8 DEF GlueOf
  <2> QED
    BY <1>8, <1>9, <2>1, SameString DEF GlueOf
<1>11. Free(x, c)
  <2>1. ASSUME NEW i \in 1..Len(x) PROVE x[i] # c
    <3>1. k + i \in 1..Len(s) /\ k + i > k /\ x[i] = s[k + i]
      BY <1>1, <1>5, <1>7
    <3> QED
      BY <1>5, <3>1
  <2> QED
    BY <2>1 DEF Free
<1> QED
  BY <1>6, <1>7, <1>10, <1>11 DEF w

-----------------------------------------------------------------------------
\* strings.Join.

\* f holds the joins of the first strings of s.
Joins(f, s, sep) ==
    /\ f \in [1..Len(s) -> Strings]
    /\ \A i \in 1..Len(s) : f[i] = IF i = 1 THEN s[1] ELSE f[i - 1] \o sep \o s[i]

LEMMA ConcatType ==
    ASSUME NEW a \in Strings, NEW b \in Strings
    PROVE  a \o b \in Strings
BY DEF Strings

LEMMA JoinsExist ==
    ASSUME NEW s \in Seq(Strings), NEW sep \in Strings
    PROVE  \E f : Joins(f, s, sep)
<1> DEFINE Law(f, n) == \A i \in 1..n : f[i] = IF i = 1 THEN s[1] ELSE f[i - 1] \o sep \o s[i]
           T == {n \in Nat : n <= Len(s) => \E f \in [1..n -> Strings] : Law(f, n)}
<1>1. 0 \in T
  <2>1. [i \in 1..0 |-> <<>>] \in [1..0 -> Strings]
    OBVIOUS
  <2>2. \A i \in 1..0 : FALSE
    OBVIOUS
  <2> QED
    BY <2>1, <2>2
<1>2. ASSUME NEW n \in T PROVE n + 1 \in T
  <2> SUFFICES ASSUME n + 1 <= Len(s)
               PROVE  \E f \in [1..n + 1 -> Strings] : Law(f, n + 1)
    OBVIOUS
  <2>1. n \in Nat /\ Len(s) \in Nat
    OBVIOUS
  <2>2. PICK f \in [1..n -> Strings] : Law(f, n)
    BY <2>1
  <2> DEFINE x == IF n = 0 THEN s[1] ELSE f[n] \o sep \o s[n + 1]
             g == [i \in 1..n + 1 |-> IF i = n + 1 THEN x ELSE f[i]]
  <2>3. x \in Strings
    <3>1. s[n + 1] \in Strings
      BY <2>1
    <3>2. CASE n = 0
      BY <3>1, <3>2
    <3>3. CASE n # 0
      <4>1. f[n] \in Strings
        BY <2>1, <3>3
      <4>2. f[n] \o sep \in Strings
        BY <4>1, ConcatType
      <4>3. (f[n] \o sep) \o s[n + 1] \in Strings
        BY <3>1, <4>2, ConcatType
      <4> QED
        BY <3>3, <4>3
    <3> QED
      BY <3>2, <3>3
  <2> HIDE DEF x
  <2>4. g \in [1..n + 1 -> Strings]
    BY <2>1, <2>3
  <2>5. ASSUME NEW i \in 1..n + 1 PROVE g[i] = IF i = 1 THEN s[1] ELSE g[i - 1] \o sep \o s[i]
    <3>1. CASE i = n + 1
      <4>1. CASE n = 0
        BY <3>1, <4>1 DEF x
      <4>2. CASE n # 0
        <5>1. n \in 1..n + 1 /\ n # n + 1 /\ i # 1 /\ i - 1 = n
          BY <2>1, <3>1, <4>2
        <5>2. g[i - 1] = f[n] /\ g[i] = x
          BY <3>1, <5>1
        <5>3. x = f[n] \o sep \o s[i]
          BY <3>1, <4>2 DEF x
        <5> HIDE DEF g
        <5> QED
          BY <5>1, <5>2, <5>3
      <4> QED
        BY <4>1, <4>2
    <3>2. CASE i # n + 1
      <4>1. i \in 1..n /\ g[i] = f[i]
        BY <2>1, <3>2
      <4>2. i # 1 => g[i - 1] = f[i - 1]
        BY <2>1, <3>2
      <4> HIDE DEF g
      <4> QED
        BY <2>2, <4>1, <4>2
    <3> QED
      BY <3>1, <3>2
  <2> HIDE DEF g
  <2> QED
    BY <2>4, <2>5
<1> HIDE DEF T
<1>3. T \in SUBSET Nat
  BY DEF T
<1>4. T = Nat
  BY <1>1, <1>2, <1>3, SetInduction
<1>5. Len(s) \in T
  BY <1>4
<1> QED
  BY <1>5 DEF T, Joins

\* The recursion of Join has one solution.
LEMMA JoinIsLast ==
    ASSUME NEW s \in Seq(Strings), s # <<>>, NEW sep \in Strings, NEW f, Joins(f, s, sep)
    PROVE  Join(s, sep) = f[Len(s)]
<1> DEFINE F(g) == [i \in 1..Len(s) |-> IF i = 1 THEN s[1] ELSE g[i - 1] \o sep \o s[i]]
           joined == CHOOSE g : g = F(g)
<1>1. f = F(f)
  BY DEF Joins
<1>2. joined = F(joined)
  <2> HIDE DEF F
  <2> QED
    BY <1>1
<1>3. Join(s, sep) = joined[Len(s)]
  BY DEF Join
<1> HIDE DEF joined
<1>4. \A i \in 1..Len(s) : joined[i] = IF i = 1 THEN s[1] ELSE joined[i - 1] \o sep \o s[i]
  BY <1>2
<1> DEFINE T == {n \in Nat : n \in 1..Len(s) => joined[n] = f[n]}
<1>5. 0 \in T
  OBVIOUS
<1>6. ASSUME NEW n \in T PROVE n + 1 \in T
  <2> SUFFICES ASSUME n + 1 \in 1..Len(s) PROVE joined[n + 1] = f[n + 1]
    OBVIOUS
  <2>1. n \in Nat /\ (n + 1) - 1 = n
    OBVIOUS
  <2>2. f[n + 1] = IF n + 1 = 1 THEN s[1] ELSE f[(n + 1) - 1] \o sep \o s[n + 1]
    BY DEF Joins
  <2>3. CASE n = 0
    BY <1>4, <2>2, <2>3
  <2>4. CASE n # 0
    <3>1. n \in 1..Len(s) /\ n + 1 # 1
      BY <2>1, <2>4
    <3>2. joined[n] = f[n]
      BY <2>1, <3>1
    <3> QED
      BY <1>4, <2>1, <2>2, <3>1, <3>2
  <2> QED
    BY <2>3, <2>4
<1> HIDE DEF T
<1>7. T = Nat
  <2>1. T \in SUBSET Nat
    BY DEF T
  <2> QED
    BY <1>5, <1>6, <2>1, SetInduction
<1>8. Len(s) \in T /\ Len(s) \in 1..Len(s)
  BY <1>7
<1> QED
  BY <1>3, <1>8 DEF T

LEMMA JoinType ==
    ASSUME NEW s \in Seq(Strings), NEW sep \in Strings
    PROVE  Join(s, sep) \in Strings /\ (s = <<>> => Join(s, sep) = <<>>)
<1>1. CASE s = <<>>
  BY <1>1 DEF Join, Strings
<1>2. CASE s # <<>>
  <2>1. PICK f : Joins(f, s, sep)
    BY JoinsExist
  <2>2. Len(s) \in 1..Len(s)
    BY <1>2
  <2>3. f[Len(s)] \in Strings
    BY <2>1, <2>2 DEF Joins
  <2> QED
    BY <1>2, <2>1, <2>3, JoinIsLast
<1> QED
  BY <1>1, <1>2

LEMMA JoinAppend ==
    ASSUME NEW s \in Seq(Strings), NEW x \in Strings, NEW sep \in Strings
    PROVE  Join(Append(s, x), sep) = IF s = <<>> THEN x ELSE Join(s, sep) \o sep \o x
<1> DEFINE t == Append(s, x)
           n == Len(s)
<1>1. /\ t \in Seq(Strings) /\ t # <<>> /\ Len(t) = n + 1 /\ n \in Nat
      /\ t[n + 1] = x /\ \A i \in 1..n : t[i] = s[i]
  OBVIOUS
<1> HIDE DEF t, n
<1>2. PICK f : Joins(f, t, sep)
  BY <1>1, JoinsExist
<1>3. /\ f \in [1..n + 1 -> Strings]
      /\ \A i \in 1..n + 1 : f[i] = IF i = 1 THEN t[1] ELSE f[i - 1] \o sep \o t[i]
  BY <1>1, <1>2 DEF Joins
<1>4. Join(t, sep) = f[n + 1]
  BY <1>1, <1>2, JoinIsLast
<1>5. CASE s = <<>>
  <2>1. n = 0
    BY <1>5 DEF n
  <2>2. f[1] = t[1] /\ t[1] = x
    BY <1>1, <1>3, <2>1
  <2> QED
    BY <1>4, <1>5, <2>1, <2>2 DEF t
<1>6. CASE s # <<>>
  <2>1. n >= 1
    BY <1>6 DEF n
  <2> DEFINE g == [i \in 1..n |-> f[i]]
  <2>2. g \in [1..n -> Strings]
    BY <1>1, <1>3
  <2>3. ASSUME NEW i \in 1..n PROVE g[i] = IF i = 1 THEN s[1] ELSE g[i - 1] \o sep \o s[i]
    <3>1. i \in 1..n + 1 /\ t[i] = s[i] /\ g[i] = f[i] /\ 1 \in 1..n
      BY <1>1
    <3>2. t[1] = s[1]
      BY <1>1, <3>1
    <3>3. i # 1 => g[i - 1] = f[i - 1]
      BY <1>1
    <3>4. f[i] = IF i = 1 THEN t[1] ELSE f[i - 1] \o sep \o t[i]
      BY <1>3, <3>1
    <3> HIDE DEF g
    <3> QED
      BY <3>1, <3>2, <3>3, <3>4
  <2> HIDE DEF g
  <2>4. Joins(g, s, sep)
    BY <2>2, <2>3 DEF Joins, n
  <2>5. Join(s, sep) = g[n]
    BY <1>6, <2>4, JoinIsLast DEF n
  <2>6. g[n] = f[n]
    BY <1>1, <2>1 DEF g
  <2>7. f[n + 1] = f[(n + 1) - 1] \o sep \o t[n + 1]
    <3>1. n + 1 \in 1..n + 1 /\ n + 1 # 1
      BY <1>1, <2>1
    <3> QED
      BY <1>3, <3>1
  <2>8. (n + 1) - 1 = n
    BY <1>1
  <2> QED
    BY <1>1, <1>4, <1>6, <2>5, <2>6, <2>7, <2>8 DEF t
<1> QED
  BY <1>5, <1>6

\* One separator between two strings, and two.
LEMMA JoinGlue ==
    ASSUME NEW s \in Seq(Strings), s # <<>>, NEW x \in Strings, NEW c \in Nat
    PROVE  /\ Join(Append(s, x), <<c>>) = Glued(Join(s, <<c>>), c, x)
           /\ Join(s, <<c>>) \in Strings
<1>1. <<c>> \in Strings
  BY DEF Strings
<1>2. Join(Append(s, x), <<c>>) = Join(s, <<c>>) \o <<c>> \o x
  BY <1>1, JoinAppend
<1> QED
  BY <1>1, <1>2, JoinType DEF Glued

LEMMA JoinGlueTwice ==
    ASSUME NEW s \in Seq(Strings), s # <<>>, NEW x \in Strings, NEW c \in Nat
    PROVE  /\ Join(Append(s, x), <<c, c>>) = Glued(Glued(Join(s, <<c, c>>), c, <<>>), c, x)
           /\ Join(s, <<c, c>>) \in Strings
<1>1. <<c, c>> \in Strings /\ <<c>> \in Seq(Nat) /\ <<c>> \o <<c>> = <<c, c>>
  <2>1. <<c, c>> \in Seq(Nat) /\ Len(<<c, c>>) = 2 /\ <<c, c>>[1] = c /\ <<c, c>>[2] = c
    OBVIOUS
  <2>2. <<c>> \in Seq(Nat) /\ Len(<<c>>) = 1 /\ <<c>>[1] = c
    OBVIOUS
  <2>3. PICK C \in Seq(Nat) : C = <<c>>
    BY <2>2
  <2>4. PICK D \in Seq(Nat) : D = C \o C
    BY ConcatProperties
  <2>5. Len(D) = 2 /\ D[1] = c /\ D[2] = c
    <3>1. /\ Len(D) = Len(C) + Len(C)
          /\ \A i \in 1..Len(C) + Len(C) : D[i] = IF i <= Len(C) THEN C[i] ELSE C[i - Len(C)]
      BY <2>4, ConcatProperties
    <3>2. Len(C) = 1 /\ C[1] = c
      BY <2>2, <2>3
    <3> QED
      BY <3>1, <3>2
  <2>6. D = <<c, c>>
    BY <2>1, <2>5
  <2> QED
    BY <2>1, <2>2, <2>3, <2>4, <2>6 DEF Strings
<1> DEFINE j == Join(s, <<c, c>>)
<1>2. j \in Strings
  BY <1>1, JoinType
<1>3. Join(Append(s, x), <<c, c>>) = j \o <<c, c>> \o x
  BY <1>1, JoinAppend
<1> HIDE DEF j
<1>4. PICK C \in Seq(Nat) : C = <<c>>
  BY <1>1
<1>5. j \in Seq(Nat)
  BY <1>2 DEF Strings
<1>6. Associate(j, C, C)
  BY <1>5, ConcatStrings
<1>7. C \o C = <<c, c>>
  BY <1>1, <1>4
<1>8. (j \o C) \o C = j \o <<c, c>>
  BY <1>6, <1>7, Zenon DEF Associate
<1>9. (j \o C) \o <<>> = j \o C
  <2>1. PICK d \in Seq(Nat) : d = j \o C
    BY <1>5, ConcatProperties
  <2>2. d \o <<>> = d
    BY ConcatEmptySeq
  <2> QED
    BY <2>1, <2>2
<1>10. Glued(Glued(j, c, <<>>), c, x) = (j \o C) \o C \o x
  BY <1>4, <1>9, Zenon DEF Glued
<1> QED
  BY <1>2, <1>3, <1>8, <1>10, Zenon DEF j

-----------------------------------------------------------------------------
\* What was joined can be read back, if no string holds the separator.

\* n strings without c.
Fields(n, c) == {f \in Seq(Strings) : Len(f) = n /\ \A i \in 1..n : Free(f[i], c)}

\* The last one of several strings.
LastOf(f, n, c, g, x) ==
    /\ g \in Fields(n, c) /\ x \in Strings /\ Free(x, c) /\ f = Append(g, x)
    /\ Join(g, <<c>>) \in Strings
    /\ Join(f, <<c>>) = Glued(Join(g, <<c>>), c, x)

LEMMA FieldsLast ==
    ASSUME NEW n \in Nat, NEW c \in Nat, NEW f \in Fields(n + 1, c)
    PROVE  \E g \in Fields(n, c), x \in Strings : Free(x, c) /\ f = Append(g, x)
<1> DEFINE g == [i \in 1..n |-> f[i]]
           x == f[n + 1]
<1>1. f \in Seq(Strings) /\ Len(f) = n + 1 /\ \A i \in 1..n + 1 : Free(f[i], c)
  BY DEF Fields
<1>2. x \in Strings /\ Free(x, c)
  BY <1>1
<1>3. g \in [1..n -> Strings]
  BY <1>1
<1>4. g \in Seq(Strings) /\ Len(g) = n
  BY <1>3
<1>5. \A i \in 1..n : g[i] = f[i] /\ Free(g[i], c)
  BY <1>1
<1>6. g \in Fields(n, c)
  BY <1>4, <1>5 DEF Fields
<1>7. f = Append(g, x)
  <2> HIDE DEF g, x
  <2>1. /\ Append(g, x) \in Seq(Strings) /\ Len(Append(g, x)) = n + 1
        /\ Append(g, x)[n + 1] = x /\ \A i \in 1..n : Append(g, x)[i] = g[i]
    BY <1>2, <1>4
  <2>2. \A i \in 1..n + 1 : f[i] = Append(g, x)[i]
    BY <1>5, <2>1 DEF x
  <2> QED
    BY <1>1, <2>1, <2>2, SeqEqual
<1> QED
  BY <1>2, <1>6, <1>7

LEMMA JoinLast ==
    ASSUME NEW n \in Nat \ {0}, NEW c \in Nat, NEW f \in Fields(n + 1, c)
    PROVE  \E g, x : LastOf(f, n, c, g, x)
<1>1. PICK g \in Fields(n, c), x \in Strings : Free(x, c) /\ f = Append(g, x)
  BY FieldsLast
<1>2. g \in Seq(Strings) /\ g # <<>>
  BY DEF Fields
<1>3. Join(f, <<c>>) = Glued(Join(g, <<c>>), c, x) /\ Join(g, <<c>>) \in Strings
  BY <1>1, <1>2, JoinGlue
<1> QED
  BY <1>1, <1>3 DEF LastOf

LEMMA JoinOne ==
    ASSUME NEW c \in Nat, NEW f \in Fields(1, c)
    PROVE  \E x \in Strings : Free(x, c) /\ f = Append(<<>>, x) /\ Join(f, <<c>>) = x
<1>1. PICK g \in Fields(0, c), x \in Strings : Free(x, c) /\ f = Append(g, x)
  <2>1. f \in Fields(0 + 1, c)
    OBVIOUS
  <2> QED
    BY <2>1, FieldsLast
<1>2. g = <<>> /\ <<>> \in Seq(Strings) /\ <<c>> \in Strings
  BY DEF Fields, Strings
<1>3. Join(Append(<<>>, x), <<c>>) = x
  BY <1>2, JoinAppend
<1> QED
  BY <1>1, <1>2, <1>3

LEMMA FieldsJoin ==
    ASSUME NEW n \in Nat, NEW c \in Nat, NEW f \in Fields(n, c)
    PROVE  Join(f, <<c>>) \in Strings /\ f \in Seq(Strings)
<1>1. f \in Seq(Strings) /\ <<c>> \in Strings
  BY DEF Fields, Strings
<1> QED
  BY <1>1, JoinType

\* As many strings are read back from behind.
ReadsBack(n, c) ==
    \A X, Y \in Strings : \A f, g \in Fields(n, c) :
        Glued(X, c, Join(f, <<c>>)) = Glued(Y, c, Join(g, <<c>>)) => X = Y /\ f = g

LEMMA ReadBack ==
    ASSUME NEW n \in Nat \ {0}, NEW c \in Nat
    PROVE  ReadsBack(n, c)
<1> DEFINE T == {m \in Nat : ReadsBack(m + 1, c)}
<1>1. 0 \in T
  <2> SUFFICES ASSUME NEW X \in Strings, NEW Y \in Strings,
                      NEW f \in Fields(1, c), NEW g \in Fields(1, c),
                      Glued(X, c, Join(f, <<c>>)) = Glued(Y, c, Join(g, <<c>>))
               PROVE  X = Y /\ f = g
    BY DEF ReadsBack
  <2>1. PICK x \in Strings : Free(x, c) /\ f = Append(<<>>, x) /\ Join(f, <<c>>) = x
    BY JoinOne
  <2>2. PICK y \in Strings : Free(y, c) /\ g = Append(<<>>, y) /\ Join(g, <<c>>) = y
    BY JoinOne
  <2>3. X = Y /\ x = y
    BY <2>1, <2>2, LastSeparator
  <2> QED
    BY <2>1, <2>2, <2>3
<1>2. ASSUME NEW m \in T PROVE m + 1 \in T
  <2>1. m \in Nat /\ m + 1 \in Nat \ {0} /\ ReadsBack(m + 1, c)
    OBVIOUS
  <2> SUFFICES ASSUME NEW X \in Strings, NEW Y \in Strings,
                      NEW f \in Fields((m + 1) + 1, c), NEW g \in Fields((m + 1) + 1, c),
                      Glued(X, c, Join(f, <<c>>)) = Glued(Y, c, Join(g, <<c>>))
               PROVE  X = Y /\ f = g
    BY <2>1 DEF ReadsBack
  <2>2. PICK r, x : LastOf(f, m + 1, c, r, x)
    BY <2>1, JoinLast
  <2>3. PICK s, y : LastOf(g, m + 1, c, s, y)
    BY <2>1, JoinLast
  <2>4. Glued(X, c, Join(f, <<c>>)) = Glued(Glued(X, c, Join(r, <<c>>)), c, x)
    BY <2>2, GlueAssociative DEF LastOf
  <2>5. Glued(Y, c, Join(g, <<c>>)) = Glued(Glued(Y, c, Join(s, <<c>>)), c, y)
    BY <2>3, GlueAssociative DEF LastOf
  <2>6. Glued(X, c, Join(r, <<c>>)) \in Strings /\ Glued(Y, c, Join(s, <<c>>)) \in Strings
    BY <2>2, <2>3, GlueFacts DEF LastOf, GlueOf
  <2>7. Glued(X, c, Join(r, <<c>>)) = Glued(Y, c, Join(s, <<c>>)) /\ x = y
    <3>1. /\ x \in Strings /\ y \in Strings /\ Free(x, c) /\ Free(y, c)
          /\ Glued(Glued(X, c, Join(r, <<c>>)), c, x) = Glued(Glued(Y, c, Join(s, <<c>>)), c, y)
      BY <2>2, <2>3, <2>4, <2>5 DEF LastOf
    <3> QED
      BY <2>6, <3>1, LastSeparator
  <2>8. X = Y /\ r = s
    BY <2>1, <2>2, <2>3, <2>7 DEF ReadsBack, LastOf
  <2> QED
    BY <2>2, <2>3, <2>7, <2>8 DEF LastOf
<1> HIDE DEF T
<1>3. T = Nat
  <2>1. T \in SUBSET Nat
    BY DEF T
  <2> QED
    BY <1>1, <1>2, <2>1, SetInduction
<1>4. n - 1 \in T /\ (n - 1) + 1 = n
  BY <1>3
<1> QED
  BY <1>4 DEF T

LEMMA SameJoin ==
    ASSUME NEW n \in Nat \ {0}, NEW c \in Nat, NEW f \in Fields(n, c), NEW g \in Fields(n, c),
           Join(f, <<c>>) = Join(g, <<c>>)
    PROVE  f = g
<1>1. <<>> \in Strings /\ ReadsBack(n, c)
  BY ReadBack DEF Strings
<1>2. Glued(<<>>, c, Join(f, <<c>>)) = Glued(<<>>, c, Join(g, <<c>>))
  OBVIOUS
<1> QED
  BY <1>1, <1>2 DEF ReadsBack

\* The number of strings is read back as well.
CountsBack(n, c) ==
    \A m \in Nat \ {0} : \A f \in Fields(n, c), g \in Fields(m, c) :
        Join(f, <<c>>) = Join(g, <<c>>) => n = m

LEMMA CountBack ==
    ASSUME NEW n \in Nat \ {0}, NEW c \in Nat
    PROVE  CountsBack(n, c)
<1> DEFINE T == {m \in Nat : CountsBack(m + 1, c)}
\* One string is not the join of several.
<1>1. ASSUME NEW f \in Fields(1, c), NEW k \in Nat \ {0}, NEW g \in Fields(k + 1, c),
             Join(f, <<c>>) = Join(g, <<c>>)
      PROVE  FALSE
  <2>1. PICK x \in Strings : Free(x, c) /\ Join(f, <<c>>) = x
    BY JoinOne
  <2>2. PICK s, y : LastOf(g, k, c, s, y)
    BY JoinLast
  <2>3. x = Glued(Join(s, <<c>>), c, y)
    BY <1>1, <2>1, <2>2 DEF LastOf
  <2> QED
    BY <2>1, <2>2, <2>3, GlueHolds DEF LastOf
<1>2. 0 \in T
  <2> SUFFICES ASSUME NEW m \in Nat \ {0}, NEW f \in Fields(1, c), NEW g \in Fields(m, c),
                      Join(f, <<c>>) = Join(g, <<c>>), m # 1
               PROVE  FALSE
    BY DEF CountsBack
  <2>1. m - 1 \in Nat \ {0} /\ (m - 1) + 1 = m
    OBVIOUS
  <2>2. PICK k \in Nat \ {0} : k + 1 = m
    BY <2>1
  <2>3. g \in Fields(k + 1, c)
    BY <2>2
  <2> QED
    BY <1>1, <2>3
<1>3. ASSUME NEW n0 \in T PROVE n0 + 1 \in T
  <2> DEFINE k == n0 + 1
  <2>1. k \in Nat \ {0} /\ CountsBack(k, c)
    OBVIOUS
  <2> HIDE DEF k
  <2>2. ASSUME NEW m \in Nat \ {0}, NEW f \in Fields(k + 1, c), NEW g \in Fields(m, c),
               Join(f, <<c>>) = Join(g, <<c>>)
        PROVE  k + 1 = m
    <3>1. CASE m = 1
      BY <1>1, <2>1, <2>2, <3>1
    <3>2. CASE m # 1
      <4>1. PICK l \in Nat \ {0} : l + 1 = m
        <5>1. m - 1 \in Nat \ {0} /\ (m - 1) + 1 = m
          BY <3>2
        <5> QED
          BY <5>1
      <4>2. PICK r, x : LastOf(f, k, c, r, x)
        BY <2>1, JoinLast
      <4>3. PICK s, y : LastOf(g, l, c, s, y)
        BY <4>1, JoinLast
      <4>4. /\ Glued(Join(r, <<c>>), c, x) = Glued(Join(s, <<c>>), c, y)
            /\ Join(r, <<c>>) \in Strings /\ Join(s, <<c>>) \in Strings
            /\ x \in Strings /\ y \in Strings /\ Free(x, c) /\ Free(y, c)
        BY <2>2, <4>2, <4>3 DEF LastOf
      <4>5. Join(r, <<c>>) = Join(s, <<c>>)
        BY <4>4, LastSeparator
      <4>6. k = l
        BY <2>1, <4>2, <4>3, <4>5 DEF CountsBack, LastOf
      <4> QED
        BY <4>1, <4>6
    <3> QED
      BY <3>1, <3>2
  <2>3. CountsBack(k + 1, c)
    BY <2>2 DEF CountsBack
  <2> QED
    BY <2>3 DEF k
<1> HIDE DEF T
<1>4. T = Nat
  <2>1. T \in SUBSET Nat
    BY DEF T
  <2> QED
    BY <1>2, <1>3, <2>1, SetInduction
<1>5. n - 1 \in T /\ (n - 1) + 1 = n
  BY <1>4
<1> QED
  BY <1>5 DEF T

\* As many strings do not continue behind a separator.
NeverContinues(n, c) ==
    \A h, k \in Fields(n, c) : \A X \in Strings :
        Join(h, <<c>>) # Glued(Join(k, <<c>>), c, X)

LEMMA NoContinuation ==
    ASSUME NEW n \in Nat \ {0}, NEW c \in Nat
    PROVE  NeverContinues(n, c)
<1> DEFINE T == {m \in Nat : NeverContinues(m + 1, c)}
<1>1. 0 \in T
  <2> SUFFICES ASSUME NEW h \in Fields(1, c), NEW k \in Fields(1, c), NEW X \in Strings,
                      Join(h, <<c>>) = Glued(Join(k, <<c>>), c, X)
               PROVE  FALSE
    BY DEF NeverContinues
  <2>1. PICK x \in Strings : Free(x, c) /\ Join(h, <<c>>) = x
    BY JoinOne
  <2>2. Join(k, <<c>>) \in Strings
    BY FieldsJoin
  <2> QED
    BY <2>1, <2>2, GlueHolds
<1>2. ASSUME NEW m \in T PROVE m + 1 \in T
  <2> DEFINE n0 == m + 1
  <2>1. n0 \in Nat \ {0} /\ NeverContinues(n0, c)
    OBVIOUS
  <2> HIDE DEF n0
  <2>2. ASSUME NEW h \in Fields(n0 + 1, c), NEW k \in Fields(n0 + 1, c), NEW X \in Strings,
               Join(h, <<c>>) = Glued(Join(k, <<c>>), c, X)
        PROVE  FALSE
    <3>1. PICK r, x : LastOf(h, n0, c, r, x)
      BY <2>1, JoinLast
    <3>2. PICK s, y : LastOf(k, n0, c, s, y)
      BY <2>1, JoinLast
    <3> DEFINE R == Join(r, <<c>>)
               S == Join(s, <<c>>)
    <3>3. /\ R \in Strings /\ S \in Strings /\ x \in Strings /\ y \in Strings
          /\ Free(x, c) /\ r \in Fields(n0, c) /\ s \in Fields(n0, c)
          /\ Glued(R, c, x) = Glued(Glued(S, c, y), c, X)
      BY <2>2, <3>1, <3>2 DEF LastOf
    <3>4. \A Z \in Strings : R # Glued(S, c, Z)
      BY <2>1, <3>3 DEF NeverContinues
    <3> HIDE DEF R, S
    <3>5. Glued(S, c, y) \in Strings
      BY <3>3, GlueFacts DEF GlueOf
    <3>6. CASE Free(X, c)
      <4>1. R = Glued(S, c, y)
        BY <3>3, <3>5, <3>6, LastSeparator
      <4> QED
        BY <3>3, <3>4, <4>1
    <3>7. CASE ~Free(X, c)
      <4>1. PICK a \in Strings, z \in Strings : X = Glued(a, c, z) /\ Free(z, c)
        BY <3>7, LastPlace
      <4>2. Glued(Glued(S, c, y), c, X) = Glued(Glued(Glued(S, c, y), c, a), c, z)
        BY <3>5, <4>1, GlueAssociative
      <4>3. Glued(Glued(S, c, y), c, a) = Glued(S, c, Glued(y, c, a))
        BY <3>3, GlueAssociative
      <4>4. Glued(y, c, a) \in Strings /\ Glued(Glued(S, c, y), c, a) \in Strings
        BY <3>3, <3>5, GlueFacts DEF GlueOf
      <4>5. R = Glued(Glued(S, c, y), c, a)
        <5>1. Glued(R, c, x) = Glued(Glued(Glued(S, c, y), c, a), c, z)
          BY <3>3, <4>2
        <5> QED
          BY <3>3, <4>1, <4>4, <5>1, LastSeparator
      <4> QED
        BY <3>4, <4>3, <4>4, <4>5
    <3> QED
      BY <3>6, <3>7
  <2>3. NeverContinues(n0 + 1, c)
    BY <2>2 DEF NeverContinues
  <2> QED
    BY <2>3 DEF n0
<1> HIDE DEF T
<1>3. T = Nat
  <2>1. T \in SUBSET Nat
    BY DEF T
  <2> QED
    BY <1>1, <1>2, <2>1, SetInduction
<1>4. n - 1 \in T /\ (n - 1) + 1 = n
  BY <1>3
<1> QED
  BY <1>4 DEF T

-----------------------------------------------------------------------------
\* The list of alerts is read back from behind the fields of the webhook.

\* The strings of n fields.
Blocks(n, c) == {Join(f, <<c>>) : f \in Fields(n, c)}

LEMMA BlockType ==
    ASSUME NEW n \in Nat, NEW c \in Nat, NEW x \in Blocks(n, c)
    PROVE  x \in Strings
BY FieldsJoin DEF Blocks

LEMMA BlocksType ==
    ASSUME NEW n \in Nat, NEW c \in Nat, NEW A \in Seq(Blocks(n, c))
    PROVE  A \in Seq(Strings) /\ Join(A, <<c, c>>) \in Strings
<1>1. Blocks(n, c) \subseteq Strings
  BY BlockType
<1>2. A \in Seq(Strings)
  BY <1>1
<1>3. <<c, c>> \in Strings
  BY DEF Strings
<1> QED
  BY <1>2, <1>3, JoinType

LEMMA ReadBlock ==
    ASSUME NEW n \in Nat \ {0}, NEW c \in Nat, NEW X \in Strings, NEW Y \in Strings,
           NEW x \in Blocks(n, c), NEW y \in Blocks(n, c), Glued(X, c, x) = Glued(Y, c, y)
    PROVE  X = Y /\ x = y
<1>1. PICK f \in Fields(n, c) : x = Join(f, <<c>>)
  BY DEF Blocks
<1>2. PICK g \in Fields(n, c) : y = Join(g, <<c>>)
  BY DEF Blocks
<1>3. X = Y /\ f = g
  BY <1>1, <1>2, ReadBack DEF ReadsBack
<1> QED
  BY <1>1, <1>2, <1>3

\* W is Z, or Z and more behind a separator.
Extends(W, c, Z) == W = Z \/ \E X \in Strings : W = Glued(Z, c, X)

LEMMA ExtendMore ==
    ASSUME NEW W \in Strings, NEW c \in Nat, NEW Z \in Strings, Extends(W, c, Z), NEW y \in Strings
    PROVE  \E X \in Strings : Glued(W, c, y) = Glued(Z, c, X)
<1>1. CASE W = Z
  BY <1>1
<1>2. ASSUME NEW X \in Strings, W = Glued(Z, c, X) PROVE \E X1 \in Strings : Glued(W, c, y) = Glued(Z, c, X1)
  <2>1. Glued(W, c, y) = Glued(Z, c, Glued(X, c, y))
    BY <1>2, GlueAssociative
  <2>2. Glued(X, c, y) \in Strings
    BY GlueFacts DEF GlueOf
  <2> QED
    BY <2>1, <2>2
<1> QED
  BY <1>1, <1>2 DEF Extends

\* The last alert x and what is in front of it: B are the other alerts.
LastBlock(Z, n, c, A, B, x, W) ==
    /\ B \in Seq(Blocks(n, c)) /\ x \in Blocks(n, c) /\ A = Append(B, x)
    /\ W \in Strings /\ Extends(W, c, Z)
    /\ Glued(Z, c, Join(A, <<c, c>>)) = Glued(W, c, x)
    /\ B = <<>> => W = Z
    /\ B # <<>> => W = Glued(Glued(Z, c, Join(B, <<c, c>>)), c, <<>>)

LEMMA BlocksLast ==
    ASSUME NEW n \in Nat, NEW c \in Nat, NEW Z \in Strings,
           NEW A \in Seq(Blocks(n, c)), A # <<>>
    PROVE  \E B, x, W : LastBlock(Z, n, c, A, B, x, W)
<1>1. PICK B \in Seq(Blocks(n, c)), x \in Blocks(n, c) : A = Append(B, x)
  BY SequenceEmptyOrAppend
<1>2. B \in Seq(Strings) /\ x \in Strings /\ Join(B, <<c, c>>) \in Strings /\ <<c, c>> \in Strings
  BY BlockType, BlocksType DEF Strings
<1>3. <<>> \in Strings
  BY DEF Strings
<1>4. CASE B = <<>>
  <2>1. Join(A, <<c, c>>) = x
    BY <1>1, <1>2, <1>4, JoinAppend
  <2>2. LastBlock(Z, n, c, A, B, x, Z)
    BY <1>1, <1>4, <2>1 DEF LastBlock, Extends
  <2> QED
    BY <2>2
<1>5. CASE B # <<>>
  <2> DEFINE j == Join(B, <<c, c>>)
             W == Glued(Glued(Z, c, j), c, <<>>)
  <2>1. j \in Strings
    BY <1>2
  <2>2. Join(A, <<c, c>>) = Glued(Glued(j, c, <<>>), c, x)
    BY <1>1, <1>2, <1>5, JoinGlueTwice
  <2> HIDE DEF j
  <2>3. Glued(j, c, <<>>) \in Strings
    BY <1>3, <2>1, GlueFacts DEF GlueOf
  <2>4. Glued(Z, c, Glued(Glued(j, c, <<>>), c, x)) = Glued(Glued(Z, c, Glued(j, c, <<>>)), c, x)
    BY <1>2, <2>3, GlueAssociative
  <2>5. Glued(Z, c, Glued(j, c, <<>>)) = W
    BY <1>3, <2>1, GlueAssociative
  <2>6. W \in Strings /\ Extends(W, c, Z)
    <3>1. Glued(Z, c, Glued(j, c, <<>>)) \in Strings
      BY <2>3, GlueFacts DEF GlueOf
    <3> QED
      BY <2>3, <2>5, <3>1 DEF Extends
  <2>7. LastBlock(Z, n, c, A, B, x, W)
    <3>1. Glued(Z, c, Join(A, <<c, c>>)) = Glued(W, c, x)
      BY <2>2, <2>4, <2>5
    <3>2. W = Glued(Glued(Z, c, Join(B, <<c, c>>)), c, <<>>)
      BY DEF j
    <3> HIDE DEF W
    <3> QED
      BY <1>1, <1>5, <2>6, <3>1, <3>2 DEF LastBlock
  <2> QED
    BY <2>7
<1> QED
  BY <1>4, <1>5

\* No alerts are not mistaken for some, since an alert has more than one field.
LEMMA NoneIsNotSome ==
    ASSUME NEW h \in Nat \ {0}, NEW n \in Nat \ {0, 1}, NEW c \in Nat,
           NEW f \in Fields(h, c), NEW g \in Fields(h, c),
           NEW A \in Seq(Blocks(n, c)), A # <<>>
    PROVE  Glued(Join(f, <<c>>), c, <<>>) # Glued(Join(g, <<c>>), c, Join(A, <<c, c>>))
<1> SUFFICES ASSUME Glued(Join(f, <<c>>), c, <<>>) = Glued(Join(g, <<c>>), c, Join(A, <<c, c>>))
             PROVE  FALSE
  OBVIOUS
<1> DEFINE Z == Join(g, <<c>>)
           Y == Join(f, <<c>>)
<1>1. Z \in Strings /\ Y \in Strings /\ <<>> \in Strings /\ Free(<<>>, c)
  BY FieldsJoin DEF Strings, Free
<1>2. PICK B, x, W : LastBlock(Z, n, c, A, B, x, W)
  BY <1>1, BlocksLast
<1>3. PICK l \in Nat \ {0} : l + 1 = n
  <2>1. n - 1 \in Nat \ {0} /\ (n - 1) + 1 = n
    OBVIOUS
  <2> QED
    BY <2>1
<1>4. PICK e \in Fields(l + 1, c) : x = Join(e, <<c>>)
  BY <1>2, <1>3 DEF LastBlock, Blocks
<1>5. PICK r, y : LastOf(e, l, c, r, y)
  BY JoinLast
<1>6. /\ x = Glued(Join(r, <<c>>), c, y) /\ Join(r, <<c>>) \in Strings /\ y \in Strings /\ Free(y, c)
      /\ W \in Strings /\ Extends(W, c, Z)
      /\ Glued(Y, c, <<>>) = Glued(W, c, x)
  BY <1>2, <1>4, <1>5 DEF LastBlock, LastOf
<1> DEFINE R == Join(r, <<c>>)
<1>7. NeverContinues(h, c)
  BY NoContinuation
<1>8. \A X \in Strings : Y # Glued(Z, c, X)
  BY <1>7 DEF NeverContinues
<1> HIDE DEF R, Y, Z
<1>9. Glued(W, c, x) = Glued(Glued(W, c, R), c, y)
  BY <1>6, GlueAssociative DEF R
<1>10. Glued(W, c, R) \in Strings
  BY <1>6, GlueFacts DEF GlueOf, R
<1>11. Y = Glued(W, c, R)
  <2>1. Glued(Y, c, <<>>) = Glued(Glued(W, c, R), c, y)
    BY <1>6, <1>9
  <2> QED
    BY <1>1, <1>6, <1>10, <2>1, LastSeparator
<1>12. PICK X \in Strings : Glued(W, c, R) = Glued(Z, c, X)
  BY <1>1, <1>6, ExtendMore DEF R
<1> QED
  BY <1>8, <1>11, <1>12

\* h fields and a list of alerts of n fields each are read back.
SameKey(f, A, g, B, c) ==
    Glued(Join(f, <<c>>), c, Join(A, <<c, c>>)) = Glued(Join(g, <<c>>), c, Join(B, <<c, c>>))

ListsBack(m, h, n, c) ==
    \A f, g \in Fields(h, c) : \A A, B \in Seq(Blocks(n, c)) :
        Len(A) = m /\ SameKey(f, A, g, B, c) => Join(f, <<c>>) = Join(g, <<c>>) /\ A = B

LEMMA ListBack ==
    ASSUME NEW h \in Nat \ {0}, NEW n \in Nat \ {0, 1}, NEW c \in Nat, NEW m \in Nat
    PROVE  ListsBack(m, h, n, c)
<1> DEFINE T == {k \in Nat : ListsBack(k, h, n, c)}
<1>1. <<c, c>> \in Strings /\ <<>> \in Strings /\ Free(<<>>, c)
  BY DEF Strings, Free
<1>2. Join(<<>>, <<c, c>>) = <<>>
  BY DEF Join
<1>3. 0 \in T
  <2> SUFFICES ASSUME NEW f \in Fields(h, c), NEW g \in Fields(h, c),
                      NEW A \in Seq(Blocks(n, c)), NEW B \in Seq(Blocks(n, c)), Len(A) = 0,
                      SameKey(f, A, g, B, c)
               PROVE  Join(f, <<c>>) = Join(g, <<c>>) /\ A = B
    BY DEF ListsBack
  <2>1. A = <<>>
    OBVIOUS
  <2>2. B = <<>>
    BY <1>2, <2>1, NoneIsNotSome DEF SameKey
  <2>3. Join(f, <<c>>) \in Strings /\ Join(g, <<c>>) \in Strings
    BY FieldsJoin
  <2>4. Glued(Join(f, <<c>>), c, <<>>) = Glued(Join(g, <<c>>), c, <<>>)
    BY <1>2, <2>1, <2>2 DEF SameKey
  <2> QED
    BY <1>1, <2>1, <2>2, <2>3, <2>4, LastSeparator
<1>4. ASSUME NEW k \in T PROVE k + 1 \in T
  <2>1. k \in Nat /\ ListsBack(k, h, n, c)
    OBVIOUS
  <2>2. SUFFICES ASSUME NEW f \in Fields(h, c), NEW g \in Fields(h, c),
                        NEW A \in Seq(Blocks(n, c)), NEW B \in Seq(Blocks(n, c)), Len(A) = k + 1,
                        SameKey(f, A, g, B, c)
                 PROVE  Join(f, <<c>>) = Join(g, <<c>>) /\ A = B
    BY <2>1 DEF ListsBack
  <2>3. Glued(Join(f, <<c>>), c, Join(A, <<c, c>>)) = Glued(Join(g, <<c>>), c, Join(B, <<c, c>>))
    BY <2>2 DEF SameKey
  <2>4. Join(f, <<c>>) = Join(g, <<c>>) /\ A = B
    <3> DEFINE Y == Join(f, <<c>>)
               Z == Join(g, <<c>>)
    <3>1. Y \in Strings /\ Z \in Strings
      BY FieldsJoin
    <3>2. A # <<>>
      BY <2>1, <2>2
    <3>3. B # <<>>
      <4> SUFFICES ASSUME B = <<>> PROVE FALSE
        OBVIOUS
      <4>1. Glued(Z, c, <<>>) = Glued(Y, c, Join(A, <<c, c>>))
        BY <1>2, <2>3
      <4> QED
        BY <3>2, <4>1, NoneIsNotSome
    <3>4. PICK A1, x, V : LastBlock(Y, n, c, A, A1, x, V)
      BY <3>1, <3>2, BlocksLast
    <3>5. PICK B1, y, W : LastBlock(Z, n, c, B, B1, y, W)
      BY <3>1, <3>3, BlocksLast
    <3>6. V = W /\ x = y
      <4>1. /\ V \in Strings /\ W \in Strings /\ x \in Blocks(n, c) /\ y \in Blocks(n, c)
            /\ Glued(V, c, x) = Glued(W, c, y)
        BY <2>3, <3>4, <3>5 DEF LastBlock
      <4> QED
        BY <4>1, ReadBlock
    <3>7. NeverContinues(h, c)
      BY NoContinuation
    <3>8. (\A X \in Strings : Y # Glued(Z, c, X)) /\ (\A X \in Strings : Z # Glued(Y, c, X))
      BY <3>7 DEF NeverContinues
    <3>9. A1 \in Seq(Blocks(n, c)) /\ B1 \in Seq(Blocks(n, c)) /\ A = Append(A1, x) /\ B = Append(B1, y)
      BY <3>4, <3>5 DEF LastBlock
    <3>10. Join(A1, <<c, c>>) \in Strings /\ Join(B1, <<c, c>>) \in Strings
      BY <3>9, BlocksType
    <3>11. Len(A1) = k
      BY <2>1, <2>2, <3>9
    <3>12. \A X \in Strings, U \in Strings : Glued(Glued(X, c, U), c, <<>>) = Glued(X, c, Glued(U, c, <<>>))
                                             /\ Glued(U, c, <<>>) \in Strings
      <4> TAKE X \in Strings, U \in Strings
      <4>1. Glued(Glued(X, c, U), c, <<>>) = Glued(X, c, Glued(U, c, <<>>))
        BY <1>1, GlueAssociative
      <4>2. GlueOf(Glued(U, c, <<>>), U, c, <<>>)
        BY <1>1, GlueFacts
      <4> QED
        BY <4>1, <4>2 DEF GlueOf
    <3>13. CASE A1 = <<>> /\ B1 = <<>>
      BY <3>4, <3>5, <3>6, <3>9, <3>13 DEF LastBlock
    <3>14. CASE A1 = <<>> /\ B1 # <<>>
      <4>1. V = Y /\ W = Glued(Glued(Z, c, Join(B1, <<c, c>>)), c, <<>>)
        BY <3>4, <3>5, <3>14 DEF LastBlock
      <4> HIDE DEF Y, Z
      <4> QED
        BY <3>1, <3>6, <3>8, <3>10, <3>12, <4>1
    <3>15. CASE A1 # <<>> /\ B1 = <<>>
      <4>1. W = Z /\ V = Glued(Glued(Y, c, Join(A1, <<c, c>>)), c, <<>>)
        BY <3>4, <3>5, <3>15 DEF LastBlock
      <4> HIDE DEF Y, Z
      <4> QED
        BY <3>1, <3>6, <3>8, <3>10, <3>12, <4>1
    <3>16. CASE A1 # <<>> /\ B1 # <<>>
      <4>1. /\ V = Glued(Glued(Y, c, Join(A1, <<c, c>>)), c, <<>>)
            /\ W = Glued(Glued(Z, c, Join(B1, <<c, c>>)), c, <<>>)
        BY <3>4, <3>5, <3>16 DEF LastBlock
      <4>2. /\ Glued(Y, c, Join(A1, <<c, c>>)) \in Strings
            /\ Glued(Z, c, Join(B1, <<c, c>>)) \in Strings
        BY <3>1, <3>10, GlueFacts DEF GlueOf
      <4>3. Glued(Y, c, Join(A1, <<c, c>>)) = Glued(Z, c, Join(B1, <<c, c>>))
        BY <1>1, <3>6, <4>1, <4>2, LastSeparator
      <4>4. Y = Z /\ A1 = B1
        <5>1. SameKey(f, A1, g, B1, c)
          BY <4>3 DEF SameKey
        <5> QED
          BY <2>1, <3>9, <3>11, <5>1 DEF ListsBack
      <4> QED
        BY <3>6, <3>9, <4>4
    <3> QED
      BY <3>13, <3>14, <3>15, <3>16
  <2> QED
    BY <2>4
<1> HIDE DEF T
<1>5. T = Nat
  <2>1. T \in SUBSET Nat
    BY DEF T
  <2> QED
    BY <1>3, <1>4, <2>1, SetInduction
<1> QED
  BY <1>5 DEF T

-----------------------------------------------------------------------------
\* sort.Strings.

LEMMA EntryFacts ==
    ASSUME NEW s \in Seq(Strings)
    PROVE  /\ IsFiniteSet(Entries(s)) /\ Cardinality(Entries(s)) = Len(s)
           /\ \A x \in Entries(s) : x[2] \in 1..Len(s) /\ x[1] = s[x[2]] /\ x[1] \in Strings
                                    /\ x = <<x[1], x[2]>>
           /\ \A i \in 1..Len(s) : <<s[i], i>> \in Entries(s)
<1> DEFINE n == Len(s)
           e == [i \in 1..n |-> <<s[i], i>>]
<1>1. n \in Nat
  OBVIOUS
<1>2. \A i \in 1..n : <<s[i], i>>[1] = s[i] /\ <<s[i], i>>[2] = i /\ s[i] \in Strings
  OBVIOUS
<1>3. e \in Bijection(1..n, Entries(s))
  <2>1. e \in [1..n -> Entries(s)]
    BY DEF Entries
  <2>2. \A i, j \in 1..n : e[i] = e[j] => i = j
    BY <1>2
  <2>3. \A x \in Entries(s) : \E i \in 1..n : e[i] = x
    BY DEF Entries
  <2> HIDE DEF e
  <2> QED
    BY <2>1, <2>2, <2>3, Fun_IsBij
<1>4. ExistsBijection(1..n, Entries(s))
  <2> HIDE DEF e
  <2> QED
    BY <1>3, Fun_ExistsBij
<1> HIDE DEF n
<1>5. IsFiniteSet(Entries(s)) /\ Cardinality(Entries(s)) = n
  BY <1>1, <1>4, FS_NatBijection, FS_CountingElements
<1>6. ASSUME NEW x \in Entries(s)
      PROVE  x[2] \in 1..n /\ x[1] = s[x[2]] /\ x[1] \in Strings /\ x = <<x[1], x[2]>>
  <2>1. PICK i \in 1..n : x = <<s[i], i>>
    BY DEF Entries, n
  <2> QED
    BY <1>2, <2>1
<1>7. \A i \in 1..n : <<s[i], i>> \in Entries(s)
  BY DEF Entries, n
<1> QED
  BY <1>5, <1>6, <1>7 DEF n

LEMMA EntryPairs ==
    ASSUME NEW E, NEW x \in E, NEW y \in E
    PROVE  <<x, y>> \in ByString(E) <=> Before(x[1], y[1]) \/ (x[1] = y[1] /\ x[2] < y[2])
<1>1. <<x, y>> \in E \X E /\ <<x, y>>[1] = x /\ <<x, y>>[2] = y
  OBVIOUS
<1>2. <<x, y>> \in ByName(E) <=> Before(x[1], y[1])
  BY ByNamePairs
<1> QED
  BY <1>1, <1>2 DEF ByString

LEMMA EntryOrder ==
    ASSUME NEW s \in Seq(Strings)
    PROVE  StrictOrder(ByString(Entries(s)), Entries(s))
<1> DEFINE E == Entries(s)
           R == ByString(E)
<1>1. \A x \in E : x[2] \in Nat /\ x[1] \in Strings /\ x = <<x[1], x[2]>>
  BY EntryFacts
<1>2. \A x, y \in E : <<x, y>> \in R <=> Before(x[1], y[1]) \/ (x[1] = y[1] /\ x[2] < y[2])
  BY EntryPairs
<1> HIDE DEF E, R
<1>3. ASSUME NEW x \in E PROVE <<x, x>> \notin R
  <2>1. ~Before(x[1], x[1]) /\ ~(x[2] < x[2])
    BY <1>1, BeforeIsIrreflexive
  <2> QED
    BY <1>2, <2>1
<1>4. ASSUME NEW x \in E, NEW y \in E, x # y PROVE <<x, y>> \in R \/ <<y, x>> \in R
  <2>1. CASE x[1] # y[1]
    <3>1. Before(x[1], y[1]) \/ Before(y[1], x[1])
      BY <1>1, <2>1, BeforeIsTotal
    <3> QED
      BY <1>2, <3>1
  <2>2. CASE x[1] = y[1]
    <3>1. x[2] # y[2]
      BY <1>1, <1>4, <2>2
    <3>2. x[2] \in Nat /\ y[2] \in Nat
      BY <1>1
    <3>3. x[2] < y[2] \/ y[2] < x[2]
      BY <3>1, <3>2
    <3> QED
      BY <1>2, <2>2, <3>3
  <2> QED
    BY <2>1, <2>2
<1>5. ASSUME NEW x \in E, NEW y \in E, NEW z \in E, <<x, y>> \in R, <<y, z>> \in R
      PROVE  <<x, z>> \in R
  <2>1. x[1] \in Strings /\ y[1] \in Strings /\ z[1] \in Strings
        /\ x[2] \in Nat /\ y[2] \in Nat /\ z[2] \in Nat
    BY <1>1
  <2>2. Before(x[1], y[1]) \/ (x[1] = y[1] /\ x[2] < y[2])
    BY <1>2, <1>5
  <2>3. Before(y[1], z[1]) \/ (y[1] = z[1] /\ y[2] < z[2])
    BY <1>2, <1>5
  <2>4. Before(x[1], y[1]) /\ Before(y[1], z[1]) => Before(x[1], z[1])
    BY <2>1, BeforeIsTransitive
  <2>5. x[2] < y[2] /\ y[2] < z[2] => x[2] < z[2]
    BY <2>1
  <2>6. Before(x[1], z[1]) \/ (x[1] = z[1] /\ x[2] < z[2])
    BY <2>2, <2>3, <2>4, <2>5
  <2> QED
    BY <1>2, <2>6
<1> QED
  BY <1>3, <1>4, <1>5 DEF StrictOrder, E, R

\* No string comes before an earlier one.
InOrder(t) == \A i, j \in 1..Len(t) : i < j => ~Before(t[j], t[i])

\* Where x stands in s.
Places(s, x) == {i \in 1..Len(s) : s[i] = x}

LEMMA PlacesFinite ==
    ASSUME NEW s \in Seq(Strings), NEW x
    PROVE  IsFiniteSet(Places(s, x)) /\ Cardinality(Places(s, x)) \in Nat
<1>1. Len(s) \in Nat /\ Places(s, x) \in SUBSET (1..Len(s))
  BY DEF Places
<1>2. IsFiniteSet(1..Len(s))
  BY <1>1, FS_Interval
<1>3. IsFiniteSet(Places(s, x))
  BY <1>1, <1>2, FS_Subset
<1> QED
  BY <1>3, FS_CardinalityType

LEMMA SortFacts ==
    ASSUME NEW s \in Seq(Strings)
    PROVE  /\ SortStrings(s) \in Seq(Strings) /\ Len(SortStrings(s)) = Len(s)
           /\ InOrder(SortStrings(s))
           /\ \A i \in 1..Len(s) : \E k \in 1..Len(s) : SortStrings(s)[i] = s[k]
           /\ \A k \in 1..Len(s) : \E i \in 1..Len(s) : SortStrings(s)[i] = s[k]
           /\ \A x : Cardinality(Places(SortStrings(s), x)) = Cardinality(Places(s, x))
<1> DEFINE n == Len(s)
           E == Entries(s)
           q == Sorted(E, ByString(E))
           t == SortStrings(s)
           pi == [i \in 1..n |-> q[i][2]]
<1>1. n \in Nat
  OBVIOUS
<1>2. /\ IsFiniteSet(E) /\ Cardinality(E) = n
      /\ \A x \in E : x[2] \in 1..n /\ x[1] = s[x[2]] /\ x[1] \in Strings
      /\ \A i \in 1..n : <<s[i], i>> \in E
  BY EntryFacts
<1>3. StrictOrder(ByString(E), E)
  BY EntryOrder
<1>4. t = [i \in 1..n |-> q[i][1]]
  BY DEF SortStrings
<1>5. \A x, y \in E : <<x, y>> \in ByString(E) <=> Before(x[1], y[1]) \/ (x[1] = y[1] /\ x[2] < y[2])
  BY EntryPairs
<1> HIDE DEF E, n, t
<1>6. /\ q \in [1..n -> E]
      /\ \A x \in E : \E i \in 1..n : q[i] = x
      /\ \A i, j \in 1..n : i < j => <<q[i], q[j]>> \in ByString(E)
  BY <1>2, <1>3, SortedFacts
<1> HIDE DEF q
<1>7. \A i \in 1..n : /\ q[i] \in E /\ pi[i] = q[i][2] /\ pi[i] \in 1..n
                      /\ t[i] = q[i][1] /\ t[i] = s[pi[i]] /\ t[i] \in Strings
  BY <1>2, <1>4, <1>6
<1>8. t \in Seq(Strings) /\ Len(t) = n
  <2>1. t \in [1..n -> Strings]
    BY <1>4, <1>7
  <2> QED
    BY <1>1, <2>1
<1>9. InOrder(t)
  <2> SUFFICES ASSUME NEW i \in 1..n, NEW j \in 1..n, i < j PROVE ~Before(t[j], t[i])
    BY <1>8 DEF InOrder
  <2>1. Before(t[i], t[j]) \/ t[i] = t[j]
    <3>1. <<q[i], q[j]>> \in ByString(E)
      BY <1>6
    <3>2. q[i] \in E /\ q[j] \in E /\ t[i] = q[i][1] /\ t[j] = q[j][1]
      BY <1>7
    <3>3. Before(q[i][1], q[j][1]) \/ q[i][1] = q[j][1]
      BY <1>5, <3>1, <3>2
    <3> QED
      BY <3>2, <3>3
  <2>2. t[i] \in Strings /\ t[j] \in Strings
    BY <1>7
  <2>3. CASE t[i] = t[j]
    BY <2>2, <2>3, BeforeIsIrreflexive
  <2>4. CASE Before(t[i], t[j])
    <3> SUFFICES ASSUME Before(t[j], t[i]) PROVE FALSE
      OBVIOUS
    <3>1. Before(t[i], t[i])
      BY <2>2, <2>4, BeforeIsTransitive
    <3> QED
      BY <2>2, <3>1, BeforeIsIrreflexive
  <2> QED
    BY <2>1, <2>3, <2>4
<1>10. ASSUME NEW k \in 1..n PROVE \E i \in 1..n : pi[i] = k /\ t[i] = s[k]
  <2>1. PICK i \in 1..n : q[i] = <<s[k], k>>
    BY <1>2, <1>6
  <2>2. q[i][2] = k
    BY <2>1
  <2>3. pi[i] = k
    BY <1>7, <2>2
  <2> QED
    BY <1>7, <2>3
<1>11. ASSUME NEW i \in 1..n, NEW j \in 1..n, pi[i] = pi[j] PROVE i = j
  <2>1. q[i] \in E /\ q[j] \in E /\ q[i][2] = q[j][2]
    BY <1>7, <1>11
  <2>2. q[i][1] = q[j][1]
    BY <1>2, <2>1
  <2>3. q[i][2] \in Nat
    BY <1>2, <2>1
  <2>4. q[i][1] \in Strings
    BY <1>2, <2>1
  <2>5. ~(<<q[i], q[j]>> \in ByString(E)) /\ ~(<<q[j], q[i]>> \in ByString(E))
    <3>1. ~Before(q[i][1], q[i][1])
      BY <2>4, BeforeIsIrreflexive
    <3>2. ~(q[i][2] < q[i][2])
      BY <2>3
    <3> QED
      BY <1>5, <2>1, <2>2, <3>1, <3>2
  <2>6. ~(i < j) /\ ~(j < i)
    BY <1>6, <2>5
  <2> QED
    BY <2>6
<1>12. ASSUME NEW x PROVE Cardinality(Places(t, x)) = Cardinality(Places(s, x))
  <2> DEFINE P == Places(t, x)
             Q == Places(s, x)
             b == [i \in P |-> pi[i]]
  <2>1. \A i \in P : i \in 1..n /\ t[i] = x
    BY <1>8 DEF Places
  <2>2. \A k : k \in Q <=> k \in 1..n /\ s[k] = x
    BY DEF Places, n
  <2>3. \A i \in P : pi[i] \in Q
    BY <1>7, <2>1, <2>2
  <2>4. \A k \in Q : \E i \in P : pi[i] = k
    <3> TAKE k \in Q
    <3>1. PICK i \in 1..n : pi[i] = k /\ t[i] = s[k]
      BY <1>10, <2>2
    <3>2. i \in P
      BY <1>8, <2>2, <3>1 DEF Places
    <3> QED
      BY <3>1, <3>2
  <2> HIDE DEF P, Q, pi
  <2>5. b \in [P -> Q]
    BY <2>3
  <2>6. \A i, j \in P : b[i] = b[j] => i = j
    BY <1>11, <2>1
  <2>7. \A k \in Q : \E i \in P : b[i] = k
    BY <2>4
  <2> HIDE DEF b
  <2>8. b \in Bijection(P, Q)
    BY <2>5, <2>6, <2>7, Fun_IsBij
  <2>9. ExistsBijection(P, Q)
    BY <2>8, Fun_ExistsBij
  <2>10. IsFiniteSet(P)
    BY <1>8, PlacesFinite DEF P
  <2> QED
    BY <2>9, <2>10, FS_Bijection DEF P, Q
<1> QED
  BY <1>7, <1>8, <1>9, <1>10, <1>12 DEF n, t

\* A string stands more often in t than in u, if t has it where u has a later one.
LEMMA Surplus ==
    ASSUME NEW t \in Seq(Strings), NEW u \in Seq(Strings), InOrder(u),
           NEW k \in 1..Len(t), k <= Len(u) + 1,
           \A j \in 1..k - 1 : t[j] = u[j],
           k = Len(u) + 1 \/ Before(t[k], u[k])
    PROVE  Cardinality(Places(u, t[k])) # Cardinality(Places(t, t[k]))
<1> DEFINE x == t[k]
           P == Places(u, x)
           Q == Places(t, x)
<1>1. x \in Strings /\ Len(t) \in Nat /\ Len(u) \in Nat /\ k \in Nat
  OBVIOUS
<1>2. k \in Q
  BY DEF Places
<1>3. ASSUME NEW i \in P PROVE i < k
  <2> SUFFICES ASSUME i >= k PROVE FALSE
    BY <1>1 DEF Places
  <2>1. i \in 1..Len(u) /\ u[i] = x
    BY DEF Places
  <2>2. k \in 1..Len(u) /\ Before(x, u[k])
    BY <1>1, <2>1
  <2>3. CASE i = k
    BY <1>1, <2>1, <2>2, <2>3, BeforeIsIrreflexive
  <2>4. CASE i # k
    <3>1. k < i
      BY <1>1, <2>1, <2>4
    <3>2. ~Before(u[i], u[k])
      BY <2>1, <2>2, <3>1 DEF InOrder
    <3> QED
      BY <2>1, <2>2, <3>2
  <2> QED
    BY <2>3, <2>4
<1>4. P \in SUBSET Q
  <2> SUFFICES ASSUME NEW i \in P PROVE i \in Q
    OBVIOUS
  <2>1. i \in 1..Len(u) /\ u[i] = x /\ i < k
    BY <1>3 DEF Places
  <2>2. i \in 1..k - 1 /\ i \in 1..Len(t)
    BY <1>1, <2>1
  <2> QED
    BY <2>1, <2>2 DEF Places
<1>5. k \notin P
  BY <1>1, <1>3
<1>6. IsFiniteSet(Q)
  BY PlacesFinite
<1> HIDE DEF P, Q
<1>7. Cardinality(Q) = Cardinality(P) => Q = P
  BY <1>4, <1>6, FS_Subset
<1>8. Cardinality(P) # Cardinality(Q)
  BY <1>2, <1>5, <1>7
<1> QED
  BY <1>8 DEF P, Q

\* Sequences in order with the same strings, each as often, are the same.
LEMMA SameInOrder ==
    ASSUME NEW t \in Seq(Strings), NEW u \in Seq(Strings), InOrder(t), InOrder(u),
           \A i \in 1..Len(t) : Cardinality(Places(t, t[i])) = Cardinality(Places(u, t[i])),
           \A i \in 1..Len(u) : Cardinality(Places(t, u[i])) = Cardinality(Places(u, u[i]))
    PROVE  t = u
<1>1. PICK k \in Nat : Parts(t, u, k)
  BY SequenceParts
<1>2. /\ k \in 1..Len(t) + 1 /\ k \in 1..Len(u) + 1 /\ Len(t) \in Nat /\ Len(u) \in Nat
      /\ \A j \in 1..k - 1 : t[j] = u[j]
      /\ k <= Len(t) /\ k <= Len(u) => t[k] # u[k]
  BY <1>1 DEF Parts
<1>3. \A j \in 1..k - 1 : u[j] = t[j]
  BY <1>2
<1>4. CASE k = Len(t) + 1 /\ k = Len(u) + 1
  <2>1. Len(t) = Len(u) /\ \A j \in 1..Len(t) : t[j] = u[j]
    BY <1>2, <1>4
  <2> QED
    BY <2>1, SeqEqual
<1>5. CASE k <= Len(t) /\ k = Len(u) + 1
  <2>1. k \in 1..Len(t) /\ k <= Len(u) + 1
    BY <1>2, <1>5
  <2> QED
    BY <1>2, <1>5, <2>1, Surplus
<1>6. CASE k <= Len(u) /\ k = Len(t) + 1
  <2>1. k \in 1..Len(u) /\ k <= Len(t) + 1
    BY <1>2, <1>6
  <2> QED
    BY <1>3, <1>6, <2>1, Surplus
<1>7. CASE k <= Len(t) /\ k <= Len(u)
  <2>1. k \in 1..Len(t) /\ k \in 1..Len(u) /\ k <= Len(t) + 1 /\ k <= Len(u) + 1
    BY <1>2, <1>7
  <2>2. t[k] \in Strings /\ u[k] \in Strings /\ t[k] # u[k]
    BY <1>2, <1>7, <2>1
  <2>3. CASE Before(t[k], u[k])
    BY <1>2, <2>1, <2>3, Surplus
  <2>4. CASE Before(u[k], t[k])
    BY <1>3, <2>1, <2>4, Surplus
  <2> QED
    BY <2>2, <2>3, <2>4, BeforeIsTotal
<1> QED
  BY <1>2, <1>4, <1>5, <1>6, <1>7

-----------------------------------------------------------------------------
\* stableMapString: the map is read back from its string.

LEMMA CharFacts ==
    /\ Equals \in Nat /\ Comma \in Nat /\ Bar \in Nat
    /\ Equals # Comma /\ Equals # Bar /\ Comma # Bar
BY DEF Equals, Comma, Bar

LEMMA FreeOf ==
    ASSUME NEW s \in Strings, NEW C, ~HoldsAny(s, C), NEW c \in C
    PROVE  Free(s, c)
<1>1. DOMAIN s = 1..Len(s)
  BY DEF Strings
<1> QED
  BY <1>1 DEF HoldsAny, Free

LEMMA JoinFree ==
    ASSUME NEW n \in Nat, NEW c \in Nat, NEW d \in Nat, c # d, NEW f \in Fields(n, d)
    PROVE  Free(Join(f, <<c>>), d)
<1> DEFINE T == {m \in Nat : \A g \in Fields(m, d) : Free(Join(g, <<c>>), d)}
<1>1. <<c>> \in Strings
  BY DEF Strings
<1>2. 0 \in T
  <2> SUFFICES ASSUME NEW g \in Fields(0, d) PROVE Free(Join(g, <<c>>), d)
    OBVIOUS
  <2>1. g = <<>>
    BY DEF Fields
  <2>2. Join(g, <<c>>) = <<>>
    BY <2>1 DEF Join
  <2> QED
    BY <2>2 DEF Free
<1>3. ASSUME NEW m \in T PROVE m + 1 \in T
  <2> SUFFICES ASSUME NEW g \in Fields(m + 1, d) PROVE Free(Join(g, <<c>>), d)
    OBVIOUS
  <2>1. PICK r \in Fields(m, d), x \in Strings : Free(x, d) /\ g = Append(r, x)
    BY FieldsLast
  <2>2. r \in Seq(Strings)
    BY DEF Fields
  <2>3. CASE r = <<>>
    <3>1. Join(g, <<c>>) = x
      BY <1>1, <2>1, <2>2, <2>3, JoinAppend
    <3> QED
      BY <2>1, <3>1
  <2>4. CASE r # <<>>
    <3>1. Join(g, <<c>>) = Glued(Join(r, <<c>>), c, x) /\ Join(r, <<c>>) \in Strings
      BY <2>1, <2>2, <2>4, JoinGlue
    <3>2. Free(Join(r, <<c>>), d)
      OBVIOUS
    <3> QED
      BY <2>1, <3>1, <3>2, GlueFree
  <2> QED
    BY <2>3, <2>4
<1> HIDE DEF T
<1>4. T = Nat
  <2>1. T \in SUBSET Nat
    BY DEF T
  <2> QED
    BY <1>2, <1>3, <2>1, SetInduction
<1> QED
  BY <1>4 DEF T

\* A map without separators, as the set of its pairs.
PlainPairs(S) ==
    /\ IsNamed(S)
    /\ \A p \in S : /\ Free(p[1], Equals) /\ Free(p[1], Comma) /\ Free(p[1], Bar)
                    /\ Free(p[2], Comma) /\ Free(p[2], Bar)

\* stableMapString of a map with these pairs.
PairsString(S) == Join(Pairs(SortByName(S)), <<Comma>>)

LEMMA PairsFields ==
    ASSUME NEW S, PlainPairs(S)
    PROVE  /\ Cardinality(S) \in Nat
           /\ Pairs(SortByName(S)) \in Fields(Cardinality(S), Comma)
           /\ Pairs(SortByName(S)) \in Fields(Cardinality(S), Bar)
           /\ \A i \in 1..Cardinality(S) :
                 /\ SortByName(S)[i] \in S
                 /\ Pairs(SortByName(S))[i]
                      = Glued(SortByName(S)[i][1], Equals, SortByName(S)[i][2])
<1> DEFINE n == Cardinality(S)
           q == SortByName(S)
           f == Pairs(q)
<1>1. IsNamed(S)
  BY DEF PlainPairs
<1>2. n \in Nat /\ q \in [1..n -> S]
  BY <1>1, SortByNameFacts
<1> HIDE DEF n, q
<1>3. f = [i \in 1..n |-> q[i][1] \o <<Equals>> \o q[i][2]]
  BY <1>2 DEF Pairs
<1> HIDE DEF f
<1>4. \A i \in 1..n : q[i] \in S /\ f[i] = Glued(q[i][1], Equals, q[i][2])
  BY <1>2, <1>3 DEF Glued
<1>5. ASSUME NEW i \in 1..n PROVE f[i] \in Strings /\ Free(f[i], Comma) /\ Free(f[i], Bar)
  <2> DEFINE a == q[i][1]
             v == q[i][2]
  <2>1. q[i] \in S
    BY <1>4
  <2>2. a \in Strings /\ v \in Strings
    BY <1>1, <2>1 DEF IsNamed
  <2>3. Free(a, Comma) /\ Free(a, Bar) /\ Free(v, Comma) /\ Free(v, Bar)
    BY <2>1 DEF PlainPairs
  <2>4. f[i] = Glued(a, Equals, v)
    BY <1>4
  <2> HIDE DEF a, v
  <2>5. GlueOf(f[i], a, Equals, v)
    BY <2>2, <2>4, CharFacts, GlueFacts
  <2>6. Free(f[i], Comma) /\ Free(f[i], Bar)
    BY <2>2, <2>3, <2>4, CharFacts, GlueFree
  <2> QED
    BY <2>5, <2>6 DEF GlueOf
<1>6. f \in [1..n -> Strings]
  BY <1>3, <1>5
<1>7. f \in Seq(Strings) /\ Len(f) = n
  BY <1>2, <1>6
<1>8. f \in Fields(n, Comma) /\ f \in Fields(n, Bar)
  BY <1>5, <1>7 DEF Fields
<1> QED
  BY <1>2, <1>4, <1>8 DEF n, q, f

LEMMA PairsStringType ==
    ASSUME NEW S, PlainPairs(S)
    PROVE  PairsString(S) \in Strings /\ Free(PairsString(S), Bar)
<1> DEFINE n == Cardinality(S)
           f == Pairs(SortByName(S))
<1>1. n \in Nat /\ f \in Fields(n, Comma) /\ f \in Fields(n, Bar)
  BY PairsFields
<1> HIDE DEF n, f
<1>2. Join(f, <<Comma>>) \in Strings
  BY <1>1, CharFacts, FieldsJoin
<1>3. Free(Join(f, <<Comma>>), Bar)
  BY <1>1, CharFacts, JoinFree
<1> QED
  BY <1>2, <1>3 DEF PairsString, f

\* An empty map is not mistaken for another one: a pair holds "=".
LEMMA PairsStringEmpty ==
    ASSUME NEW S, PlainPairs(S), S # {}
    PROVE  PairsString(S) # <<>> /\ Cardinality(S) # 0
<1> DEFINE n == Cardinality(S)
           q == SortByName(S)
           f == Pairs(q)
<1>1. n \in Nat /\ f \in Fields(n, Comma)
      /\ \A i \in 1..n : q[i] \in S /\ f[i] = Glued(q[i][1], Equals, q[i][2])
  BY PairsFields
<1>2. n # 0
  BY FS_EmptySet DEF PlainPairs, IsNamed
<1>3. \A x \in S : x[1] \in Strings /\ x[2] \in Strings
  BY DEF PlainPairs, IsNamed
<1> HIDE DEF n, q, f
<1>4. CASE n = 1
  <2>1. PICK x \in Strings : f = Append(<<>>, x) /\ Join(f, <<Comma>>) = x
    BY <1>1, <1>4, CharFacts, JoinOne
  <2>2. x = f[1]
    BY <2>1
  <2>3. 1 \in 1..n
    BY <1>4
  <2>4. q[1][1] \in Strings /\ q[1][2] \in Strings /\ f[1] = Glued(q[1][1], Equals, q[1][2])
    BY <1>1, <1>3, <2>3
  <2>5. f[1] # <<>>
    BY <2>4, CharFacts, GlueHolds
  <2> QED
    BY <1>2, <2>1, <2>2, <2>5 DEF PairsString, n, f, q
<1>5. CASE n # 1
  <2>1. PICK m \in Nat \ {0} : m + 1 = n
    <3>1. n - 1 \in Nat \ {0} /\ (n - 1) + 1 = n
      BY <1>1, <1>2, <1>5
    <3> QED
      BY <3>1
  <2>2. PICK g, x : LastOf(f, m, Comma, g, x)
    BY <1>1, <2>1, CharFacts, JoinLast
  <2>3. Join(f, <<Comma>>) # <<>>
    BY <2>2, CharFacts, GlueHolds DEF LastOf
  <2> QED
    BY <1>2, <2>3 DEF PairsString, n, f, q
<1> QED
  BY <1>4, <1>5

LEMMA PairsBack ==
    ASSUME NEW S, PlainPairs(S), NEW R, PlainPairs(R), PairsString(S) = PairsString(R)
    PROVE  S = R
<1>1. PairsString({}) = <<>>
  <2>1. Cardinality({}) = 0
    BY FS_EmptySet
  <2>2. PlainPairs({})
    BY EmptyNamed DEF PlainPairs
  <2>3. Pairs(SortByName({})) \in Fields(0, Comma)
    BY <2>1, <2>2, PairsFields
  <2>4. Pairs(SortByName({})) = <<>>
    BY <2>3 DEF Fields
  <2> QED
    BY <2>4 DEF PairsString, Join
<1>2. CASE S = {} \/ R = {}
  BY <1>1, <1>2, PairsStringEmpty
<1>3. CASE S # {} /\ R # {}
  <2> DEFINE n == Cardinality(S)
             m == Cardinality(R)
             q == SortByName(S)
             r == SortByName(R)
             f == Pairs(q)
             g == Pairs(r)
  <2>1. n \in Nat /\ f \in Fields(n, Comma)
        /\ \A i \in 1..n : q[i] \in S /\ f[i] = Glued(q[i][1], Equals, q[i][2])
    BY PairsFields
  <2>2. m \in Nat /\ g \in Fields(m, Comma)
        /\ \A i \in 1..m : r[i] \in R /\ g[i] = Glued(r[i][1], Equals, r[i][2])
    BY PairsFields
  <2>3. n # 0 /\ m # 0
    BY <1>3, PairsStringEmpty
  <2>4. Join(f, <<Comma>>) = Join(g, <<Comma>>)
    BY DEF PairsString
  <2>5. /\ \A x \in S : \E i \in 1..n : q[i] = x
        /\ \A x \in R : \E i \in 1..m : r[i] = x
    BY SortByNameFacts DEF PlainPairs
  <2> HIDE DEF n, m, q, r, f, g
  <2>6. n = m
    <3>1. CountsBack(n, Comma)
      BY <2>1, <2>3, CharFacts, CountBack
    <3> QED
      BY <2>1, <2>2, <2>3, <2>4, <3>1 DEF CountsBack
  <2>7. f = g
    BY <2>1, <2>2, <2>3, <2>4, <2>6, CharFacts, SameJoin
  <2>8. ASSUME NEW i \in 1..n PROVE q[i] = r[i]
    <3>1. q[i] \in S /\ r[i] \in R
      BY <2>1, <2>2, <2>6
    <3>2. Glued(q[i][1], Equals, q[i][2]) = Glued(r[i][1], Equals, r[i][2])
      BY <2>1, <2>2, <2>6, <2>7
    <3>3. /\ q[i][1] \in Strings /\ q[i][2] \in Strings /\ Free(q[i][1], Equals)
          /\ r[i][1] \in Strings /\ r[i][2] \in Strings /\ Free(r[i][1], Equals)
      BY <3>1 DEF PlainPairs, IsNamed
    <3>4. q[i][1] = r[i][1] /\ q[i][2] = r[i][2]
      BY <3>2, <3>3, CharFacts, FirstSeparator
    <3>5. q[i] = <<q[i][1], q[i][2]>> /\ r[i] = <<r[i][1], r[i][2]>>
      BY <3>1 DEF PlainPairs, IsNamed
    <3> QED
      BY <3>4, <3>5
  <2> QED
    BY <2>1, <2>2, <2>5, <2>6, <2>8
<1> QED
  BY <1>2, <1>3

-----------------------------------------------------------------------------
\* The strings of an alert and of a webhook are read back.

\* An alert whose strings hold no separator.
PlainAlert(alert) ==
    IsAlert(alert) /\ PlainFields(alert.head) /\ PlainMaps(alert.maps) /\ PlainFields(alert.tail)

LEMMA MapPairs ==
    ASSUME NEW map, IsMap(map)
    PROVE  IsNamed(Range(map))
<1>1. map \in Seq(Strings \X Strings) /\ Len(map) \in Nat
      /\ \A i, j \in 1..Len(map) : map[i][1] = map[j][1] => i = j
  BY DEF IsMap
<1>2. DOMAIN map = 1..Len(map) /\ Range(map) = {map[i] : i \in 1..Len(map)}
  BY <1>1 DEF Range
<1>3. map \in [1..Len(map) -> Range(map)]
  BY <1>1, <1>2
<1>4. map \in Surjection(1..Len(map), Range(map))
  BY <1>2, <1>3, Fun_IsSurj
<1>5. IsFiniteSet(Range(map))
  <2>1. ExistsSurjection(1..Len(map), Range(map))
    BY <1>4, Fun_ExistsSurj
  <2> QED
    BY <1>1, <2>1, FS_NatSurjection
<1>6. Range(map) \subseteq Strings \X Strings
  BY <1>1, <1>2
<1>7. \A l, m \in Range(map) : l[1] = m[1] => l = m
  BY <1>1, <1>2
<1> QED
  BY <1>5, <1>6, <1>7 DEF IsNamed

\* The maps of a webhook or of an alert as strings.
LEMMA MapsFields ==
    ASSUME NEW maps, IsMaps(maps), PlainMaps(maps)
    PROVE  /\ Len(maps) \in Nat /\ DOMAIN maps = 1..Len(maps)
           /\ MapStrings(maps) \in Fields(Len(maps), Bar)
           /\ \A i \in 1..Len(maps) : /\ PlainPairs(Range(maps[i]))
                                      /\ MapStrings(maps)[i] = PairsString(Range(maps[i]))
<1> DEFINE n == Len(maps)
           f == MapStrings(maps)
<1>1. n \in Nat /\ DOMAIN maps = 1..n /\ \A i \in 1..n : IsMap(maps[i])
  BY DEF IsMaps
<1>2. ASSUME NEW i \in 1..n PROVE PlainPairs(Range(maps[i]))
  <2>1. IsNamed(Range(maps[i]))
    BY <1>1, MapPairs
  <2>2. ASSUME NEW p \in Range(maps[i])
        PROVE  /\ Free(p[1], Equals) /\ Free(p[1], Comma) /\ Free(p[1], Bar)
               /\ Free(p[2], Comma) /\ Free(p[2], Bar)
    <3>1. p[1] \in Strings /\ p[2] \in Strings
      BY <2>1 DEF IsNamed
    <3>2. ~HoldsAny(p[1], {Equals, Comma, Bar}) /\ ~HoldsAny(p[2], {Comma, Bar})
      BY <1>1 DEF PlainMaps
    <3> QED
      BY <3>1, <3>2, FreeOf
  <2> QED
    BY <2>1, <2>2 DEF PlainPairs
<1>3. f = [i \in 1..n |-> PairsString(Range(maps[i]))]
  BY <1>1 DEF MapStrings, stableMapString, PairsString
<1> HIDE DEF n, f
<1>4. \A i \in 1..n : f[i] = PairsString(Range(maps[i])) /\ f[i] \in Strings /\ Free(f[i], Bar)
  BY <1>2, <1>3, PairsStringType
<1>5. f \in [1..n -> Strings]
  BY <1>3, <1>4
<1>6. f \in Seq(Strings) /\ Len(f) = n
  BY <1>1, <1>5
<1>7. f \in Fields(n, Bar)
  BY <1>4, <1>6 DEF Fields
<1> QED
  BY <1>1, <1>2, <1>4, <1>7 DEF n, f

LEMMA PlainAreFields ==
    ASSUME NEW f \in Seq(Strings), PlainFields(f)
    PROVE  Len(f) \in Nat /\ f \in Fields(Len(f), Bar)
<1>1. \A i \in 1..Len(f) : f[i] \in Strings /\ ~HoldsAny(f[i], {Bar})
  <2>1. DOMAIN f = 1..Len(f) /\ \A i \in 1..Len(f) : f[i] \in Strings
    OBVIOUS
  <2> QED
    BY <2>1 DEF PlainFields
<1>2. \A i \in 1..Len(f) : Free(f[i], Bar)
  BY <1>1, FreeOf
<1> QED
  BY <1>2 DEF Fields

\* s \o t, which the provers are not to take apart where it is cited.
Chain(s, t) == s \o t

LEMMA FieldsConcat ==
    ASSUME NEW n \in Nat, NEW m \in Nat, NEW c \in Nat, NEW f \in Fields(n, c), NEW g \in Fields(m, c)
    PROVE  Chain(f, g) \in Fields(n + m, c)
<1>1. /\ f \in Seq(Strings) /\ Len(f) = n /\ \A i \in 1..n : Free(f[i], c)
      /\ g \in Seq(Strings) /\ Len(g) = m /\ \A i \in 1..m : Free(g[i], c)
  BY DEF Fields
<1> DEFINE w == f \o g
<1>2. f \in Seq(Strings) /\ g \in Seq(Strings)
  BY <1>1
<1>3. /\ w \in Seq(Strings) /\ Len(w) = Len(f) + Len(g)
      /\ \A i \in 1..Len(f) + Len(g) : w[i] = IF i <= Len(f) THEN f[i] ELSE g[i - Len(f)]
  BY <1>2, ConcatProperties
<1> HIDE DEF w
<1>4. ASSUME NEW i \in 1..n + m PROVE Free(w[i], c)
  <2>1. CASE i <= n
    <3>1. i \in 1..n /\ w[i] = f[i]
      BY <1>1, <1>3, <2>1
    <3> QED
      BY <1>1, <3>1
  <2>2. CASE ~(i <= n)
    <3>1. i - n \in 1..m /\ w[i] = g[i - n]
      BY <1>1, <1>3, <2>2
    <3> QED
      BY <1>1, <3>1
  <2> QED
    BY <2>1, <2>2
<1>5. w \in Fields(n + m, c)
  BY <1>1, <1>3, <1>4 DEF Fields
<1> QED
  BY <1>5 DEF w, Chain

LEMMA ConcatBack ==
    ASSUME NEW a \in Seq(Strings), NEW b \in Seq(Strings), NEW x \in Seq(Strings), NEW y \in Seq(Strings),
           Len(a) = Len(b), Chain(a, x) = Chain(b, y)
    PROVE  a = b /\ x = y
<1> DEFINE v == a \o x
           w == b \o y
<1>1. /\ v \in Seq(Strings) /\ Len(v) = Len(a) + Len(x)
      /\ \A i \in 1..Len(a) + Len(x) : v[i] = IF i <= Len(a) THEN a[i] ELSE x[i - Len(a)]
  BY ONLY a \in Seq(Strings), x \in Seq(Strings), ConcatProperties
<1>2. /\ w \in Seq(Strings) /\ Len(w) = Len(b) + Len(y)
      /\ \A i \in 1..Len(b) + Len(y) : w[i] = IF i <= Len(b) THEN b[i] ELSE y[i - Len(b)]
  BY ONLY b \in Seq(Strings), y \in Seq(Strings), ConcatProperties
<1>3. v = w
  BY DEF Chain
<1> HIDE DEF v, w
<1>4. Len(a) \in Nat /\ Len(x) \in Nat /\ Len(y) \in Nat
  OBVIOUS
<1>5. Len(x) = Len(y)
  BY <1>1, <1>2, <1>3, <1>4
<1>6. \A i \in 1..Len(a) : a[i] = b[i]
  BY <1>1, <1>2, <1>3, <1>4, <1>5
<1>7. ASSUME NEW i \in 1..Len(x) PROVE x[i] = y[i]
  <2>1. Len(a) + i \in 1..Len(a) + Len(x) /\ ~(Len(a) + i <= Len(a)) /\ (Len(a) + i) - Len(a) = i
    BY <1>4
  <2>2. v[Len(a) + i] = x[i]
    BY <1>1, <2>1
  <2>3. w[Len(a) + i] = y[i]
    BY <1>2, <1>5, <2>1
  <2> QED
    BY <1>3, <2>2, <2>3
<1>8. a = b
  BY <1>6, SeqEqual
<1>9. x = y
  BY <1>5, <1>7, SeqEqual
<1> QED
  BY <1>8, <1>9

\* The maps are the same if their strings are.
LEMMA MapsBack ==
    ASSUME NEW maps, IsMaps(maps), PlainMaps(maps), NEW maps2, IsMaps(maps2), PlainMaps(maps2),
           Len(maps) = Len(maps2)
    PROVE  MapStrings(maps) = MapStrings(maps2)
             <=> \A i \in DOMAIN maps : Range(maps[i]) = Range(maps2[i])
<1> DEFINE n == Len(maps)
           f == MapStrings(maps)
           g == MapStrings(maps2)
<1>1. /\ n \in Nat /\ DOMAIN maps = 1..n /\ f \in Fields(n, Bar)
      /\ \A i \in 1..n : PlainPairs(Range(maps[i])) /\ f[i] = PairsString(Range(maps[i]))
  BY MapsFields
<1>2. /\ g \in Fields(n, Bar)
      /\ \A i \in 1..n : PlainPairs(Range(maps2[i])) /\ g[i] = PairsString(Range(maps2[i]))
  BY MapsFields
<1> HIDE DEF n, f, g
<1>3. ASSUME f = g, NEW i \in 1..n PROVE Range(maps[i]) = Range(maps2[i])
  BY <1>1, <1>2, <1>3, PairsBack
<1>4. ASSUME \A i \in 1..n : Range(maps[i]) = Range(maps2[i]) PROVE f = g
  <2>1. \A i \in 1..n : f[i] = g[i]
    BY <1>1, <1>2, <1>4
  <2>2. f \in Seq(Strings) /\ g \in Seq(Strings) /\ Len(f) = n /\ Len(g) = n
    BY <1>1, <1>2 DEF Fields
  <2> QED
    BY <2>1, <2>2, SeqEqual
<1> QED
  BY <1>1, <1>3, <1>4 DEF n, f, g

\* The fields of an alert, and how many there are.
FrontFields(r) == Chain(r.head, MapStrings(r.maps))
AlertFields(alert) == Chain(FrontFields(alert), alert.tail)
FrontCount(r) == Len(r.head) + Len(r.maps)
FieldCount(alert) == FrontCount(alert) + Len(alert.tail)

\* What a webhook and an alert have in common: fields, and maps behind them.
PlainFront(r) ==
    r.head \in Seq(Strings) /\ IsMaps(r.maps) /\ PlainFields(r.head) /\ PlainMaps(r.maps)

LEMMA FrontFacts ==
    ASSUME NEW r, PlainFront(r)
    PROVE  /\ r.head \in Seq(Strings) /\ MapStrings(r.maps) \in Seq(Strings)
           /\ Len(r.head) \in Nat /\ Len(r.maps) \in Nat /\ DOMAIN r.maps = 1..Len(r.maps)
           /\ FrontCount(r) \in Nat /\ FrontFields(r) \in Fields(FrontCount(r), Bar)
           /\ FrontFields(r) \in Seq(Strings) /\ Len(FrontFields(r)) = FrontCount(r)
<1> DEFINE h == r.head
           m == MapStrings(r.maps)
<1>1. h \in Seq(Strings) /\ IsMaps(r.maps) /\ PlainMaps(r.maps) /\ PlainFields(h)
  BY DEF PlainFront
<1>2. Len(r.maps) \in Nat /\ DOMAIN r.maps = 1..Len(r.maps) /\ m \in Fields(Len(r.maps), Bar)
  BY <1>1, MapsFields
<1>3. Len(h) \in Nat /\ h \in Fields(Len(h), Bar)
  BY <1>1, PlainAreFields
<1>4. m \in Seq(Strings)
  BY <1>2 DEF Fields
<1> HIDE DEF h, m
<1>5. PICK k \in Nat : k = Len(h)
  BY <1>3
<1>6. PICK l \in Nat : l = Len(r.maps)
  BY <1>2
<1>7. h \in Fields(k, Bar) /\ m \in Fields(l, Bar)
  BY <1>2, <1>3, <1>5, <1>6
<1>8. Chain(h, m) \in Fields(k + l, Bar)
  BY <1>7, CharFacts, FieldsConcat
<1>9. FrontCount(r) = k + l /\ FrontFields(r) = Chain(h, m)
  BY <1>5, <1>6 DEF FrontCount, FrontFields, h, m
<1>10. FrontFields(r) \in Fields(FrontCount(r), Bar)
  BY <1>8, <1>9
<1>11. FrontFields(r) \in Seq(Strings) /\ Len(FrontFields(r)) = FrontCount(r)
  BY <1>10 DEF Fields
<1>12. FrontCount(r) \in Nat
  BY <1>9
<1> QED
  BY <1>1, <1>2, <1>3, <1>4, <1>10, <1>11, <1>12 DEF h, m

\* The fields in front are the same if and only if head and maps are.
LEMMA FrontBack ==
    ASSUME NEW r, PlainFront(r), NEW s, PlainFront(s), SameFields(r, s)
    PROVE  /\ FrontCount(r) = FrontCount(s)
           /\ FrontFields(r) = FrontFields(s)
                <=> /\ r.head = s.head
                    /\ \A i \in DOMAIN r.maps : Range(r.maps[i]) = Range(s.maps[i])
<1> DEFINE a == r.head
           b == s.head
           x == MapStrings(r.maps)
           y == MapStrings(s.maps)
<1>1. a \in Seq(Strings) /\ x \in Seq(Strings) /\ b \in Seq(Strings) /\ y \in Seq(Strings)
  BY FrontFacts
<1>2. Len(a) = Len(b) /\ Len(r.maps) = Len(s.maps)
  BY DEF SameFields
<1>3. x = y <=> \A i \in DOMAIN r.maps : Range(r.maps[i]) = Range(s.maps[i])
  BY <1>2, MapsBack DEF PlainFront
<1>4. FrontFields(r) = Chain(a, x) /\ FrontFields(s) = Chain(b, y)
  BY DEF FrontFields
<1>5. FrontCount(r) = FrontCount(s)
  BY <1>2 DEF FrontCount
<1> HIDE DEF a, b, x, y
<1>6. Chain(a, x) = Chain(b, y) <=> a = b /\ x = y
  BY <1>1, <1>2, ConcatBack
<1>7. FrontFields(r) = FrontFields(s) <=> a = b /\ x = y
  BY <1>4, <1>6
<1> QED
  BY <1>3, <1>5, <1>7 DEF a, b

LEMMA AlertFacts ==
    ASSUME NEW alert, PlainAlert(alert)
    PROVE  /\ PlainFront(alert) /\ alert.tail \in Seq(Strings)
           /\ FieldCount(alert) \in Nat \ {0, 1}
           /\ AlertFields(alert) \in Fields(FieldCount(alert), Bar)
           /\ AlertString(alert) = Join(AlertFields(alert), <<Bar>>)
           /\ AlertString(alert) \in Blocks(FieldCount(alert), Bar)
<1> DEFINE f == FrontFields(alert)
           t == alert.tail
<1>1. PlainFront(alert)
  BY DEF PlainAlert, IsAlert, PlainFront
<1>2. /\ t \in Seq(Strings) /\ PlainFields(t)
      /\ Len(alert.head) + Len(alert.maps) + Len(t) > 1
  BY DEF PlainAlert, IsAlert
<1>3. Len(t) \in Nat /\ t \in Fields(Len(t), Bar)
  BY <1>2, PlainAreFields
<1>4. FrontCount(alert) \in Nat /\ f \in Fields(FrontCount(alert), Bar)
      /\ Len(alert.head) \in Nat /\ Len(alert.maps) \in Nat
  BY <1>1, FrontFacts
<1>5. FieldCount(alert) = FrontCount(alert) + Len(t) /\ AlertFields(alert) = Chain(f, t)
  BY DEF FieldCount, AlertFields
<1>6. FrontCount(alert) + Len(t) > 1
  BY <1>2 DEF FrontCount
<1>7. AlertString(alert) = Join(AlertFields(alert), <<Bar>>)
  BY DEF AlertString, AlertFields, FrontFields, Chain
<1> HIDE DEF f, t
<1>8. PICK k \in Nat : k = FrontCount(alert)
  BY <1>4
<1>9. PICK l \in Nat : l = Len(t)
  BY <1>3
<1>10. f \in Fields(k, Bar) /\ t \in Fields(l, Bar)
  BY <1>3, <1>4, <1>8, <1>9
<1>11. Chain(f, t) \in Fields(k + l, Bar)
  BY <1>10, CharFacts, FieldsConcat
<1>12. FieldCount(alert) = k + l /\ k + l > 1
  BY <1>5, <1>6, <1>8, <1>9
<1>13. FieldCount(alert) \in Nat \ {0, 1}
  BY <1>12
<1>14. AlertFields(alert) \in Fields(FieldCount(alert), Bar)
  BY <1>5, <1>11, <1>12
<1>15. AlertString(alert) \in Blocks(FieldCount(alert), Bar)
  BY <1>7, <1>14 DEF Blocks
<1> QED
  BY <1>1, <1>2, <1>7, <1>13, <1>14, <1>15 DEF t

\* Two alerts have the same string if and only if they have the same content.
LEMMA AlertBack ==
    ASSUME NEW r, PlainAlert(r), NEW s, PlainAlert(s), SameFields(r, s), Len(r.tail) = Len(s.tail)
    PROVE  /\ FieldCount(r) = FieldCount(s)
           /\ AlertString(r) = AlertString(s) <=> Content(r) = Content(s)
<1> DEFINE a == FrontFields(r)
           b == FrontFields(s)
           x == r.tail
           y == s.tail
           n == FieldCount(r)
<1>1. PlainFront(r) /\ PlainFront(s) /\ x \in Seq(Strings) /\ y \in Seq(Strings)
  BY AlertFacts
<1>2. /\ a \in Seq(Strings) /\ b \in Seq(Strings)
      /\ Len(a) = FrontCount(r) /\ Len(b) = FrontCount(s)
  BY <1>1, FrontFacts
<1>3. /\ FrontCount(r) = FrontCount(s)
      /\ a = b <=> /\ r.head = s.head
                   /\ \A i \in DOMAIN r.maps : Range(r.maps[i]) = Range(s.maps[i])
  BY <1>1, FrontBack
<1>4. n = FieldCount(s)
  BY <1>3 DEF FieldCount
<1>5. /\ n \in Nat \ {0, 1} /\ AlertFields(r) \in Fields(n, Bar)
      /\ AlertString(r) = Join(AlertFields(r), <<Bar>>)
  BY AlertFacts
<1>6. /\ AlertFields(s) \in Fields(n, Bar)
      /\ AlertString(s) = Join(AlertFields(s), <<Bar>>)
  BY <1>4, AlertFacts
<1>7. AlertFields(r) = Chain(a, x) /\ AlertFields(s) = Chain(b, y)
  BY DEF AlertFields
<1>8. DOMAIN r.maps = DOMAIN s.maps
  BY <1>1, FrontFacts DEF SameFields
<1>9. Content(r) = Content(s) <=> /\ r.head = s.head /\ r.tail = s.tail
                                  /\ \A i \in DOMAIN r.maps : Range(r.maps[i]) = Range(s.maps[i])
  <2>1. /\ Content(r).head = r.head /\ Content(r).tail = r.tail
        /\ Content(r).maps = [i \in DOMAIN r.maps |-> Range(r.maps[i])]
    BY DEF Content
  <2>2. /\ Content(s).head = s.head /\ Content(s).tail = s.tail
        /\ Content(s).maps = [i \in DOMAIN s.maps |-> Range(s.maps[i])]
    BY DEF Content
  <2>3. Content(r) = Content(s)
          <=> r.head = s.head /\ r.tail = s.tail
              /\ [i \in DOMAIN r.maps |-> Range(r.maps[i])] = [i \in DOMAIN s.maps |-> Range(s.maps[i])]
    <3>1. ASSUME Content(r) = Content(s)
          PROVE  r.head = s.head /\ r.tail = s.tail
              /\ [i \in DOMAIN r.maps |-> Range(r.maps[i])] = [i \in DOMAIN s.maps |-> Range(s.maps[i])]
      BY <2>1, <2>2, <3>1
    <3> QED
      BY <3>1 DEF Content
  <2>4. [i \in DOMAIN r.maps |-> Range(r.maps[i])] = [i \in DOMAIN s.maps |-> Range(s.maps[i])]
          <=> \A i \in DOMAIN r.maps : Range(r.maps[i]) = Range(s.maps[i])
    BY <1>8
  <2> QED
    BY <2>3, <2>4
<1> HIDE DEF a, b, x, y, n
<1>10. Len(a) = Len(b)
  BY <1>2, <1>3
<1>11. Chain(a, x) = Chain(b, y) <=> a = b /\ x = y
  BY <1>1, <1>2, <1>10, ConcatBack
<1>12. AlertString(r) = AlertString(s) <=> AlertFields(r) = AlertFields(s)
  <2>1. n \in Nat \ {0}
    BY <1>5
  <2>2. ASSUME AlertString(r) = AlertString(s) PROVE AlertFields(r) = AlertFields(s)
    BY <1>5, <1>6, <2>1, <2>2, CharFacts, SameJoin
  <2> QED
    BY <1>5, <1>6, <2>2
<1>13. AlertString(r) = AlertString(s) <=> a = b /\ x = y
  BY <1>7, <1>11, <1>12
<1>14. AlertString(r) = AlertString(s) <=> Content(r) = Content(s)
  BY <1>3, <1>9, <1>13 DEF x, y
<1> QED
  BY <1>4, <1>14 DEF n

-----------------------------------------------------------------------------
\* The key of a webhook.

PlainPayload(p) == IsPayload(p) /\ Unambiguous(p)

AlertStrings(p) == [i \in DOMAIN p.alerts |-> AlertString(p.alerts[i])]

LEMMA KeyParts ==
    ASSUME NEW p, PlainPayload(p)
    PROVE  /\ PlainFront(p) /\ FrontCount(p) \in Nat \ {0}
           /\ FrontFields(p) \in Fields(FrontCount(p), Bar)
           /\ Len(p.alerts) \in Nat /\ DOMAIN p.alerts = 1..Len(p.alerts)
           /\ \A i \in 1..Len(p.alerts) : p.alerts[i] \in Range(p.alerts) /\ PlainAlert(p.alerts[i])
           /\ \A a \in Range(p.alerts) : PlainAlert(a) /\ \E i \in 1..Len(p.alerts) : p.alerts[i] = a
           /\ AlertStrings(p) \in Seq(Strings) /\ Len(AlertStrings(p)) = Len(p.alerts)
           /\ \A i \in 1..Len(p.alerts) : AlertStrings(p)[i] = AlertString(p.alerts[i])
<1> DEFINE n == Len(p.alerts)
           A == AlertStrings(p)
<1>1. PlainFront(p)
  BY DEF PlainPayload, IsPayload, Unambiguous, PlainFront
<1>2. FrontCount(p) \in Nat /\ FrontFields(p) \in Fields(FrontCount(p), Bar)
  BY <1>1, FrontFacts
<1>3. FrontCount(p) > 0
  BY DEF PlainPayload, IsPayload, FrontCount
<1>4. n \in Nat /\ DOMAIN p.alerts = 1..n
  BY DEF PlainPayload, IsPayload
<1>5. Range(p.alerts) = {p.alerts[i] : i \in 1..n}
  BY <1>4 DEF Range
<1>6. \A a \in Range(p.alerts) : PlainAlert(a)
  BY DEF PlainPayload, IsPayload, Unambiguous, PlainAlert
<1>7. A = [i \in 1..n |-> AlertString(p.alerts[i])]
  BY <1>4 DEF AlertStrings
<1> HIDE DEF n, A
<1>8. ASSUME NEW i \in 1..n
      PROVE  /\ p.alerts[i] \in Range(p.alerts) /\ PlainAlert(p.alerts[i])
             /\ A[i] = AlertString(p.alerts[i]) /\ A[i] \in Strings
  <2>1. p.alerts[i] \in Range(p.alerts)
    BY <1>5
  <2>2. PlainAlert(p.alerts[i])
    BY <1>6, <2>1
  <2>3. PICK k \in Nat : k = FieldCount(p.alerts[i])
    BY <2>2, AlertFacts
  <2>4. AlertString(p.alerts[i]) \in Blocks(k, Bar)
    BY <2>2, <2>3, AlertFacts
  <2>5. AlertString(p.alerts[i]) \in Strings
    BY <2>4, CharFacts, BlockType
  <2> QED
    BY <1>7, <2>1, <2>2, <2>5
<1>9. A \in [1..n -> Strings]
  BY <1>7, <1>8
<1>10. A \in Seq(Strings) /\ Len(A) = n
  BY <1>4, <1>9
<1>11. FrontCount(p) \in Nat \ {0}
  BY <1>2, <1>3
<1>12. \A a \in Range(p.alerts) : \E i \in 1..n : p.alerts[i] = a
  BY <1>5
<1> QED
  BY <1>1, <1>2, <1>4, <1>6, <1>8, <1>10, <1>11, <1>12 DEF n, A

LEMMA StringsOfAlerts ==
    ASSUME NEW p, PlainPayload(p)
    PROVE  \A i \in 1..Len(AlertStrings(p)) : \E a \in Range(p.alerts) : AlertStrings(p)[i] = AlertString(a)
<1>1. /\ Len(AlertStrings(p)) = Len(p.alerts)
      /\ \A i \in 1..Len(p.alerts) : p.alerts[i] \in Range(p.alerts)
      /\ \A i \in 1..Len(p.alerts) : AlertStrings(p)[i] = AlertString(p.alerts[i])
  BY KeyParts
<1> QED
  BY <1>1

LEMMA KeyString ==
    ASSUME NEW p
    PROVE  ComputeFingerprint(p)
             = Glued(Join(FrontFields(p), <<Bar>>), Bar, Join(SortStrings(AlertStrings(p)), <<Bar, Bar>>))
BY DEF ComputeFingerprint, FrontFields, Chain, Glued, AlertStrings

\* The alerts of the two webhooks have the same fields.
Alike(p, q) ==
    /\ SameFields(p, q)
    /\ \A r \in Range(p.alerts), s \in Range(q.alerts) :
          SameFields(r, s) /\ Len(r.tail) = Len(s.tail)

\* How often an alert comes in a webhook is how often its string comes.
LEMMA CopiesArePlaces ==
    ASSUME NEW p, PlainPayload(p), NEW q, PlainPayload(q), Alike(p, q), NEW a \in Range(q.alerts)
    PROVE  Copies(a, p) = Places(AlertStrings(p), AlertString(a))
<1> DEFINE n == Len(p.alerts)
<1>1. /\ DOMAIN p.alerts = 1..n /\ Len(AlertStrings(p)) = n
      /\ \A i \in 1..n : /\ p.alerts[i] \in Range(p.alerts) /\ PlainAlert(p.alerts[i])
                         /\ AlertStrings(p)[i] = AlertString(p.alerts[i])
  BY KeyParts
<1>2. PlainAlert(a)
  BY KeyParts
<1> HIDE DEF n
<1>3. ASSUME NEW i \in 1..n
      PROVE  AlertStrings(p)[i] = AlertString(a) <=> Content(p.alerts[i]) = Content(a)
  <2> DEFINE r == p.alerts[i]
  <2>1. r \in Range(p.alerts) /\ PlainAlert(r) /\ AlertStrings(p)[i] = AlertString(r)
    BY <1>1
  <2>2. SameFields(r, a) /\ Len(r.tail) = Len(a.tail)
    BY <2>1 DEF Alike
  <2> HIDE DEF r
  <2>3. AlertString(r) = AlertString(a) <=> Content(r) = Content(a)
    BY <1>2, <2>1, <2>2, AlertBack
  <2> QED
    BY <2>1, <2>3 DEF r
<1>4. Copies(a, p) = {i \in 1..n : Content(p.alerts[i]) = Content(a)}
  BY <1>1 DEF Copies
<1>5. Places(AlertStrings(p), AlertString(a)) = {i \in 1..n : AlertStrings(p)[i] = AlertString(a)}
  BY <1>1 DEF Places
<1> QED
  BY <1>3, <1>4, <1>5

\* Two webhooks that FingerprintAssumption speaks of.
Comparable(p, q) ==
    /\ PlainPayload(p) /\ PlainPayload(q)
    /\ Alike(p, p) /\ Alike(p, q) /\ Alike(q, p) /\ Alike(q, q)

\* The alerts of two webhooks are the same if and only if their sorted strings are.
LEMMA SortedAlerts ==
    ASSUME NEW p, NEW q, Comparable(p, q)
    PROVE  SortStrings(AlertStrings(p)) = SortStrings(AlertStrings(q)) <=> SameAlerts(p, q)
<1> DEFINE A == AlertStrings(p)
           B == AlertStrings(q)
           t == SortStrings(A)
           u == SortStrings(B)
           HowOften(s, x) == Cardinality(Places(s, x))
<1>1. PlainPayload(p) /\ PlainPayload(q) /\ A \in Seq(Strings) /\ B \in Seq(Strings)
  BY KeyParts DEF Comparable
<1>2. \A a \in Range(p.alerts) \cup Range(q.alerts) :
         /\ Copies(a, p) = Places(A, AlertString(a))
         /\ Copies(a, q) = Places(B, AlertString(a))
  BY CopiesArePlaces DEF Comparable
<1>3. /\ \A i \in 1..Len(A) : \E a \in Range(p.alerts) : A[i] = AlertString(a)
      /\ \A i \in 1..Len(B) : \E a \in Range(q.alerts) : B[i] = AlertString(a)
  BY <1>1, StringsOfAlerts
<1> HIDE DEF A, B
<1>4. /\ t \in Seq(Strings) /\ InOrder(t) /\ Len(t) = Len(A)
      /\ \A i \in 1..Len(A) : \E k \in 1..Len(A) : t[i] = A[k]
      /\ \A x : HowOften(t, x) = HowOften(A, x)
  BY <1>1, SortFacts
<1>5. /\ u \in Seq(Strings) /\ InOrder(u) /\ Len(u) = Len(B)
      /\ \A i \in 1..Len(B) : \E k \in 1..Len(B) : u[i] = B[k]
      /\ \A x : HowOften(u, x) = HowOften(B, x)
  BY <1>1, SortFacts
<1> HIDE DEF t, u, HowOften
<1>6. SameAlerts(p, q)
        <=> \A a \in Range(p.alerts) \cup Range(q.alerts) : HowOften(A, AlertString(a)) = HowOften(B, AlertString(a))
  BY <1>2 DEF SameAlerts, HowOften
<1>7. ASSUME t = u PROVE SameAlerts(p, q)
  BY <1>4, <1>5, <1>6, <1>7
<1>8. ASSUME SameAlerts(p, q) PROVE t = u
  <2>1. ASSUME NEW i \in 1..Len(t) PROVE HowOften(t, t[i]) = HowOften(u, t[i])
    <3>1. PICK a \in Range(p.alerts) : t[i] = AlertString(a)
      BY <1>3, <1>4
    <3> QED
      BY <1>4, <1>5, <1>6, <1>8, <3>1
  <2>2. ASSUME NEW i \in 1..Len(u) PROVE HowOften(t, u[i]) = HowOften(u, u[i])
    <3>1. PICK a \in Range(q.alerts) : u[i] = AlertString(a)
      BY <1>3, <1>5
    <3> QED
      BY <1>4, <1>5, <1>6, <1>8, <3>1
  <2> QED
    BY <1>4, <1>5, <2>1, <2>2, SameInOrder DEF HowOften
<1> QED
  BY <1>7, <1>8 DEF t, u, A, B

\* All alerts of both have as many fields.
LEMMA SameCount ==
    ASSUME NEW p, NEW q, Comparable(p, q)
    PROVE  \E n \in Nat \ {0, 1} :
              \A a \in Range(p.alerts) \cup Range(q.alerts) : AlertString(a) \in Blocks(n, Bar)
<1> DEFINE R == Range(p.alerts) \cup Range(q.alerts)
<1>1. \A a \in R : PlainAlert(a)
  BY KeyParts DEF Comparable
<1>2. \A a, b \in R : SameFields(a, b) /\ Len(a.tail) = Len(b.tail)
  BY DEF Comparable, Alike
<1> HIDE DEF R
<1>3. CASE R = {}
  <2>1. 2 \in Nat \ {0, 1}
    OBVIOUS
  <2> QED
    BY <1>3, <2>1 DEF R
<1>4. ASSUME NEW b \in R
      PROVE  \E n \in Nat \ {0, 1} : \A a \in R : AlertString(a) \in Blocks(n, Bar)
  <2>1. PICK n \in Nat \ {0, 1} : n = FieldCount(b)
    BY <1>1, AlertFacts
  <2>2. ASSUME NEW a \in R PROVE AlertString(a) \in Blocks(n, Bar)
    <3>1. PlainAlert(a) /\ PlainAlert(b) /\ SameFields(a, b) /\ Len(a.tail) = Len(b.tail)
      BY <1>1, <1>2
    <3>2. FieldCount(a) = n
      BY <2>1, <3>1, AlertBack
    <3>3. AlertString(a) \in Blocks(FieldCount(a), Bar)
      BY <3>1, AlertFacts
    <3> QED
      BY <3>2, <3>3
  <2> QED
    BY <2>2
<1> QED
  BY <1>3, <1>4 DEF R

LEMMA SortedBlocks ==
    ASSUME NEW p, PlainPayload(p), NEW n \in Nat,
           \A a \in Range(p.alerts) : AlertString(a) \in Blocks(n, Bar)
    PROVE  SortStrings(AlertStrings(p)) \in Seq(Blocks(n, Bar))
<1> DEFINE A == AlertStrings(p)
           t == SortStrings(A)
<1>1. A \in Seq(Strings) /\ \A i \in 1..Len(A) : A[i] \in Blocks(n, Bar)
  BY KeyParts
<1> HIDE DEF A
<1>2. /\ t \in Seq(Strings) /\ Len(t) = Len(A)
      /\ \A i \in 1..Len(A) : \E k \in 1..Len(A) : t[i] = A[k]
  BY <1>1, SortFacts
<1> HIDE DEF t
<1>3. \A i \in 1..Len(t) : t[i] \in Blocks(n, Bar)
  BY <1>1, <1>2
<1>4. Len(t) \in Nat /\ t = [i \in 1..Len(t) |-> t[i]]
  BY <1>2
<1>5. t \in [1..Len(t) -> Blocks(n, Bar)]
  BY <1>3, <1>4
<1>6. t \in Seq(Blocks(n, Bar))
  BY <1>4, <1>5
<1> QED
  BY <1>6 DEF t, A

\* ComputeFingerprint tells two webhooks apart if and only if their content differs.
LEMMA KeyIdentity ==
    ASSUME NEW p, NEW q, Comparable(p, q)
    PROVE  ComputeFingerprint(p) = ComputeFingerprint(q) <=> Identical(p, q)
<1> DEFINE h == FrontCount(p)
           f == FrontFields(p)
           g == FrontFields(q)
           A == SortStrings(AlertStrings(p))
           B == SortStrings(AlertStrings(q))
<1>1. PlainPayload(p) /\ PlainPayload(q) /\ SameFields(p, q)
  BY DEF Comparable, Alike
<1>2. PlainFront(p) /\ PlainFront(q) /\ h \in Nat \ {0} /\ f \in Fields(h, Bar)
      /\ g \in Fields(FrontCount(q), Bar)
  BY <1>1, KeyParts
<1>3. /\ h = FrontCount(q)
      /\ f = g <=> p.head = q.head /\ \A i \in DOMAIN p.maps : Range(p.maps[i]) = Range(q.maps[i])
  BY <1>1, <1>2, FrontBack
<1>4. A = B <=> SameAlerts(p, q)
  BY SortedAlerts
<1>5. PICK n \in Nat \ {0, 1} :
         \A a \in Range(p.alerts) \cup Range(q.alerts) : AlertString(a) \in Blocks(n, Bar)
  BY SameCount
<1>6. A \in Seq(Blocks(n, Bar)) /\ B \in Seq(Blocks(n, Bar))
  BY <1>1, <1>5, SortedBlocks
<1>7. /\ ComputeFingerprint(p) = Glued(Join(f, <<Bar>>), Bar, Join(A, <<Bar, Bar>>))
      /\ ComputeFingerprint(q) = Glued(Join(g, <<Bar>>), Bar, Join(B, <<Bar, Bar>>))
  BY KeyString
<1>8. Identical(p, q) <=> f = g /\ A = B
  BY <1>3, <1>4 DEF Identical
<1> HIDE DEF h, f, g, A, B
<1>9. g \in Fields(h, Bar)
  BY <1>2, <1>3
<1>10. ASSUME ComputeFingerprint(p) = ComputeFingerprint(q) PROVE f = g /\ A = B
  <2>1. PICK m \in Nat : m = Len(A)
    BY <1>6
  <2>2. ListsBack(m, h, n, Bar)
    BY <1>2, <1>5, CharFacts, ListBack
  <2>3. Join(f, <<Bar>>) = Join(g, <<Bar>>) /\ A = B
    <3>1. SameKey(f, A, g, B, Bar)
      BY <1>7, <1>10 DEF SameKey
    <3>2. f \in Fields(h, Bar)
      BY <1>2
    <3> QED
      BY <1>6, <1>9, <2>1, <2>2, <3>1, <3>2 DEF ListsBack
  <2>4. f = g
    BY <1>2, <1>9, <2>3, CharFacts, SameJoin
  <2> QED
    BY <2>3, <2>4
<1>11. ASSUME f = g, A = B PROVE ComputeFingerprint(p) = ComputeFingerprint(q)
  BY <1>7, <1>11
<1> QED
  BY <1>8, <1>10, <1>11

-----------------------------------------------------------------------------
\* The lookup.

KeyInv ==
    /\ task = "key" =>
          /\ payload \in Payloads /\ stored \in Payloads
          /\ key = ComputeFingerprint(payload) /\ column = ComputeFingerprint(stored)
    /\ found # "" => task = "key" /\ (found = "row" <=> key = column)

LEMMA KeyInductive == PayloadSpec => []KeyInv
<1>1. PayloadInit => KeyInv
  BY DEF PayloadInit, FingerprintInit, FingerprintIdle, KeyInv
<1>2. KeyInv /\ [PayloadNext]_payloadVars => KeyInv'
  <2> SUFFICES ASSUME KeyInv, [PayloadNext]_payloadVars PROVE KeyInv'
    OBVIOUS
  <2>1. ASSUME RecognisePayload PROVE KeyInv'
    <3>1. /\ task = "key" /\ task' = task /\ payload' = payload /\ stored' = stored
          /\ key' = key /\ column' = column /\ found' = IF key = column THEN "row" ELSE "none"
      BY <2>1 DEF RecognisePayload, LookupKey
    <3>2. /\ payload \in Payloads /\ stored \in Payloads
          /\ key = ComputeFingerprint(payload) /\ column = ComputeFingerprint(stored)
      BY <3>1 DEF KeyInv
    <3>3. (payload \in Payloads /\ stored \in Payloads
          /\ key = ComputeFingerprint(payload) /\ column = ComputeFingerprint(stored))'
      BY <3>1, <3>2 DEF ComputeFingerprint
    <3>4. (found = "row" <=> key = column)'
      BY <3>1
    <3> QED
      BY <3>1, <3>3, <3>4 DEF KeyInv
  <2>2. ASSUME UNCHANGED <<task, fingerprintVars>> PROVE KeyInv'
    BY <2>2 DEF KeyInv, fingerprintVars, ComputeFingerprint
  <2>3. RecognisePayload \/ UNCHANGED <<task, fingerprintVars>>
    BY DEF PayloadNext, PackMessages, CutMessage, SelectLabels, payloadVars
  <2> QED
    BY <2>1, <2>2, <2>3
<1> QED
  BY <1>1, <1>2, PTL DEF PayloadSpec

\* GetByIdempotencyKey finds the row exactly for the webhook it was stored for, however
\* many fields, labels and alerts the two have: the canonical string of a webhook
\* without separators in its strings can be read back, up to the order of its labels
\* and of its alerts, which the two sorts make the same.
THEOREM KeyIsContent == PayloadSpec => []KeyIsTheContent
<1>1. ASSUME NEW p \in Payloads, NEW q \in Payloads, Unambiguous(p), Unambiguous(q)
      PROVE  Comparable(p, q)
  BY <1>1, FingerprintAssumption DEF Comparable, PlainPayload, Alike
<1>2. KeyInv => KeyIsTheContent
  <2> SUFFICES ASSUME KeyInv, found # "", Unambiguous(payload), Unambiguous(stored)
               PROVE  found = "row" <=> Identical(payload, stored)
    BY DEF KeyIsTheContent
  <2>1. /\ payload \in Payloads /\ stored \in Payloads
        /\ key = ComputeFingerprint(payload) /\ column = ComputeFingerprint(stored)
        /\ found = "row" <=> key = column
    BY DEF KeyInv
  <2>2. ComputeFingerprint(payload) = ComputeFingerprint(stored) <=> Identical(payload, stored)
    BY <1>1, <2>1, KeyIdentity
  <2> QED
    BY <2>1, <2>2
<1> QED
  BY <1>2, KeyInductive, PTL
=============================================================================
