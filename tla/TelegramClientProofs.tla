------------------------ MODULE TelegramClientProofs ------------------------
(***************************************************************************)
(* What becomes of a reply of Telegram, for every set of status codes and  *)
(* retry_after values, and the backoff of retries for every base delay,    *)
(* maximum and width of a duration.                                        *)
(***************************************************************************)
EXTENDS TelegramClient, FiniteSetTheorems, FunctionTheorems, WellFoundedInduction, TLAPS

-----------------------------------------------------------------------------
\* Induction over the natural numbers, stated for sets.

Less == {p \in Nat \X Nat : p[1] < p[2]}

LEMMA LessWellFounded == IsWellFoundedOn(Less, Nat)
BY NatLessThanWellFounded DEF OpToRel, Less

LEMMA LeastMember ==
    ASSUME NEW T \in SUBSET Nat, T # {}
    PROVE  \E n \in T : \A m \in T : n <= m
<1>1. PICK x \in T : \A y \in T : ~(<<y, x>> \in Less)
  BY LessWellFounded, WFMin
<1>2. ASSUME NEW y \in T, y < x PROVE FALSE
  <2>1. <<y, x>> \in Nat \X Nat
    OBVIOUS
  <2>2. <<y, x>> \in Less
    BY <1>2, <2>1 DEF Less
  <2> QED
    BY <1>1, <2>2
<1> QED
  BY <1>2

LEMMA SetInduction ==
    ASSUME NEW T \in SUBSET Nat, 0 \in T, \A n \in T : n + 1 \in T
    PROVE  T = Nat
<1> SUFFICES ASSUME Nat \ T # {} PROVE FALSE
  OBVIOUS
<1>1. PICK n \in Nat \ T : \A m \in Nat \ T : n <= m
  BY LeastMember
<1>2. n # 0
  OBVIOUS
<1>3. n - 1 \in Nat /\ n - 1 \notin T
  BY <1>2
<1> QED
  BY <1>1, <1>3

-----------------------------------------------------------------------------
\* Powers of two, as the numbers of subsets.

LEMMA PowerOfTwo ==
    ASSUME NEW n \in Nat
    PROVE  /\ IsFiniteSet(SUBSET (1..n)) /\ Cardinality(SUBSET (1..n)) = 2 ^ n
           /\ 2 ^ n \in Nat
<1>1. IsFiniteSet(1..n) /\ Cardinality(1..n) = n
  BY FS_Interval
<1>2. IsFiniteSet(SUBSET (1..n)) /\ Cardinality(SUBSET (1..n)) = 2 ^ Cardinality(1..n)
  BY <1>1, FS_SUBSET
<1>3. Cardinality(SUBSET (1..n)) \in Nat
  BY <1>2, FS_CardinalityType
<1> QED
  BY <1>1, <1>2, <1>3

LEMMA PowerDoubles ==
    ASSUME NEW n \in Nat
    PROVE  2 ^ (n + 1) = 2 * 2 ^ n
<1> DEFINE A == SUBSET (1..n)
           B == {S \cup {n + 1} : S \in A}
           f == [S \in A |-> S \cup {n + 1}]
<1>1. IsFiniteSet(A) /\ Cardinality(A) = 2 ^ n /\ 2 ^ n \in Nat
  BY PowerOfTwo
<1>2. IsFiniteSet(B) /\ Cardinality(B) = Cardinality(A)
  <2>1. f \in [A -> B]
    OBVIOUS
  <2>2. \A S, T \in A : f[S] = f[T] => S = T
    <3> SUFFICES ASSUME NEW S \in A, NEW T \in A, S \cup {n + 1} = T \cup {n + 1} PROVE S = T
      OBVIOUS
    <3>1. n + 1 \notin S /\ n + 1 \notin T
      OBVIOUS
    <3> QED
      BY <3>1
  <2>3. \A T \in B : \E S \in A : f[S] = T
    OBVIOUS
  <2>4. f \in Injection(A, B) /\ f \in Surjection(A, B)
    BY <2>1, <2>2, <2>3, Fun_IsInj, Fun_IsSurj
  <2>5. ExistsBijection(A, B)
    BY <2>4 DEF ExistsBijection, Bijection
  <2> QED
    BY <1>1, <2>5, FS_Bijection
<1>3. A \cap B = {}
  <2> SUFFICES ASSUME NEW S \in A, n + 1 \in S PROVE FALSE
    OBVIOUS
  <2> QED
    OBVIOUS
<1>4. A \cup B = SUBSET (1..(n + 1))
  <2>1. ASSUME NEW S \in SUBSET (1..(n + 1)), n + 1 \in S PROVE S \in B
    <3>1. S \ {n + 1} \in A /\ S = (S \ {n + 1}) \cup {n + 1}
      BY <2>1
    <3> QED
      BY <3>1
  <2>2. ASSUME NEW S \in SUBSET (1..(n + 1)), n + 1 \notin S PROVE S \in A
    BY <2>2
  <2>3. A \cup B \subseteq SUBSET (1..(n + 1))
    <3>1. \A S \in A : S \subseteq 1..(n + 1)
      OBVIOUS
    <3>2. n + 1 \in 1..(n + 1)
      OBVIOUS
    <3> QED
      BY <3>1, <3>2
  <2> QED
    BY <2>1, <2>2, <2>3
<1>5. Cardinality(SUBSET (1..(n + 1))) = 2 ^ (n + 1)
  BY PowerOfTwo
<1>6. Cardinality(A \cap B) = 0
  BY <1>3, FS_EmptySet
<1> HIDE DEF A, B, f
<1>7. Cardinality(A \cup B) = Cardinality(A) + Cardinality(B) - Cardinality(A \cap B)
  BY <1>1, <1>2, FS_Union
<1>8. Cardinality(A \cup B) = 2 ^ n + 2 ^ n
  BY <1>1, <1>2, <1>6, <1>7
<1>9. Cardinality(A \cup B) = 2 ^ (n + 1)
  BY <1>4, <1>5
<1> QED
  BY <1>1, <1>8, <1>9

LEMMA PowerIsPositive == \A n \in Nat : 2 ^ n \in Nat /\ 2 ^ n > 0
<1> DEFINE T == {n \in Nat : 2 ^ n \in Nat /\ 2 ^ n > 0}
<1>1. 0 \in T
  <2>1. 2 ^ 0 = 1
    OBVIOUS
  <2> QED
    BY <2>1
<1>2. \A n \in T : n + 1 \in T
  BY PowerDoubles
<1>3. T = Nat
  <2> HIDE DEF T
  <2>1. T \in SUBSET Nat
    BY DEF T
  <2> QED
    BY <1>1, <1>2, <2>1, SetInduction
<1> QED
  BY <1>3

-----------------------------------------------------------------------------
\* Durations.

\* The numbers a duration holds stay as they are, the others become some duration.
LEMMA WrapFits ==
    ASSUME NEW n \in Int
    PROVE  Wrap(n) \in Int /\ (0 <= n /\ n < 2 ^ (Width - 1) => Wrap(n) = n)
<1> DEFINE H == 2 ^ (Width - 1)
<1>1. H \in Nat /\ H > 0
  BY ClientAssumption, PowerIsPositive
<1>2. 2 ^ Width = 2 * H
  <2>1. Width - 1 \in Nat /\ (Width - 1) + 1 = Width
    BY ClientAssumption
  <2>2. 2 ^ ((Width - 1) + 1) = 2 * 2 ^ (Width - 1)
    BY <2>1, PowerDoubles
  <2> QED
    BY <2>1, <2>2
<1>3. Wrap(n) = ((n + H) % (2 * H)) - H
  BY <1>2 DEF Wrap
<1> HIDE DEF H
<1>4. (n + H) % (2 * H) \in Int
  BY <1>1
<1>5. ASSUME 0 <= n, n < H PROVE Wrap(n) = n
  <2>1. (n + H) % (2 * H) = n + H
    BY <1>1, <1>5
  <2> QED
    BY <1>1, <1>3, <2>1
<1>6. Wrap(n) \in Int
  BY <1>1, <1>3, <1>4
<1> QED
  BY <1>5, <1>6 DEF H

-----------------------------------------------------------------------------
\* The backoff.

LEMMA MinOfTwo == ASSUME NEW a \in Int, NEW b \in Int PROVE Min({a, b}) = IF a <= b THEN a ELSE b
BY DEF Min

LEMMA MaxOfTwo == ASSUME NEW a \in Int, NEW b \in Int PROVE Max({a, b}) = IF a >= b THEN a ELSE b
BY DEF Max

\* Twice a delay that is not above the maximum either fits into a duration or
\* comes out negative, which backoff takes for the maximum.
LEMMA DoubleCaps ==
    ASSUME NEW d \in 1..RetryMaxDelay
    PROVE  Double(d) = IF 2 * d <= RetryMaxDelay THEN 2 * d ELSE RetryMaxDelay
<1> DEFINE H == 2 ^ (Width - 1)
<1>1. RetryMaxDelay \in Nat /\ RetryMaxDelay < H /\ H \in Nat /\ H > 0
  BY ClientAssumption, PowerIsPositive
<1>2. 2 ^ Width = 2 * H
  <2>1. Width - 1 \in Nat /\ (Width - 1) + 1 = Width
    BY ClientAssumption
  <2>2. 2 ^ ((Width - 1) + 1) = 2 * 2 ^ (Width - 1)
    BY <2>1, PowerDoubles
  <2> QED
    BY <2>1, <2>2
<1>3. Wrap(2 * d) = ((2 * d + H) % (2 * H)) - H
  BY <1>2 DEF Wrap
<1> HIDE DEF H
<1>4. d \in Nat /\ d > 0 /\ d < H
  BY <1>1
<1>5. CASE 2 * d < H
  <2>1. (2 * d + H) % (2 * H) = 2 * d + H
    BY <1>1, <1>4, <1>5
  <2>2. Wrap(2 * d) = 2 * d
    BY <1>1, <1>3, <1>4, <2>1
  <2> QED
    BY <1>1, <1>4, <2>2 DEF Double
<1>6. CASE 2 * d >= H
  <2>1. (2 * d + H) % (2 * H) = 2 * d - H
    BY <1>1, <1>4, <1>6
  <2>2. Wrap(2 * d) = 2 * d - 2 * H
    BY <1>1, <1>3, <1>4, <2>1
  <2>3. Wrap(2 * d) <= 0 /\ 2 * d > RetryMaxDelay
    BY <1>1, <1>4, <1>6, <2>2
  <2> QED
    BY <1>1, <1>4, <2>3 DEF Double
<1> QED
  BY <1>1, <1>4, <1>5, <1>6

\* The reference grows by doubling up to the maximum.
LEMMA ExponentialGrows ==
    /\ Exponential(1) = RetryBaseDelay
    /\ \A n \in Nat \ {0} : /\ Exponential(n) \in 1..RetryMaxDelay
                            /\ Exponential(n + 1) = Double(Exponential(n))
<1>1. RetryBaseDelay \in Nat /\ RetryBaseDelay > 0 /\ RetryMaxDelay \in Nat
      /\ RetryBaseDelay <= RetryMaxDelay
  BY ClientAssumption
<1>2. ASSUME NEW n \in Nat \ {0}
      PROVE  /\ 2 ^ (n - 1) \in Nat /\ 2 ^ (n - 1) > 0 /\ 2 ^ n = 2 * 2 ^ (n - 1)
             /\ RetryBaseDelay * 2 ^ (n - 1) \in Nat /\ RetryBaseDelay * 2 ^ (n - 1) > 0
             /\ RetryBaseDelay * 2 ^ n = 2 * (RetryBaseDelay * 2 ^ (n - 1))
  <2>1. n - 1 \in Nat /\ (n - 1) + 1 = n
    OBVIOUS
  <2>2. 2 ^ ((n - 1) + 1) = 2 * 2 ^ (n - 1) /\ 2 ^ (n - 1) \in Nat /\ 2 ^ (n - 1) > 0
    BY <2>1, PowerDoubles, PowerIsPositive
  <2>3. PICK p \in Nat : p = 2 ^ (n - 1)
    BY <2>2
  <2>4. 2 ^ n = 2 * p /\ p > 0
    BY <2>1, <2>2, <2>3
  <2>5. RetryBaseDelay * p \in Nat /\ RetryBaseDelay * p > 0
        /\ RetryBaseDelay * (2 * p) = 2 * (RetryBaseDelay * p)
    BY <1>1, <2>4
  <2> QED
    BY <2>3, <2>4, <2>5
<1>3. ASSUME NEW n \in Nat \ {0}
      PROVE  Exponential(n) = IF RetryBaseDelay * 2 ^ (n - 1) <= RetryMaxDelay
                              THEN RetryBaseDelay * 2 ^ (n - 1) ELSE RetryMaxDelay
  BY <1>1, <1>2, MinOfTwo DEF Exponential
<1>4. Exponential(1) = RetryBaseDelay
  <2>1. RetryBaseDelay * 2 ^ (1 - 1) = RetryBaseDelay
    <3>1. 2 ^ 0 = 1 /\ 1 - 1 = 0
      OBVIOUS
    <3> QED
      BY <1>1, <3>1
  <2>2. Exponential(1) = Min({RetryBaseDelay, RetryMaxDelay})
    BY <2>1 DEF Exponential
  <2> QED
    BY <1>1, <2>2, MinOfTwo
<1>5. ASSUME NEW n \in Nat \ {0}
      PROVE  /\ Exponential(n) \in 1..RetryMaxDelay
             /\ Exponential(n + 1) = Double(Exponential(n))
  <2> DEFINE x == RetryBaseDelay * 2 ^ (n - 1)
             y == RetryBaseDelay * 2 ^ n
  <2>1. x \in Nat /\ x > 0 /\ y = 2 * x
    BY <1>2
  <2>2. Exponential(n) = IF x <= RetryMaxDelay THEN x ELSE RetryMaxDelay
    BY <1>3
  <2>3. Exponential(n + 1) = IF y <= RetryMaxDelay THEN y ELSE RetryMaxDelay
    <3>1. n + 1 \in Nat \ {0} /\ (n + 1) - 1 = n
      OBVIOUS
    <3> QED
      BY <1>3, <3>1
  <2> HIDE DEF x, y
  <2>4. Exponential(n) \in 1..RetryMaxDelay
    BY <1>1, <2>1, <2>2
  <2>5. Double(Exponential(n)) = IF 2 * Exponential(n) <= RetryMaxDelay
                                 THEN 2 * Exponential(n) ELSE RetryMaxDelay
    BY <2>4, DoubleCaps
  <2> QED
    BY <1>1, <2>1, <2>2, <2>3, <2>4, <2>5
<1> QED
  BY <1>4, <1>5

IsDelay(g, n) ==
    g = [k \in 1..n |-> IF k = 1 THEN RetryBaseDelay ELSE Double(g[k - 1])]

\* The loop of backoff computes the exponential delay.
LEMMA BackoffValue == \A n \in Nat \ {0} : backoff(n) = Exponential(n)
<1> SUFFICES ASSUME NEW n \in Nat \ {0} PROVE backoff(n) = Exponential(n)
  OBVIOUS
<1>1. \E g : IsDelay(g, n)
  <2> DEFINE e == [k \in 1..n |-> Exponential(k)]
  <2>1. ASSUME NEW k \in 1..n
        PROVE  e[k] = IF k = 1 THEN RetryBaseDelay ELSE Double(e[k - 1])
    <3>1. CASE k = 1
      BY <3>1, ExponentialGrows
    <3>2. CASE k # 1
      <4>1. k - 1 \in Nat \ {0} /\ k - 1 \in 1..n /\ (k - 1) + 1 = k
        BY <3>2
      <4>2. Exponential((k - 1) + 1) = Double(Exponential(k - 1))
        BY <4>1, ExponentialGrows
      <4> QED
        BY <3>2, <4>1, <4>2
    <3> QED
      BY <3>1, <3>2
  <2>2. IsDelay(e, n)
    BY <2>1 DEF IsDelay
  <2> QED
    BY <2>2
<1>2. PICK g : IsDelay(g, n) /\ backoff(n) = g[n]
  BY <1>1 DEF backoff, IsDelay
<1>3. \A k \in 1..n : g[k] = IF k = 1 THEN RetryBaseDelay ELSE Double(g[k - 1])
  BY <1>2 DEF IsDelay
<1> DEFINE T == {k \in Nat : k + 1 <= n => g[k + 1] = Exponential(k + 1)}
<1>4. 0 \in T
  <2>1. g[1] = RetryBaseDelay
    BY <1>3
  <2> QED
    BY <2>1, ExponentialGrows
<1>5. \A k \in T : k + 1 \in T
  <2> SUFFICES ASSUME NEW k \in T, (k + 1) + 1 <= n PROVE g[(k + 1) + 1] = Exponential((k + 1) + 1)
    OBVIOUS
  <2>1. g[k + 1] = Exponential(k + 1)
    OBVIOUS
  <2>2. (k + 1) + 1 \in 1..n /\ (k + 1) + 1 # 1 /\ ((k + 1) + 1) - 1 = k + 1
        /\ k + 1 \in Nat \ {0}
    OBVIOUS
  <2>3. g[(k + 1) + 1] = Double(g[k + 1])
    BY <1>3, <2>2
  <2> QED
    BY <2>1, <2>2, <2>3, ExponentialGrows
<1>6. T = Nat
  <2> HIDE DEF T
  <2>1. T \in SUBSET Nat
    BY DEF T
  <2> QED
    BY <1>4, <1>5, <2>1, SetInduction
<1>7. n - 1 \in Nat /\ (n - 1) + 1 = n
  OBVIOUS
<1>8. n - 1 \in T
  <2> HIDE DEF T
  <2> QED
    BY <1>6, <1>7
<1>9. g[n] = Exponential(n)
  BY <1>7, <1>8
<1> QED
  BY <1>2, <1>9


-----------------------------------------------------------------------------
\* What the handlers establish.

\* The fields of a reply.
LEMMA ReplyFields ==
    ASSUME NEW r \in Reply
    PROVE  /\ r.status \in 200..599 /\ r.code \in 200..599 \cup {0}
           /\ r.after \in Int /\ r.header \in Int
           /\ r.date \in Int /\ r.date >= 0 /\ r.date < 2 ^ (Width - 1)
           /\ r.body \in Bodies /\ r.net \in NetErrors \cup {"none"}
<1>1. HttpStatuses \subseteq 200..599 /\ RetryAfters \subseteq Int
  BY ClientAssumption
<1>2. /\ r.status \in HttpStatuses /\ r.code \in HttpStatuses \cup {0}
      /\ r.after \in RetryAfters \cup {0} /\ r.header \in RetryAfters \cup {0}
      /\ r.body \in Bodies /\ r.net \in NetErrors \cup {"none"}
  BY DEF Reply
<1>3. r.status \in 200..599 /\ r.code \in 200..599 \cup {0}
  <2> DEFINE S == 200..599
  <2>1. HttpStatuses \subseteq S
    BY <1>1
  <2> HIDE DEF S
  <2>2. r.status \in S /\ r.code \in S \cup {0}
    BY <1>2, <2>1
  <2> QED
    BY <2>2 DEF S
<1>4. RetryAfters \cup {0} \subseteq Int
  BY <1>1
<1>5. r.after \in Int /\ r.header \in Int
  BY <1>2, <1>4, Zenon
<1>6. r.date \in Int /\ r.date >= 0 /\ r.date < 2 ^ (Width - 1)
  <2>1. r.date \in Dates \cup {0}
    BY DEF Reply
  <2>2. 2 ^ (Width - 1) \in Nat /\ 2 ^ (Width - 1) > 0
    BY ClientAssumption, PowerIsPositive
  <2>3. PICK h \in Nat : h = 2 ^ (Width - 1) /\ h > 0 /\ Dates \subseteq 1..(h - 1)
    BY <2>2, ClientAssumption
  <2>4. r.date \in 1..(h - 1) \cup {0}
    BY <2>1, <2>3
  <2>5. r.date \in Int /\ r.date >= 0 /\ r.date < h
    BY <2>3, <2>4
  <2> QED
    BY <2>3, <2>5
<1> QED
  BY <1>2, <1>3, <1>5, <1>6

States == {"open", "error", "waiting", "delivered", "failed", "dead_letter"}

\* The reply at hand is one that may come back, and belongs to an attempt.
ReplyOK == state # "open" => last \in Replies /\ attempt # 0

\* The verdict follows from the reply.
VerdictOK ==
    /\ state = "delivered" => Sent(last)
    /\ state \in {"error", "failed"} => ~Sent(last)
    /\ state \in {"error", "failed"} /\ last.net = "canceled" => cancelled
    /\ state = "failed" => ~cancelled /\ ~APIError(last).retryable

\* A retry that was not put off by a shutdown waits for its backoff.
WaitOK == state = "waiting" /\ ~cancelled => wait \in NextRetry(attempt, APIError(last).after)

ClientInv ==
    /\ state \in States /\ attempt \in Nat /\ cancelled \in BOOLEAN
    /\ ReplyOK /\ VerdictOK /\ WaitOK

LEMMA ClientInductive == Spec => []ClientInv
<1>1. Init => ClientInv
  <2> SUFFICES ASSUME Init PROVE ClientInv
    OBVIOUS
  <2>1. state = "open" /\ attempt = 0 /\ cancelled = FALSE
    BY DEF Init
  <2>2. VerdictOK
    BY <2>1 DEF VerdictOK
  <2> QED
    BY <2>1, <2>2 DEF ClientInv, States, ReplyOK, WaitOK
<1>2. ClientInv /\ [Next]_vars => ClientInv'
  <2> SUFFICES ASSUME ClientInv, [Next]_vars PROVE ClientInv'
    OBVIOUS
  <2> USE DEF ClientInv, States, ReplyOK, VerdictOK, WaitOK
  <2>1. CASE Send
    <3>1. PICK r \in Replies, c \in BOOLEAN :
             /\ r.net = "canceled" => c
             /\ last' = r
             /\ cancelled' = (c /\ ~Sent(r))
             /\ state' = IF Sent(r) THEN "delivered" ELSE "error"
      BY <2>1 DEF Send
    <3>2. attempt' \in Nat /\ attempt' # 0
      BY <2>1 DEF Send
    <3>3. ReplyOK' /\ cancelled' \in BOOLEAN /\ state' \in States
      BY <3>1, <3>2
    <3>4. VerdictOK'
      <4>1. CASE Sent(r)
        BY <3>1, <4>1
      <4>2. CASE ~Sent(r)
        BY <3>1, <4>2
      <4> QED
        BY <4>1, <4>2
    <3>5. WaitOK'
      BY <3>1
    <3> QED
      BY <3>2, <3>3, <3>4, <3>5
  <2>2. CASE Abort
    BY <2>2 DEF Abort
  <2>3. CASE Refuse
    BY <2>3 DEF Refuse
  <2>4. CASE Exhaust
    BY <2>4 DEF Exhaust
  <2>5. CASE Schedule
    BY <2>5 DEF Schedule
  <2>6. CASE Elapse
    BY <2>6 DEF Elapse
  <2>7. CASE UNCHANGED vars
    BY <2>7 DEF vars
  <2> QED
    BY <2>1, <2>2, <2>3, <2>4, <2>5, <2>6, <2>7 DEF Next
<1> QED
  BY <1>1, <1>2, PTL DEF Spec

\* A reply that is not retried has a status code in 400..499, as its status or
\* in its body, and Telegram posts nothing it answers with one, nor is it the
\* code that puts off: handleSendError writes off only what the chat did not get and
\* would not take.
THEOREM SoundVerdicts == Spec => []VerdictIsSound
<1>1. ClientInv => VerdictIsSound
  <2> SUFFICES ASSUME ClientInv PROVE VerdictIsSound
    OBVIOUS
  <2>1. ASSUME state = "delivered" PROVE last.posted
    BY <2>1 DEF ClientInv, ReplyOK, VerdictOK, Sent, Replies, Possible
  <2>2. ASSUME state = "failed" PROVE ~last.posted /\ ~Throttled(last)
    <3>1. last \in Reply /\ Possible(last) /\ ~Sent(last) /\ ~APIError(last).retryable
          /\ last.net # "canceled"
      BY <2>2 DEF ClientInv, ReplyOK, VerdictOK, Replies
    <3>2. last.net = "none" /\ last.body \notin {"cut", "huge"}
          /\ ~Retryable(StatusCode(last), last.body = "garbage")
      BY <3>1 DEF APIError
    <3>3. last.status \in 200..599 /\ last.code \in 200..599 \cup {0}
          /\ last.body \in {"json", "garbage"}
      BY <3>1, <3>2, ReplyFields DEF Bodies
    <3>4. StatusCode(last) # 429 /\ StatusCode(last) < 500
          /\ (last.body = "garbage" => StatusCode(last) >= 400)
      BY <3>2, <3>3 DEF Retryable, StatusCode
    <3>5. StatusCode(last) >= 400 => ~last.posted
      BY <3>1, <3>3, <3>4 DEF StatusCode, Possible
    <3>6. StatusCode(last) < 400 => ~last.posted
      <4>1. SUFFICES ASSUME StatusCode(last) < 400 PROVE ~last.posted
        OBVIOUS
      <4>2. last.status < 400 /\ last.body = "json"
        BY <3>3, <3>4, <4>1 DEF StatusCode
      <4> QED
        BY <3>1, <3>2, <4>2 DEF Sent, Possible
    <3>7. ~Throttled(last)
      BY <3>3, <3>4 DEF Throttled, StatusCode
    <3>8. StatusCode(last) \in Int
      BY <3>3 DEF StatusCode
    <3> QED
      BY <3>5, <3>6, <3>7, <3>8
  <2> QED
    BY <2>1, <2>2 DEF VerdictIsSound
<1> QED
  BY <1>1, ClientInductive, PTL

\* What is asked for a retry comes out as a duration, and as what was asked if that
\* is one.
LEMMA AfterFits ==
    ASSUME NEW r \in Reply
    PROVE  /\ RetryAfter(r) \in Int /\ Asked(r) \in Int
           /\ Asked(r) < 2 ^ (Width - 1) => Asked(r) < 0 \/ RetryAfter(r) = Asked(r)
<1>1. /\ r.after \in Int /\ r.header \in Int
      /\ r.date \in Int /\ r.date >= 0
  BY ReplyFields
<1>2. Second \in Nat /\ Second > 0
  BY ClientAssumption
<1>3. ASSUME NEW n \in Int
      PROVE  /\ n * Second \in Int
             /\ n = 0 => n * Second = 0
             /\ n > 0 => n * Second > 0
             /\ n < 0 => n * Second < 0
  BY <1>2
<1>4. ASSUME NEW n \in Int
      PROVE  /\ Seconds(n) \in Int
             /\ 0 <= n * Second /\ n * Second < 2 ^ (Width - 1) => Seconds(n) = n * Second
  <2>1. n * Second \in Int
    BY <1>3
  <2> QED
    BY <2>1, WrapFits DEF Seconds
<1>5. RetryAfter(r) \in Int /\ Asked(r) \in Int
  BY <1>1, <1>3, <1>4 DEF RetryAfter, Asked
<1>6. ASSUME Asked(r) < 2 ^ (Width - 1), Asked(r) >= 0 PROVE RetryAfter(r) = Asked(r)
  <2>1. CASE r.after # 0
    <3>1. Asked(r) = r.after * Second
      BY <2>1 DEF Asked
    <3>2. r.after * Second # 0
      BY <1>1, <1>3, <2>1
    <3>3. Seconds(r.after) = r.after * Second
      BY <1>1, <1>4, <1>6, <3>1
    <3> QED
      BY <3>1, <3>2, <3>3 DEF RetryAfter
  <2>2. CASE r.after = 0
    <3>1. Seconds(r.after) = 0
      <4>1. r.after * Second = 0 /\ 2 ^ (Width - 1) \in Nat /\ 2 ^ (Width - 1) > 0
        BY <1>1, <1>3, <2>2, ClientAssumption, PowerIsPositive
      <4> QED
        BY <1>1, <1>4, <4>1
    <3>2. CASE r.header > 0
      <4>1. Asked(r) = r.header * Second
        BY <2>2, <3>2 DEF Asked
      <4>2. Seconds(r.header) = r.header * Second
        BY <1>1, <1>4, <1>6, <4>1
      <4> QED
        BY <3>1, <3>2, <4>1, <4>2 DEF RetryAfter
    <3>3. CASE ~(r.header > 0)
      BY <2>2, <3>1, <3>3 DEF RetryAfter, Asked
    <3> QED
      BY <3>2, <3>3
  <2> QED
    BY <2>1, <2>2
<1> QED
  BY <1>5, <1>6

LEMMA AfterIsInt ==
    ASSUME NEW r \in Replies
    PROVE  APIError(r).after \in Int
<1>1. r \in Reply
  BY DEF Replies
<1>2. RetryAfter(r) \in Int
  BY <1>1, AfterFits
<1> QED
  BY <1>2 DEF APIError

\* A scheduled wait lies between half the exponential delay and the delay,
\* unless it is what Telegram asked for.
LEMMA WaitIsBounded ==
    ASSUME NEW n \in Nat \ {0}, NEW a \in Int, NEW w \in NextRetry(n, a)
    PROVE  /\ w \in Int
           /\ w >= a
           /\ w >= 0
           /\ 2 * w >= Exponential(n) - 1
           /\ w < Exponential(n) \/ w = a
<1> DEFINE d == Exponential(n)
<1>1. d \in Nat /\ d >= 1 /\ backoff(n) = d
  BY ExponentialGrows, BackoffValue, ClientAssumption
<1>2. PICK j \in Jittered(d) : w = Max({j, a})
  BY <1>1 DEF NextRetry
<1> HIDE DEF d
<1>3. j \in (d \div 2)..(d - 1)
  BY <1>1, <1>2 DEF Jittered
<1>4. d \div 2 \in Nat /\ 2 * (d \div 2) >= d - 1
  BY <1>1
<1>5. j \in Int /\ j >= 0 /\ 2 * j >= d - 1 /\ j < d
  BY <1>1, <1>3, <1>4
<1>6. w = IF j >= a THEN j ELSE a
  BY <1>2, <1>5, MaxOfTwo
<1>7. /\ w \in Int
      /\ w >= a
      /\ w >= 0
      /\ 2 * w >= d - 1
      /\ w < d \/ w = a
  BY <1>1, <1>5, <1>6
<1> QED
  BY <1>7 DEF d

\* What is asked for, from the body or from the header, with 429 as the status or in
\* the body, is a lower bound of every wait scheduled after it, for every width of a
\* duration that holds it.
THEOREM ThrottleRespected == Spec => []ThrottleIsRespected
<1>1. ClientInv => ThrottleIsRespected
  <2> SUFFICES ASSUME ClientInv, state = "waiting", ~cancelled, Throttled(last),
                      last.body \in {"json", "garbage"}, Asked(last) < 2 ^ (Width - 1)
               PROVE  wait >= Asked(last)
    BY DEF ThrottleIsRespected
  <2>1. last \in Replies /\ attempt \in Nat \ {0}
        /\ wait \in NextRetry(attempt, APIError(last).after)
    BY DEF ClientInv, ReplyOK, WaitOK
  <2>2. APIError(last).after \in Int
    BY <2>1, AfterIsInt
  <2>3. wait \in Int /\ wait >= APIError(last).after /\ wait >= 0
    BY <2>1, <2>2, WaitIsBounded
  <2>4. APIError(last).after = RetryAfter(last)
    BY DEF Throttled, APIError
  <2>5. /\ RetryAfter(last) \in Int /\ Asked(last) \in Int
        /\ Asked(last) < 0 \/ RetryAfter(last) = Asked(last)
    BY <2>1, AfterFits DEF Replies
  <2> QED
    BY <2>3, <2>4, <2>5
<1> QED
  BY <1>1, ClientInductive, PTL

\* The doubling loop of backoff, overflow and all, is the exponential delay.
THEOREM ExponentialBackoff == Spec => []BackoffIsExponential
<1>1. ClientInv => BackoffIsExponential
  <2> SUFFICES ASSUME ClientInv, state = "waiting", ~cancelled
               PROVE  /\ 2 * wait >= Exponential(attempt) - 1
                      /\ wait < Exponential(attempt) \/ wait = APIError(last).after
    BY DEF BackoffIsExponential
  <2>1. last \in Replies /\ attempt \in Nat \ {0}
        /\ wait \in NextRetry(attempt, APIError(last).after)
    BY DEF ClientInv, ReplyOK, WaitOK
  <2>2. APIError(last).after \in Int
    BY <2>1, AfterIsInt
  <2> QED
    BY <2>1, <2>2, WaitIsBounded
<1> QED
  BY <1>1, ClientInductive, PTL
=============================================================================
