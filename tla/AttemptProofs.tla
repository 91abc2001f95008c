--------------------------- MODULE AttemptProofs ---------------------------
(***************************************************************************)
(* The number of attempts, for every number of requests, events and        *)
(* faults: attempts beyond MAX_DELIVERY_ATTEMPTS are paid for by faults, a *)
(* dead letter has had its attempts refused, and a row in 'sending' has an *)
(* owner unless a fault took it away.                                      *)
(*                                                                         *)
(* The argument counts chances: the goroutines whose attempt may still end *)
(* in another one, and the row itself (NoThread) while it waits for a      *)
(* claim.  An attempt spends the chance of the row; only a fault or a late *)
(* MarkQueued adds one.                                                    *)
(***************************************************************************)
EXTENDS ChatProofs, Integers

Extra(k) == IF k \in overwritten THEN 1 ELSE 0

\* The faults that may have cost event k an attempt.
Paid(k) == 2 * restarts + disconnects + storeErrors + Extra(k)

\* The attempts that faults have paid for.  A stop counts twice, for the worker
\* that SIGTERM interrupts and for the row that RequeueSending queues again; until
\* the process is up again only the first is spent.
Credit(k) == Paid(k) - (IF phase = "up" THEN 0 ELSE 1)

Waiting(k) == IF db[k].status \in Pending THEN {NoThread} ELSE {}

\* Whoever may claim the row or give it back to be claimed.
Tokens(k) == Owners(k) \cup Waiting(k)

\* An attempt that may end with another one to come.
Hopeful(t) ==
    IF pc[t] = "settle" THEN job[t].to = "retry_scheduled"
                        ELSE Cancelled(t) \/ job[t].attempts < MaxDeliveryAttempts

Chances(k) == {t \in Owners(k) : Hopeful(t)} \cup Waiting(k)

\* An attempt that Telegram or a fault has already ended.
Over(t) ==
    IF pc[t] = "settle" THEN job[t].to \in {"retry_scheduled", "dead_letter"} ELSE Cancelled(t)

Accounted(k) == {t \in Owners(k) : Over(t)} \cup Waiting(k)

\* b and one more for each member of S, of which there are two at most, is at most n.
Fits(S, b, n) ==
    b <= n /\ (\A x \in S : b + 1 <= n) /\ \A x, y \in S : x = y \/ b + 2 <= n

TwoAtMost(S) == \A x, y, z \in S : x = y \/ y = z \/ x = z

QueueOK(k) ==
    \A t, u \in Writers(k) : pc[t] = "queue" /\ pc[u] = "queue" => t = u /\ k \notin overwritten

CountOK(k) == \A t \in Owners(k) : job[t].attempts <= db[k].attempts

ChanceOK(k) == Fits(Chances(k), db[k].attempts, MaxDeliveryAttempts + Credit(k))

TriesOK(k) ==
    \/ tries[k] >= MaxDeliveryAttempts
    \/ Fits(Accounted(k), db[k].attempts, tries[k] + Credit(k) + 1)

Dead(t) == pc[t] = "settle" /\ job[t].to = "dead_letter"

DeadOK(k) ==
    db[k].status = "dead_letter" \/ (\E t \in Owners(k) : Dead(t))
        => tries[k] + Paid(k) >= MaxDeliveryAttempts

OwnedOK(k) ==
    phase = "up" /\ disconnects = 0 /\ storeErrors = 0 /\ db[k].status = "sending"
        => Owners(k) # {}

EventOK(k) ==
    /\ QueueOK(k) /\ TwoAtMost(Tokens(k)) /\ CountOK(k)
    /\ ChanceOK(k) /\ TriesOK(k) /\ DeadOK(k) /\ OwnedOK(k)

FaultsOK ==
    /\ phase # "up" => restarts >= 1
    /\ gone # {} => disconnects >= 1

AttemptInv == ClaimInv /\ FaultsOK /\ \A k \in Keys : EventOK(k)

-----------------------------------------------------------------------------
\* Counting.

\* Nothing is added.
LEMMA FitsShrink ==
    ASSUME NEW S, NEW R, NEW b \in Nat, NEW n \in Int, NEW m \in Int, Fits(S, b, n),
           R \subseteq S, n <= m
    PROVE  Fits(R, b, m)
BY DEF Fits

\* A fault pays for x.
LEMMA FitsPaid ==
    ASSUME NEW S, NEW R, NEW b \in Nat, NEW n \in Int, NEW m \in Int, Fits(S, b, n),
           NEW x, R \subseteq S \cup {x}, n + 1 <= m
    PROVE  Fits(R, b, m)
BY DEF Fits

\* x hands its chance to y.
LEMMA FitsMove ==
    ASSUME NEW S, NEW R, NEW b \in Nat, NEW n \in Int, NEW m \in Int, Fits(S, b, n),
           NEW x \in S, NEW y, R \subseteq (S \ {x}) \cup {y}, n <= m
    PROVE  Fits(R, b, m)
<1>1. \A u \in S \ {x} : b + 2 <= n
  BY DEF Fits
<1> QED
  BY <1>1 DEF Fits

\* x spends its chance.
LEMMA FitsSpend ==
    ASSUME NEW S, NEW R, NEW b \in Nat, NEW n \in Int, NEW m \in Int, Fits(S, b, n),
           NEW x \in S, R \subseteq S \ {x}, TwoAtMost(S), n <= m
    PROVE  Fits(R, b + 1, m)
<1>1. b + 1 <= n /\ \A u \in R : b + 2 <= n
  BY DEF Fits
<1>2. \A u, v \in R : u = v
  BY DEF TwoAtMost
<1> QED
  BY <1>1, <1>2 DEF Fits

\* The types the counting rests on.
LEMMA CreditType ==
    ASSUME TypeOK, FaultsOK, NEW k \in Keys
    PROVE  /\ Credit(k) \in Int /\ Paid(k) \in Nat /\ Extra(k) \in {0, 1}
           /\ Extra(k) <= Credit(k) /\ Credit(k) <= Paid(k)
           /\ db[k].attempts \in Nat /\ tries[k] \in Nat
           /\ MaxDeliveryAttempts \in Nat /\ MaxDeliveryAttempts >= 1
<1>1. restarts \in Nat /\ disconnects \in Nat /\ storeErrors \in Nat
  BY DEF TypeOK
<1>2. db[k].attempts \in Nat /\ tries[k] \in Nat
  BY DEF TypeOK, Row
<1>3. MaxDeliveryAttempts \in Nat /\ MaxDeliveryAttempts >= 1
  BY DeliveryAssumption
<1>4. Extra(k) \in {0, 1}
  BY DEF Extra
<1>5. Paid(k) \in Nat /\ Extra(k) <= Paid(k) /\ (phase # "up" => Extra(k) + 2 <= Paid(k))
  BY <1>1, <1>4 DEF Paid, FaultsOK
<1> QED
  BY <1>2, <1>3, <1>4, <1>5 DEF Credit

\* A step that cancels no context: only a store error or MarkQueued adds credit.
LEMMA CalmCredit ==
    ASSUME TypeOK, FaultsOK, Calm, NEW k \in Keys
    PROVE  /\ FaultsOK'
           /\ Credit(k)' = Credit(k) + (storeErrors' - storeErrors) + (Extra(k)' - Extra(k))
           /\ Paid(k)' = Paid(k) + (storeErrors' - storeErrors) + (Extra(k)' - Extra(k))
           /\ storeErrors \in Nat /\ storeErrors' \in {storeErrors, storeErrors + 1}
           /\ Extra(k)' \in {0, 1}
<1>1. restarts \in Nat /\ disconnects \in Nat /\ storeErrors \in Nat
  BY DEF TypeOK
<1>2. storeErrors' \in {storeErrors, storeErrors + 1} /\ restarts' = restarts
      /\ disconnects' = disconnects /\ phase' = phase /\ gone' \subseteq gone
  BY DEF Calm
<1>3. Extra(k) \in {0, 1} /\ Extra(k)' \in {0, 1}
  BY DEF Extra
<1>4. Paid(k)' = Paid(k) + (storeErrors' - storeErrors) + (Extra(k)' - Extra(k))
      /\ Paid(k) \in Nat
  BY <1>1, <1>2, <1>3 DEF Paid
<1>5. FaultsOK'
  BY <1>2 DEF FaultsOK
<1> QED
  BY <1>1, <1>2, <1>3, <1>4, <1>5 DEF Credit

-----------------------------------------------------------------------------
\* Who has a chance, before and after a step of goroutine t on event k.

LEMMA TokenMembers ==
    ASSUME NEW k
    PROVE  /\ NoThread \notin Threads
           /\ NoThread \in Tokens(k) <=> db[k].status \in Pending
           /\ NoThread \in Chances(k) <=> db[k].status \in Pending
           /\ NoThread \in Accounted(k) <=> db[k].status \in Pending
           /\ Tokens(k) \subseteq Threads \cup {NoThread}
           /\ Chances(k) \subseteq Tokens(k) /\ Accounted(k) \subseteq Tokens(k)
           /\ \A t \in Threads : /\ t \in Tokens(k) <=> t \in Owners(k)
                                 /\ t \in Chances(k) <=> t \in Owners(k) /\ Hopeful(t)
                                 /\ t \in Accounted(k) <=> t \in Owners(k) /\ Over(t)
<1>1. NoThread \notin Threads
  BY DeliveryAssumption DEF NoThread, Threads
<1>2. Owners(k) \subseteq Threads
  BY DEF Owners
<1>3. NoThread \in Waiting(k) <=> db[k].status \in Pending
  BY DEF Waiting
<1>4. Waiting(k) \subseteq {NoThread}
  BY DEF Waiting
<1> QED
  BY <1>1, <1>2, <1>3, <1>4 DEF Tokens, Chances, Accounted

\* The same of the next state.
LEMMA NextTokenMembers ==
    ASSUME NEW k
    PROVE  /\ NoThread \in Tokens(k)' <=> db'[k].status \in Pending
           /\ NoThread \in Chances(k)' <=> db'[k].status \in Pending
           /\ NoThread \in Accounted(k)' <=> db'[k].status \in Pending
           /\ Tokens(k)' \subseteq Threads \cup {NoThread}
           /\ Chances(k)' \subseteq Tokens(k)' /\ Accounted(k)' \subseteq Tokens(k)'
           /\ \A t \in Threads : /\ t \in Tokens(k)' <=> t \in Owners(k)'
                                 /\ t \in Chances(k)' <=> t \in Owners(k)' /\ Hopeful(t)'
                                 /\ t \in Accounted(k)' <=> t \in Owners(k)' /\ Over(t)'
<1>1. NoThread \notin Threads
  BY DeliveryAssumption DEF NoThread, Threads
<1>2. Owners(k)' \subseteq Threads
  BY DEF Owners
<1>3. NoThread \in Waiting(k)' <=> db'[k].status \in Pending
  BY DEF Waiting
<1>4. Waiting(k)' \subseteq {NoThread}
  BY DEF Waiting
<1> QED
  BY <1>1, <1>2, <1>3, <1>4 DEF Tokens, Chances, Accounted

\* A goroutine that the step leaves alone keeps its place.
LEMMA SameChance ==
    ASSUME NEW k, NEW u \in Threads, u \in Owners(k)' <=> u \in Owners(k),
           u \in Owners(k) => pc'[u] = pc[u] /\ job'[u] = job[u] /\ (Cancelled(u)' <=> Cancelled(u))
    PROVE  /\ u \in Tokens(k)' <=> u \in Tokens(k)
           /\ u \in Chances(k)' <=> u \in Chances(k)
           /\ u \in Accounted(k)' <=> u \in Accounted(k)
<1>1. u \in Owners(k) => (Hopeful(u)' <=> Hopeful(u)) /\ (Over(u)' <=> Over(u))
  BY DEF Hopeful, Over
<1> QED
  BY <1>1, TokenMembers, NextTokenMembers

\* The step of t leaves the other goroutines of event k where they are.
LEMMA WorkMembers ==
    ASSUME Calm, NEW t \in Threads, NEW k \in Keys, WorksOn(t, k)
    PROVE  \A u \in Threads \ {t} :
               /\ u \in Owners(k)' <=> u \in Owners(k)
               /\ u \in Tokens(k)' <=> u \in Tokens(k)
               /\ u \in Chances(k)' <=> u \in Chances(k)
               /\ u \in Accounted(k)' <=> u \in Accounted(k)
               /\ pc'[u] = pc[u] /\ job'[u] = job[u]
<1> SUFFICES ASSUME NEW u \in Threads \ {t}
             PROVE  /\ u \in Owners(k)' <=> u \in Owners(k)
                    /\ u \in Tokens(k)' <=> u \in Tokens(k)
                    /\ u \in Chances(k)' <=> u \in Chances(k)
                    /\ u \in Accounted(k)' <=> u \in Accounted(k)
                    /\ pc'[u] = pc[u] /\ job'[u] = job[u]
  OBVIOUS
<1>1. (u \in Owners(k)' <=> u \in Owners(k)) /\ pc'[u] = pc[u] /\ job'[u] = job[u]
  BY WorksOwners
<1>2. u \in Owners(k) => pc[u] # "idle"
  BY DEF Owners, ProcessPC
<1>3. u \in Owners(k) => (Cancelled(u)' <=> Cancelled(u))
  BY <1>1, <1>2 DEF Calm
<1> QED
  BY <1>1, <1>3, SameChance

\* What a step of an attempt has to show for the event it works on.
LEMMA EventStep ==
    ASSUME AttemptInv, NEW t \in Threads, NEW k \in Keys, WorksOn(t, k), Calm,
           k \in overwritten' <=> k \in overwritten, pc'[t] # "queue",
           tries'[k] \in Nat, tries[k] <= tries'[k],
           db'[k].attempts \in Nat, db[k].attempts <= db'[k].attempts,
           t \in Owners(k)' => job'[t].attempts <= db'[k].attempts,
           TwoAtMost(Tokens(k)'), ChanceOK(k)', TriesOK(k)',
           t \in Owners(k)' /\ Dead(t)' => db'[k].attempts >= MaxDeliveryAttempts,
           db'[k].status = "dead_letter"
               => db[k].status = "dead_letter" \/ (t \in Owners(k) /\ Dead(t)),
           db'[k].status = "sending" /\ t \notin Owners(k)'
               => \/ Faulty(t)
                  \/ db[k].status = "sending" /\ t \notin Owners(k)
    PROVE  EventOK(k)'
<1>0. ClaimInv /\ TypeOK /\ FaultsOK /\ EventOK(k)
  BY DEF AttemptInv, ClaimInv
<1>others. \A u \in Threads \ {t} : /\ u \in Owners(k)' <=> u \in Owners(k)
                                    /\ pc'[u] = pc[u] /\ job'[u] = job[u]
  BY WorkMembers
<1>own. Owners(k) \subseteq Threads /\ Owners(k)' \subseteq Threads
  BY DEF Owners
<1>nat. \A u \in Threads : job[u].attempts \in Nat
  BY <1>0 DEF TypeOK, Job
<1>1. QueueOK(k)'
  <2>1. \A u \in Writers(k)' : pc'[u] = "queue" => u \in Writers(k) /\ pc[u] = "queue"
    <3> SUFFICES ASSUME NEW u \in Writers(k)', pc'[u] = "queue"
                 PROVE  u \in Writers(k) /\ pc[u] = "queue"
      OBVIOUS
    <3>1. u \in Threads \ {t} /\ job'[u].ev = k
      BY DEF Writers
    <3>2. pc[u] = "queue" /\ job[u].ev = k
      BY <3>1, <1>others
    <3> QED
      BY <3>1, <3>2 DEF Writers
  <2> QED
    BY <2>1, <1>0 DEF EventOK, QueueOK
<1>2. CountOK(k)'
  <2> SUFFICES ASSUME NEW u \in Owners(k)', u # t
               PROVE  job'[u].attempts <= db'[k].attempts
    BY DEF CountOK
  <2>1. u \in Owners(k) /\ job'[u].attempts = job[u].attempts /\ job[u].attempts \in Nat
    BY <1>others, <1>own, <1>nat
  <2>2. job[u].attempts <= db[k].attempts /\ db[k].attempts \in Nat
    BY <2>1, <1>0, CreditType DEF EventOK, CountOK
  <2> QED
    BY <2>1, <2>2
<1>3. DeadOK(k)'
  <2>1. tries[k] \in Nat /\ MaxDeliveryAttempts \in Nat /\ Paid(k) \in Nat
        /\ Paid(k)' \in Nat /\ Paid(k) <= Paid(k)' /\ Credit(k)' <= Paid(k)' /\ Credit(k)' \in Int
    <3>1. Extra(k)' = Extra(k)
      BY DEF Extra
    <3>2. Credit(k) \in Int /\ Paid(k) \in Nat /\ Credit(k) <= Paid(k) /\ Extra(k) \in {0, 1}
          /\ tries[k] \in Nat /\ MaxDeliveryAttempts \in Nat
      BY <1>0, CreditType
    <3> QED
      BY <3>1, <3>2, <1>0, CalmCredit
  <2>2. ASSUME db[k].status = "dead_letter" \/ \E u \in Owners(k) : Dead(u)
        PROVE  tries'[k] + Paid(k)' >= MaxDeliveryAttempts
    <3>1. tries[k] + Paid(k) >= MaxDeliveryAttempts
      BY <2>2, <1>0 DEF EventOK, DeadOK
    <3> QED
      BY <3>1, <2>1
  <2>3. ASSUME t \in Owners(k)', Dead(t)'
        PROVE  tries'[k] + Paid(k)' >= MaxDeliveryAttempts
    <3>1. t \in Accounted(k)'
      BY <2>3, NextTokenMembers DEF Dead, Over
    <3>2. tries'[k] >= MaxDeliveryAttempts \/ db'[k].attempts + 1 <= tries'[k] + Credit(k)' + 1
      BY <3>1 DEF TriesOK, Fits
    <3> QED
      BY <2>1, <2>3, <3>2
  <2>4. \A u \in Owners(k)' : Dead(u)' => u = t \/ (u \in Owners(k) /\ Dead(u))
    BY <1>others, <1>own DEF Dead
  <2> QED
    BY <2>2, <2>3, <2>4 DEF DeadOK
<1>4. OwnedOK(k)'
  <2> SUFFICES ASSUME phase' = "up", disconnects' = 0, storeErrors' = 0, db'[k].status = "sending",
                      t \notin Owners(k)'
               PROVE  Owners(k)' # {}
    BY DEF OwnedOK
  <2>1. phase = "up" /\ disconnects = 0 /\ storeErrors' = storeErrors /\ storeErrors = 0
    BY <1>0, CalmCredit DEF Calm
  <2>2. ~Cancelled(t)
    BY <2>1, <1>0 DEF Cancelled, FaultsOK
  <2>3. ~Faulty(t)
    BY <2>1, <2>2 DEF Faulty
  <2>4. db[k].status = "sending" /\ t \notin Owners(k)
    BY <2>3
  <2>5. Owners(k) # {}
    BY <2>1, <2>4, <1>0 DEF EventOK, OwnedOK
  <2> QED
    BY <2>4, <2>5, <1>others, <1>own
<1> QED
  BY <1>1, <1>2, <1>3, <1>4 DEF EventOK

-----------------------------------------------------------------------------
\* The ways in which chances change hands.

LEMMA FewTokens ==
    ASSUME NEW S, NEW R, TwoAtMost(S)
    PROVE  /\ R \subseteq S => TwoAtMost(R)
           /\ \A x, y : x \in S /\ R \subseteq (S \ {x}) \cup {y} => TwoAtMost(R)
<1>1. R \subseteq S => TwoAtMost(R)
  BY DEF TwoAtMost
<1>2. ASSUME NEW x, NEW y, x \in S, R \subseteq (S \ {x}) \cup {y} PROVE TwoAtMost(R)
  <2>1. \A u, v \in S \ {x} : u = v
    BY <1>2 DEF TwoAtMost
  <2> QED
    BY <1>2, <2>1 DEF TwoAtMost
<1> QED
  BY <1>1, <1>2

\* The bounds that ChanceOK and TriesOK put on the attempts of k, before and after.
LEMMA Bounds ==
    ASSUME AttemptInv, Calm, NEW k \in Keys, k \in overwritten' <=> k \in overwritten,
           tries'[k] \in Nat, tries[k] <= tries'[k]
    PROVE  /\ db[k].attempts \in Nat /\ tries[k] \in Nat /\ MaxDeliveryAttempts \in Nat
           /\ Credit(k) \in Int /\ Credit(k)' \in Int /\ Credit(k) <= Credit(k)'
           /\ Extra(k) <= Credit(k)
           /\ storeErrors' = storeErrors + 1 => Credit(k) + 1 <= Credit(k)'
           /\ TwoAtMost(Tokens(k)) /\ ChanceOK(k) /\ TriesOK(k) /\ CountOK(k)
<1>0. TypeOK /\ FaultsOK /\ EventOK(k)
  BY DEF AttemptInv, ClaimInv
<1>1. Extra(k)' = Extra(k)
  BY DEF Extra
<1>2. /\ db[k].attempts \in Nat /\ tries[k] \in Nat /\ MaxDeliveryAttempts \in Nat
      /\ Credit(k) \in Int /\ Extra(k) <= Credit(k) /\ Extra(k) \in {0, 1}
  BY <1>0, CreditType
<1> QED
  BY <1>0, <1>1, <1>2, CalmCredit DEF EventOK

\* Nobody gains a chance, unless a store error pays for it.
LEMMA KeepChances ==
    ASSUME AttemptInv, Calm, NEW k \in Keys, NEW t, k \in overwritten' <=> k \in overwritten,
           tries'[k] \in Nat, tries[k] <= tries'[k], db'[k].attempts = db[k].attempts,
           Tokens(k)' \subseteq Tokens(k),
           \/ Chances(k)' \subseteq Chances(k) /\ Accounted(k)' \subseteq Accounted(k)
           \/ /\ storeErrors' = storeErrors + 1
              /\ Chances(k)' \subseteq Chances(k) \cup {t}
              /\ Accounted(k)' \subseteq Accounted(k) \cup {t}
    PROVE  TwoAtMost(Tokens(k)') /\ ChanceOK(k)' /\ TriesOK(k)'
<1> DEFINE b == db[k].attempts
           n == MaxDeliveryAttempts + Credit(k)
           m == MaxDeliveryAttempts + Credit(k)'
           p == tries[k] + Credit(k) + 1
           q == tries'[k] + Credit(k)' + 1
<1>1. /\ b \in Nat /\ n \in Int /\ m \in Int /\ p \in Int /\ q \in Int /\ n <= m /\ p <= q
      /\ storeErrors' = storeErrors + 1 => n + 1 <= m /\ p + 1 <= q
      /\ tries[k] >= MaxDeliveryAttempts => tries'[k] >= MaxDeliveryAttempts
  BY Bounds
<1>2. Fits(Chances(k), b, n)
  BY Bounds DEF ChanceOK
<1>3. tries[k] >= MaxDeliveryAttempts \/ Fits(Accounted(k), b, p)
  BY Bounds DEF TriesOK
<1>4. TwoAtMost(Tokens(k)')
  BY Bounds, FewTokens
<1> HIDE DEF n, m, p, q
<1>5. Fits(Chances(k)', b, m)
  <2>1. CASE Chances(k)' \subseteq Chances(k)
    BY <1>1, <1>2, <2>1, FitsShrink
  <2>2. CASE storeErrors' = storeErrors + 1 /\ Chances(k)' \subseteq Chances(k) \cup {t}
    BY <1>1, <1>2, <2>2, FitsPaid
  <2> QED
    BY <2>1, <2>2
<1>6. ASSUME Fits(Accounted(k), b, p) PROVE Fits(Accounted(k)', b, q)
  <2>1. CASE Accounted(k)' \subseteq Accounted(k)
    BY <1>1, <1>6, <2>1, FitsShrink
  <2>2. CASE storeErrors' = storeErrors + 1 /\ Accounted(k)' \subseteq Accounted(k) \cup {t}
    BY <1>1, <1>6, <2>2, FitsPaid
  <2> QED
    BY <2>1, <2>2
<1> QED
  BY <1>1, <1>3, <1>4, <1>5, <1>6 DEF ChanceOK, TriesOK, m, q

\* t gives the row back.
LEMMA HandBack ==
    ASSUME AttemptInv, Calm, NEW k \in Keys, NEW t, k \in overwritten' <=> k \in overwritten,
           tries'[k] \in Nat, tries[k] <= tries'[k], db'[k].attempts = db[k].attempts,
           t \in Chances(k), t \in Accounted(k),
           Tokens(k)' \subseteq (Tokens(k) \ {t}) \cup {NoThread},
           Chances(k)' \subseteq (Chances(k) \ {t}) \cup {NoThread},
           Accounted(k)' \subseteq (Accounted(k) \ {t}) \cup {NoThread}
    PROVE  TwoAtMost(Tokens(k)') /\ ChanceOK(k)' /\ TriesOK(k)'
<1> DEFINE b == db[k].attempts
           n == MaxDeliveryAttempts + Credit(k)
           m == MaxDeliveryAttempts + Credit(k)'
           p == tries[k] + Credit(k) + 1
           q == tries'[k] + Credit(k)' + 1
<1>1. /\ b \in Nat /\ n \in Int /\ m \in Int /\ p \in Int /\ q \in Int /\ n <= m /\ p <= q
      /\ tries[k] >= MaxDeliveryAttempts => tries'[k] >= MaxDeliveryAttempts
  BY Bounds
<1>2. Fits(Chances(k), b, n)
  BY Bounds DEF ChanceOK
<1>3. tries[k] >= MaxDeliveryAttempts \/ Fits(Accounted(k), b, p)
  BY Bounds DEF TriesOK
<1>4. TwoAtMost(Tokens(k)')
  <2>1. t \in Tokens(k) /\ TwoAtMost(Tokens(k))
    BY TokenMembers, Bounds
  <2> QED
    BY <2>1, FewTokens
<1> HIDE DEF n, m, p, q
<1>5. Fits(Chances(k)', b, m)
  BY <1>1, <1>2, FitsMove
<1>6. ASSUME Fits(Accounted(k), b, p) PROVE Fits(Accounted(k)', b, q)
  <2> DEFINE S == Accounted(k)
             R == Accounted(k)'
  <2>1. t \in S /\ R \subseteq (S \ {t}) \cup {NoThread} /\ Fits(S, b, p)
    BY <1>6
  <2> HIDE DEF S, R, b
  <2>2. Fits(R, b, q)
    BY <1>1, <2>1, FitsMove
  <2> QED
    BY <2>2 DEF R
<1> QED
  BY <1>1, <1>3, <1>4, <1>5, <1>6 DEF ChanceOK, TriesOK, m, q

\* An attempt spends the chance of the row.
LEMMA Spend ==
    ASSUME AttemptInv, Calm, NEW k \in Keys, NEW t, k \in overwritten' <=> k \in overwritten,
           tries'[k] = tries[k], db'[k].attempts = db[k].attempts + 1,
           NoThread \in Tokens(k), NoThread \in Chances(k), NoThread \in Accounted(k),
           Tokens(k)' \subseteq (Tokens(k) \ {NoThread}) \cup {t},
           Accounted(k)' \subseteq Accounted(k) \ {NoThread}
    PROVE  /\ TwoAtMost(Tokens(k)') /\ TriesOK(k)'
           /\ Chances(k)' \subseteq Chances(k) \ {NoThread} => ChanceOK(k)'
<1> DEFINE b == db[k].attempts
           n == MaxDeliveryAttempts + Credit(k)
           m == MaxDeliveryAttempts + Credit(k)'
           p == tries[k] + Credit(k) + 1
           q == tries'[k] + Credit(k)' + 1
<1>0. tries[k] \in Nat
  BY DEF AttemptInv, ClaimInv, TypeOK
<1>1. /\ b \in Nat /\ n \in Int /\ m \in Int /\ p \in Int /\ q \in Int /\ n <= m /\ p <= q
  BY <1>0, Bounds
<1>2. Fits(Chances(k), b, n)
  BY <1>0, Bounds DEF ChanceOK
<1>3. tries[k] >= MaxDeliveryAttempts \/ Fits(Accounted(k), b, p)
  BY <1>0, Bounds DEF TriesOK
<1>4. TwoAtMost(Tokens(k)) /\ TwoAtMost(Tokens(k)')
  BY <1>0, Bounds, FewTokens
<1>5. TwoAtMost(Chances(k)) /\ TwoAtMost(Accounted(k))
  BY <1>4, TokenMembers, FewTokens
<1> HIDE DEF n, m, p, q
<1>6. Chances(k)' \subseteq Chances(k) \ {NoThread} => Fits(Chances(k)', b + 1, m)
  BY <1>1, <1>2, <1>5, FitsSpend
<1>7. Fits(Accounted(k), b, p) => Fits(Accounted(k)', b + 1, q)
  BY <1>1, <1>5, FitsSpend
<1> QED
  BY <1>3, <1>4, <1>6, <1>7 DEF ChanceOK, TriesOK, m, q

-----------------------------------------------------------------------------
\* The steps of an attempt.

\* Attempts and history stay.
Even(k) ==
    /\ db'[k].attempts = db[k].attempts /\ tries'[k] = tries[k]
    /\ k \in overwritten' <=> k \in overwritten

LEMMA EvenFacts ==
    ASSUME AttemptInv, NEW k \in Keys, Even(k)
    PROVE  /\ tries'[k] \in Nat /\ tries[k] <= tries'[k] /\ tries'[k] = tries[k]
           /\ db'[k].attempts \in Nat /\ db[k].attempts <= db'[k].attempts
           /\ db'[k].attempts = db[k].attempts
           /\ k \in overwritten' <=> k \in overwritten
           /\ \A t \in Owners(k) : job[t].attempts <= db'[k].attempts
<1>1. tries[k] \in Nat /\ db[k].attempts \in Nat
  BY DEF AttemptInv, ClaimInv, TypeOK, Row
<1>2. CountOK(k)
  BY DEF AttemptInv, EventOK
<1> QED
  BY <1>1, <1>2 DEF Even, CountOK

\* The step goes on to the next one, or decides against another attempt.
LEMMA GoesOn ==
    ASSUME AttemptInv, NEW t \in Threads, NEW k \in Keys, WorksOn(t, k), Calm, Even(k),
           t \in Owners(k), t \in Owners(k)', job'[t].attempts = job[t].attempts,
           db'[k].status = db[k].status, pc[t] # "settle",
           pc'[t] # "settle" \/ Stops(t, "failed")
    PROVE  EventOK(k)'
<1>1. Cancelled(t)' <=> Cancelled(t)
  <2>1. pc'[t] # "idle"
    BY DEF Owners, ProcessPC
  <2> QED
    BY <2>1 DEF Calm
<1>2. t \in Chances(k)' => t \in Chances(k)
  BY <1>1, TokenMembers, NextTokenMembers DEF Hopeful, Stops
<1>3. t \in Accounted(k)' => t \in Accounted(k)
  BY <1>1, TokenMembers, NextTokenMembers DEF Over, Stops
<1>4. Tokens(k)' \subseteq Tokens(k) /\ Chances(k)' \subseteq Chances(k)
      /\ Accounted(k)' \subseteq Accounted(k)
  BY <1>2, <1>3, WorkMembers, TokenMembers, NextTokenMembers
<1>5. TwoAtMost(Tokens(k)') /\ ChanceOK(k)' /\ TriesOK(k)'
  BY <1>4, EvenFacts, KeepChances
<1>6. ~Dead(t)' /\ pc'[t] # "queue"
  BY DEF Dead, Stops, Owners, ProcessPC
<1> QED
  BY <1>5, <1>6, EvenFacts, EventStep

\* A cancelled context or a store error ends the attempt; another one is to come.
LEMMA Faults ==
    ASSUME AttemptInv, NEW t \in Threads, NEW k \in Keys, WorksOn(t, k), Calm, Even(k),
           t \in Owners(k), job'[t].ev = k, Stops(t, "retry_scheduled"), Faulty(t),
           db'[k].status \in {db[k].status, "delivered"}, pc[t] # "settle"
    PROVE  EventOK(k)'
<1>0. t \in Owners(k)' /\ pc'[t] # "idle" /\ job'[t].attempts = job[t].attempts
  BY DEF Owners, Stops, ProcessPC, Locals
<1>1. Cancelled(t) => t \in Chances(k) /\ t \in Accounted(k)
  BY TokenMembers DEF Hopeful, Over
<1>2. db'[k].status \in Pending => db[k].status \in Pending
  BY DEF Pending
<1>3. \A u \in Threads \ {t} : /\ u \in Tokens(k)' => u \in Tokens(k)
                               /\ u \in Chances(k)' => u \in Chances(k)
                               /\ u \in Accounted(k)' => u \in Accounted(k)
  BY WorkMembers
<1>4. Tokens(k)' \subseteq Tokens(k) /\ Chances(k)' \subseteq Chances(k) \cup {t}
      /\ Accounted(k)' \subseteq Accounted(k) \cup {t}
  BY <1>2, <1>3, TokenMembers, NextTokenMembers
<1>5. TwoAtMost(Tokens(k)') /\ ChanceOK(k)' /\ TriesOK(k)'
  <2>1. CASE Cancelled(t)
    <3>1. Chances(k)' \subseteq Chances(k) /\ Accounted(k)' \subseteq Accounted(k)
      BY <1>1, <1>4, <2>1
    <3> QED
      BY <3>1, <1>4, EvenFacts, KeepChances
  <2>2. CASE storeErrors' = storeErrors + 1
    BY <2>2, <1>4, EvenFacts, KeepChances
  <2> QED
    BY <2>1, <2>2 DEF Faulty
<1>6. ~Dead(t)' /\ pc'[t] # "queue"
  BY DEF Dead, Stops
<1> QED
  BY <1>0, <1>5, <1>6, EvenFacts, EventStep

\* Telegram or the network refuses the part: another attempt or a dead letter.
LEMMA Refusals ==
    ASSUME AttemptInv, NEW t \in Threads, NEW k \in Keys, WorksOn(t, k), Calm,
           t \in Owners(k), job'[t].ev = k, pc[t] = "send",
           db'[k].attempts = db[k].attempts, db'[k].status = db[k].status,
           k \in overwritten' <=> k \in overwritten,
           tries'[k] = IF tries[k] < MaxDeliveryAttempts THEN tries[k] + 1 ELSE tries[k],
           \/ job[t].attempts >= MaxDeliveryAttempts /\ Stops(t, "dead_letter")
           \/ job[t].attempts < MaxDeliveryAttempts /\ Stops(t, "retry_scheduled")
    PROVE  EventOK(k)'
<1>0. /\ t \in Owners(k)' /\ pc'[t] = "settle" /\ job'[t].attempts = job[t].attempts
      /\ job'[t].to \in {"dead_letter", "retry_scheduled"}
      /\ job'[t].to = "retry_scheduled" => job[t].attempts < MaxDeliveryAttempts
      /\ job'[t].to = "dead_letter" => job[t].attempts >= MaxDeliveryAttempts
  BY DEF Owners, Stops, ProcessPC, Locals
<1>nat. tries[k] \in Nat /\ db[k].attempts \in Nat /\ job[t].attempts \in Nat
        /\ MaxDeliveryAttempts \in Nat
  BY DeliveryAssumption DEF AttemptInv, ClaimInv, TypeOK, Row, Job
<1>tries. tries'[k] \in Nat /\ tries[k] <= tries'[k]
  BY <1>nat
<1>count. job[t].attempts <= db[k].attempts
  BY <1>tries, Bounds DEF CountOK
<1>1. t \in Chances(k)' => t \in Chances(k)
  BY <1>0, TokenMembers, NextTokenMembers DEF Hopeful
<1>2. Tokens(k)' \subseteq Tokens(k) /\ Chances(k)' \subseteq Chances(k)
      /\ Accounted(k)' \subseteq Accounted(k) \cup {t}
  BY <1>1, WorkMembers, TokenMembers, NextTokenMembers
<1>3. TwoAtMost(Tokens(k)')
  BY <1>2, <1>tries, Bounds, FewTokens
<1> DEFINE b == db[k].attempts
           n == MaxDeliveryAttempts + Credit(k)
           m == MaxDeliveryAttempts + Credit(k)'
           p == tries[k] + Credit(k) + 1
           q == tries'[k] + Credit(k)' + 1
<1>4. /\ b \in Nat /\ n \in Int /\ m \in Int /\ p \in Int /\ q \in Int /\ n <= m
      /\ tries[k] < MaxDeliveryAttempts => p + 1 <= q
      /\ tries[k] >= MaxDeliveryAttempts => tries'[k] >= MaxDeliveryAttempts
  BY <1>tries, <1>nat, Bounds
<1>5. Fits(Chances(k), b, n)
  BY <1>tries, Bounds DEF ChanceOK
<1>6. tries[k] >= MaxDeliveryAttempts \/ Fits(Accounted(k), b, p)
  BY <1>tries, Bounds DEF TriesOK
<1> HIDE DEF n, m, p, q
<1>7. Fits(Chances(k)', b, m)
  BY <1>2, <1>4, <1>5, FitsShrink
<1>8. ASSUME tries[k] < MaxDeliveryAttempts PROVE Fits(Accounted(k)', b, q)
  <2>1. Fits(Accounted(k), b, p) /\ p + 1 <= q
    BY <1>4, <1>6, <1>8, <1>nat
  <2> QED
    BY <1>2, <1>4, <2>1, FitsPaid
<1>9. ChanceOK(k)' /\ TriesOK(k)'
  BY <1>nat, <1>4, <1>7, <1>8 DEF ChanceOK, TriesOK, m, q
<1>10. Dead(t)' => db'[k].attempts >= MaxDeliveryAttempts
  BY <1>0, <1>count, <1>nat DEF Dead
<1> QED
  BY <1>0, <1>nat, <1>tries, <1>count, <1>3, <1>9, <1>10, EventStep

\* The attempt ends with a closed row, or with a write that a fault took.
LEMMA Leaves ==
    ASSUME AttemptInv, NEW t \in Threads, NEW k \in Keys, WorksOn(t, k), Calm, Even(k),
           t \in Owners(k), pc'[t] \in {"next", "load"},
           db'[k].status \in Pending => db[k].status \in Pending,
           db'[k].status = "dead_letter" => db[k].status = "dead_letter" \/ Dead(t),
           db'[k].status = "sending" => Faulty(t)
    PROVE  EventOK(k)'
<1>1. t \notin Owners(k)'
  BY DEF Owners, ProcessPC
<1>2. Tokens(k)' \subseteq Tokens(k) /\ Chances(k)' \subseteq Chances(k)
      /\ Accounted(k)' \subseteq Accounted(k)
  BY <1>1, WorkMembers, TokenMembers, NextTokenMembers
<1>3. TwoAtMost(Tokens(k)') /\ ChanceOK(k)' /\ TriesOK(k)'
  BY <1>2, EvenFacts, KeepChances
<1> QED
  BY <1>1, <1>3, EvenFacts, EventStep

\* The write of its outcome.
LEMMA Settles ==
    ASSUME AttemptInv, NEW t \in Threads, NEW k \in Keys, WorksOn(t, k), Calm,
           t \in Owners(k), Settled(t, k)
    PROVE  EventOK(k)'
<1>0. pc[t] = "settle" /\ pc'[t] \in {"next", "load"} /\ t \notin Owners(k)'
  BY DEF Settled, Owners, ProcessPC
<1>even. Even(k)
  BY DEF Settled, Even, SameHistory, SameRow, RowBecomes, Columns
<1>to. job[t].to \in {"retry_scheduled", "failed", "dead_letter"}
  <2>1. job[t] \in Job /\ LocalOK(t, pc[t], job[t])
    BY DEF AttemptInv, ClaimInv, TypeOK, LocalsOK
  <2> QED
    BY <2>1, <1>0 DEF Job, LocalOK
<1>1. CASE Faulty(t) /\ db'[k].status = db[k].status
  BY <1>0, <1>1, <1>even, Leaves
<1>2. CASE db'[k].status = job[t].to /\ job[t].to # "retry_scheduled"
  <2>1. db'[k].status \notin Pending /\ db'[k].status # "sending"
    BY <1>2, <1>to DEF Pending
  <2>2. db'[k].status = "dead_letter" => Dead(t)
    BY <1>0, <1>2 DEF Dead
  <2> QED
    BY <1>0, <1>even, <2>1, <2>2, Leaves
<1>3. CASE db'[k].status = job[t].to /\ job[t].to = "retry_scheduled"
  <2>1. t \in Chances(k) /\ t \in Accounted(k)
    BY <1>0, <1>3, TokenMembers DEF Hopeful, Over
  <2>2. /\ Tokens(k)' \subseteq (Tokens(k) \ {t}) \cup {NoThread}
        /\ Chances(k)' \subseteq (Chances(k) \ {t}) \cup {NoThread}
        /\ Accounted(k)' \subseteq (Accounted(k) \ {t}) \cup {NoThread}
    BY <1>0, WorkMembers, NextTokenMembers, TokenMembers
  <2>3. TwoAtMost(Tokens(k)') /\ ChanceOK(k)' /\ TriesOK(k)'
    BY <1>even, <2>1, <2>2, EvenFacts, HandBack
  <2>4. pc'[t] # "queue" /\ db'[k].status # "dead_letter" /\ db'[k].status # "sending"
    BY <1>0, <1>3
  <2> QED
    BY <1>0, <1>even, <2>3, <2>4, EvenFacts, EventStep
<1> QED
  BY <1>1, <1>2, <1>3 DEF Settled, SameRow, RowBecomes, Columns

\* A claim, whether or not the goroutine learns that it has the row.
LEMMA Claims ==
    ASSUME AttemptInv, NEW t \in Threads, NEW k \in Keys, WorksOn(t, k), Calm,
           pc[t] = "claim", SameHistory(k), db[k].status \in Pending,
           db'[k].status = "sending", db'[k].attempts = db[k].attempts + 1,
           \/ /\ ~Cancelled(t) /\ t \in Owners(k)' /\ pc'[t] # "settle"
              /\ job'[t].attempts = db[k].attempts + 1
           \/ Cancelled(t) /\ pc'[t] \in {"next", "load"}
    PROVE  EventOK(k)'
<1>0. t \notin Owners(k) /\ db'[k].status \notin Pending
  BY DEF Owners, ProcessPC, Pending
<1>h. (k \in overwritten' <=> k \in overwritten) /\ tries'[k] = tries[k] /\ tries[k] \in Nat
  BY DEF SameHistory, AttemptInv, ClaimInv, TypeOK
<1>nat. /\ db[k].attempts \in Nat /\ Credit(k)' \in Int /\ Credit(k) \in Int
        /\ MaxDeliveryAttempts \in Nat
        /\ Extra(k) <= Credit(k) /\ Credit(k) <= Credit(k)'
  BY <1>h, Bounds
<1>1. NoThread \in Tokens(k) /\ NoThread \in Chances(k) /\ NoThread \in Accounted(k)
  BY TokenMembers
<1>2. t \notin Accounted(k)'
  <2>1. CASE Cancelled(t) /\ pc'[t] \in {"next", "load"}
    BY <2>1, NextTokenMembers DEF Owners, ProcessPC
  <2>2. CASE ~Cancelled(t) /\ t \in Owners(k)' /\ pc'[t] # "settle"
    <3>1. ~Cancelled(t)'
      BY <2>2 DEF Owners, ProcessPC, Calm
    <3> QED
      BY <2>2, <3>1, NextTokenMembers DEF Over
  <2> QED
    BY <2>1, <2>2
<1>3. /\ Tokens(k)' \subseteq (Tokens(k) \ {NoThread}) \cup {t}
      /\ Chances(k)' \subseteq (Chances(k) \ {NoThread}) \cup {t}
      /\ Accounted(k)' \subseteq Accounted(k) \ {NoThread}
  BY <1>0, <1>2, WorkMembers, NextTokenMembers, TokenMembers
<1>4. /\ TwoAtMost(Tokens(k)') /\ TriesOK(k)'
      /\ Chances(k)' \subseteq Chances(k) \ {NoThread} => ChanceOK(k)'
  BY <1>h, <1>1, <1>3, Spend
<1>5. ChanceOK(k)'
  <2>1. CASE t \notin Chances(k)'
    BY <2>1, <1>3, <1>4
  <2>2. CASE t \in Chances(k)'
    <3>1. t \in Owners(k)' /\ Hopeful(t)'
      BY <2>2, NextTokenMembers
    <3>2. ~Cancelled(t) /\ pc'[t] # "settle" /\ job'[t].attempts = db[k].attempts + 1
      BY <3>1 DEF Owners, ProcessPC
    <3>3. ~Cancelled(t)'
      BY <3>1, <3>2 DEF Owners, ProcessPC, Calm
    <3>4. db[k].attempts + 1 < MaxDeliveryAttempts
      BY <3>1, <3>2, <3>3 DEF Hopeful
    <3>5. CASE k \in overwritten
      <4>1. Credit(k)' >= 1
        BY <3>5, <1>nat DEF Extra
      <4> QED
        BY <4>1, <3>4, <1>nat DEF ChanceOK, Fits
    <3>6. CASE k \notin overwritten
      <4>1. Owners(k) = {}
        BY <3>6, Unowned DEF AttemptInv
      <4>2. Chances(k)' \subseteq {t}
        BY <4>1, <1>0, <1>3, TokenMembers
      <4>3. Credit(k)' >= 0
        BY <3>6, <1>nat DEF Extra
      <4> QED
        BY <4>2, <4>3, <3>4, <1>nat DEF ChanceOK, Fits
    <3> QED
      BY <3>5, <3>6
  <2> QED
    BY <2>1, <2>2
<1>6. t \in Owners(k)' => ~Dead(t)' /\ job'[t].attempts <= db'[k].attempts /\ pc'[t] # "queue"
  BY <1>nat DEF Owners, ProcessPC, Dead
<1>7. t \notin Owners(k)' => Faulty(t) /\ pc'[t] # "queue"
  BY DEF Faulty
<1>8. /\ tries'[k] \in Nat /\ tries[k] <= tries'[k]
      /\ db'[k].attempts \in Nat /\ db[k].attempts <= db'[k].attempts
  BY <1>h, <1>nat
<1> QED
  BY <1>h, <1>4, <1>5, <1>6, <1>7, <1>8, EventStep

LEMMA AttemptEvent ==
    ASSUME AttemptInv, NEW t \in Threads, NEW k \in Keys, WorksOn(t, k), Calm,
           pc[t] \in {"claim"} \cup ProcessPC, AttemptStep(t, k)
    PROVE  EventOK(k)'
<1>own. pc[t] \in ProcessPC => t \in Owners(k)
  BY DEF WorksOn, Owners
<1>go. \A p, n : LoopPC(p, n) \in ProcessPC \ {"settle"}
  BY DEF LoopPC, ProcessPC
<1>pp. {"render", "send", "mark", "deliver", "settle"} = ProcessPC
  BY DEF ProcessPC
<1>1. CASE Claimed(t, k)
  <2>1. pc'[t] \in ProcessPC \ {"settle"} /\ job'[t].ev = k /\ job'[t].attempts = db[k].attempts + 1
    BY <1>1, <1>go, <1>pp DEF Claimed, Locals
  <2>2. t \in Owners(k)'
    BY <2>1 DEF Owners
  <2>3. pc[t] = "claim" /\ SameHistory(k) /\ ~Cancelled(t) /\ db[k].status \in Pending
        /\ db'[k].status = "sending" /\ db'[k].attempts = db[k].attempts + 1
    BY <1>1 DEF Claimed, RowBecomes, Columns
  <2> QED
    BY <2>1, <2>2, <2>3, Claims
<1>2. CASE ClaimMissed(t, k)
  <2>0. pc[t] = "claim" /\ pc'[t] \in {"next", "load"} /\ SameHistory(k)
    BY <1>2 DEF ClaimMissed
  <2>1. CASE SameRow(k)
    <3>1. Even(k) /\ db'[k].status = db[k].status
      BY <2>0, <2>1 DEF Even, SameRow, RowBecomes, Columns, SameHistory
    <3>2. t \notin Owners(k) /\ t \notin Owners(k)' /\ pc'[t] # "queue"
      BY <2>0 DEF Owners, ProcessPC
    <3>3. Tokens(k)' \subseteq Tokens(k) /\ Chances(k)' \subseteq Chances(k)
          /\ Accounted(k)' \subseteq Accounted(k)
      BY <3>1, <3>2, WorkMembers, TokenMembers, NextTokenMembers
    <3>4. TwoAtMost(Tokens(k)') /\ ChanceOK(k)' /\ TriesOK(k)'
      BY <3>1, <3>3, EvenFacts, KeepChances
    <3> QED
      BY <3>1, <3>2, <3>4, EvenFacts, EventStep
  <2>2. CASE Cancelled(t) /\ db[k].status \in Pending
             /\ RowBecomes(k, "sending", db[k].parts, db[k].sent, db[k].attempts + 1)
    <3>1. db'[k].status = "sending" /\ db'[k].attempts = db[k].attempts + 1
      BY <2>2 DEF RowBecomes, Columns
    <3> QED
      BY <2>0, <2>2, <3>1, Claims
  <2> QED
    BY <1>2, <2>1, <2>2 DEF ClaimMissed
<1>3. CASE Rendered(t, k) \/ Accepted(t, k) \/ Marked(t, k)
  <2>1. pc[t] \in ProcessPC \ {"settle"}
    BY <1>3, <1>pp DEF Rendered, Accepted, Marked
  <2>2. pc'[t] \in ProcessPC \ {"settle"} /\ job'[t].ev = k /\ job'[t].attempts = job[t].attempts
    BY <1>3, <1>go, <1>pp DEF Rendered, Accepted, Marked, Locals, WorksOn
  <2>3. Even(k) /\ db'[k].status = db[k].status
    BY <1>3 DEF Rendered, Accepted, Marked, Even, SameHistory, SameRow, PartsSaved, ChunkMarked,
                RowBecomes, Columns
  <2>4. t \in Owners(k)'
    BY <2>2 DEF Owners
  <2> QED
    BY <1>own, <2>1, <2>2, <2>3, <2>4, GoesOn
<1>4. CASE RenderStops(t, k)
  <2>1. pc[t] = "render" /\ Even(k) /\ db'[k].status = db[k].status
    BY <1>4 DEF RenderStops, Even, SameHistory, SameRow, PartsSaved, RowBecomes, Columns
  <2>2. Stops(t, "failed") \/ (Stops(t, "retry_scheduled") /\ Faulty(t))
    BY <1>4 DEF RenderStops
  <2>3. job'[t].ev = k /\ job'[t].attempts = job[t].attempts /\ pc'[t] = "settle"
    BY <2>2 DEF Stops, Locals, WorksOn
  <2>4. t \in Owners(k) /\ t \in Owners(k)'
    BY <1>own, <1>pp, <2>1, <2>3 DEF Owners
  <2> QED
    BY <2>1, <2>2, <2>3, <2>4, GoesOn, Faults
<1>5. CASE SendStops(t, k)
  <2>1. /\ pc[t] = "send" /\ db'[k].status = db[k].status /\ db'[k].attempts = db[k].attempts
        /\ k \in overwritten' <=> k \in overwritten
    BY <1>5 DEF SendStops, SameRow, RowBecomes, Columns
  <2>2. (\E to : Stops(t, to)) => job'[t].ev = k /\ job'[t].attempts = job[t].attempts
                                  /\ pc'[t] = "settle"
    BY DEF Stops, Locals, WorksOn
  <2>3. t \in Owners(k)
    BY <1>own, <1>pp, <2>1
  <2>4. CASE Stops(t, "failed") /\ tries'[k] = tries[k]
    <3>1. Even(k) /\ t \in Owners(k)'
      BY <1>pp, <2>1, <2>2, <2>4 DEF Even, Owners
    <3> QED
      BY <2>1, <2>2, <2>3, <2>4, <3>1, GoesOn
  <2>5. CASE Cancelled(t) /\ Stops(t, "retry_scheduled") /\ tries'[k] = tries[k]
    <3>1. Even(k) /\ Faulty(t)
      BY <2>1, <2>5 DEF Even, Faulty
    <3> QED
      BY <2>1, <2>2, <2>3, <2>5, <3>1, Faults
  <2>6. CASE /\ tries'[k] = IF tries[k] < MaxDeliveryAttempts THEN tries[k] + 1 ELSE tries[k]
             /\ \/ job[t].attempts >= MaxDeliveryAttempts /\ Stops(t, "dead_letter")
                \/ job[t].attempts < MaxDeliveryAttempts /\ Stops(t, "retry_scheduled")
    <3>1. job'[t].ev = k
      BY <2>2, <2>6
    <3> QED
      BY <2>1, <2>3, <2>6, <3>1, Refusals
  <2> QED
    BY <1>5, <2>4, <2>5, <2>6 DEF SendStops
<1>6. CASE MarkStops(t, k) \/ DeliverStops(t, k)
  <2>1. pc[t] \in {"mark", "deliver"} /\ Stops(t, "retry_scheduled") /\ Faulty(t)
    BY <1>6 DEF MarkStops, DeliverStops
  <2>2. Even(k) /\ db'[k].status \in {db[k].status, "delivered"}
    BY <1>6 DEF MarkStops, DeliverStops, Even, SameHistory, SameRow, ChunkMarked, RowDelivered,
                RowBecomes, Columns
  <2>3. job'[t].ev = k /\ t \in Owners(k)
    BY <1>own, <1>pp, <2>1 DEF Stops, Locals, WorksOn
  <2> QED
    BY <2>1, <2>2, <2>3, Faults
<1>7. CASE Delivered(t, k)
  <2>1. pc[t] = "deliver" /\ pc'[t] \in {"next", "load"} /\ Even(k) /\ db'[k].status = "delivered"
    BY <1>7 DEF Delivered, Even, SameHistory, RowDelivered, RowBecomes, Columns
  <2>2. db'[k].status \notin Pending
    BY <2>1 DEF Pending
  <2> QED
    BY <1>own, <1>pp, <2>1, <2>2, Leaves
<1>8. CASE Settled(t, k)
  BY <1>8, <1>own, <1>pp, Settles DEF Settled
<1> QED
  BY <1>1, <1>2, <1>3, <1>4, <1>5, <1>6, <1>7, <1>8 DEF AttemptStep

-----------------------------------------------------------------------------
\* Every other step.

\* The step has nothing to do with k, but may cancel the context of t.
LEMMA ApartEvent ==
    ASSUME AttemptInv, NEW k \in Keys, Apart(k), NEW t,
           Credit(k)' \in Int, Credit(k) <= Credit(k)', Paid(k)' \in Nat, Paid(k) <= Paid(k)',
           \A u \in Owners(k) \ {t} : Cancelled(u)' <=> Cancelled(u),
           \/ Credit(k) + 1 <= Credit(k)'
           \/ \A u \in Owners(k) : Cancelled(u)' <=> Cancelled(u),
           phase' = "up" /\ disconnects' = 0 /\ storeErrors' = 0
               => phase = "up" /\ disconnects = 0 /\ storeErrors = 0
    PROVE  EventOK(k)'
<1>0. TypeOK /\ FaultsOK /\ EventOK(k)
  BY DEF AttemptInv, ClaimInv
<1>1. /\ db'[k].status = db[k].status /\ db'[k].attempts = db[k].attempts /\ tries'[k] = tries[k]
      /\ k \in overwritten' <=> k \in overwritten
      /\ Writers(k)' = Writers(k) /\ \A u \in Writers(k) : pc'[u] = pc[u]
  BY DEF Apart, SameRow, RowBecomes, Columns, SameHistory
<1>2. Owners(k)' = Owners(k) /\ \A u \in Owners(k) : pc'[u] = pc[u] /\ job'[u] = job[u]
  BY ApartOwners
<1>own. Owners(k) \subseteq Threads
  BY DEF Owners
<1>same. \A u \in Threads : (u \in Owners(k) => (Cancelled(u)' <=> Cancelled(u)))
            => /\ u \in Tokens(k)' <=> u \in Tokens(k)
               /\ u \in Chances(k)' <=> u \in Chances(k)
               /\ u \in Accounted(k)' <=> u \in Accounted(k)
  BY <1>2, SameChance
<1>3. Tokens(k)' \subseteq Tokens(k)
  BY <1>1, <1>2, TokenMembers, NextTokenMembers
<1>4. /\ Chances(k)' \subseteq Chances(k) \cup {t} /\ Accounted(k)' \subseteq Accounted(k) \cup {t}
      /\ \/ Credit(k) + 1 <= Credit(k)'
         \/ Chances(k)' \subseteq Chances(k) /\ Accounted(k)' \subseteq Accounted(k)
  BY <1>1, <1>own, <1>same, TokenMembers, NextTokenMembers
<1> DEFINE b == db[k].attempts
           n == MaxDeliveryAttempts + Credit(k)
           m == MaxDeliveryAttempts + Credit(k)'
           p == tries[k] + Credit(k) + 1
           q == tries[k] + Credit(k)' + 1
<1>5. /\ b \in Nat /\ n \in Int /\ m \in Int /\ p \in Int /\ q \in Int /\ n <= m /\ p <= q
      /\ tries[k] \in Nat /\ MaxDeliveryAttempts \in Nat /\ Paid(k) \in Nat
      /\ Credit(k) + 1 <= Credit(k)' => n + 1 <= m /\ p + 1 <= q
  BY <1>0, CreditType
<1>6. Fits(Chances(k), b, n) /\ TwoAtMost(Tokens(k))
  BY <1>0 DEF EventOK, ChanceOK
<1>7. tries[k] >= MaxDeliveryAttempts \/ Fits(Accounted(k), b, p)
  BY <1>0 DEF EventOK, TriesOK
<1> HIDE DEF n, m, p, q
<1>8. Fits(Chances(k)', b, m)
  <2>1. CASE n + 1 <= m
    <3> DEFINE S == Chances(k)
               R == Chances(k)'
    <3>1. R \subseteq S \cup {t} /\ Fits(S, b, n)
      BY <1>4, <1>6
    <3> HIDE DEF S, R, b
    <3>2. Fits(R, b, m)
      BY <1>5, <2>1, <3>1, FitsPaid
    <3> QED
      BY <3>2 DEF R
  <2>2. CASE Chances(k)' \subseteq Chances(k)
    BY <1>5, <1>6, <2>2, FitsShrink
  <2> QED
    BY <1>4, <1>5, <2>1, <2>2
<1>9. ASSUME Fits(Accounted(k), b, p) PROVE Fits(Accounted(k)', b, q)
  <2>1. CASE p + 1 <= q
    BY <1>4, <1>5, <1>9, <2>1, FitsPaid
  <2>2. CASE Accounted(k)' \subseteq Accounted(k)
    BY <1>5, <1>9, <2>2, FitsShrink
  <2> QED
    BY <1>4, <1>5, <2>1, <2>2
<1>10. TwoAtMost(Tokens(k)') /\ ChanceOK(k)' /\ TriesOK(k)'
  BY <1>1, <1>3, <1>6, <1>7, <1>8, <1>9, FewTokens DEF ChanceOK, TriesOK, m, q
<1>11. QueueOK(k)' /\ CountOK(k)'
  BY <1>0, <1>1, <1>2 DEF EventOK, QueueOK, CountOK
<1>12. DeadOK(k)'
  <2>1. (\E u \in Owners(k)' : Dead(u)') => \E u \in Owners(k) : Dead(u)
    BY <1>2 DEF Dead
  <2>2. tries[k] + Paid(k) >= MaxDeliveryAttempts => tries'[k] + Paid(k)' >= MaxDeliveryAttempts
    BY <1>1, <1>5
  <2> QED
    BY <2>1, <2>2, <1>0, <1>1 DEF EventOK, DeadOK
<1>13. OwnedOK(k)'
  BY <1>0, <1>1, <1>2 DEF EventOK, OwnedOK
<1> QED
  BY <1>10, <1>11, <1>12, <1>13 DEF EventOK

LEMMA CalmApart ==
    ASSUME AttemptInv, Calm, NEW k \in Keys, Apart(k)
    PROVE  EventOK(k)'
<1>0. TypeOK /\ FaultsOK
  BY DEF AttemptInv, ClaimInv
<1>1. Extra(k)' = Extra(k) /\ Extra(k) \in {0, 1}
  BY DEF Apart, SameHistory, Extra
<1>2. Credit(k) \in Int /\ Paid(k) \in Nat
  BY <1>0, CreditType
<1>3. /\ Credit(k)' \in Int /\ Credit(k) <= Credit(k)' /\ Paid(k)' \in Nat /\ Paid(k) <= Paid(k)'
      /\ storeErrors' = 0 => storeErrors = 0
  BY <1>0, <1>1, <1>2, CalmCredit
<1>4. \A u \in Owners(k) : Cancelled(u)' <=> Cancelled(u)
  <2> SUFFICES ASSUME NEW u \in Owners(k) PROVE Cancelled(u)' <=> Cancelled(u)
    OBVIOUS
  <2>1. pc'[u] = pc[u] /\ pc[u] # "idle" /\ u \in Threads
    BY ApartOwners DEF Owners, ProcessPC
  <2> QED
    BY <2>1 DEF Calm
<1>5. phase' = phase /\ disconnects' = disconnects
  BY DEF Calm
<1> QED
  BY <1>3, <1>4, <1>5, ApartEvent

\* A client hangs up or SIGTERM arrives: one goroutine is cancelled.
LEMMA SignalEvent ==
    ASSUME AttemptInv, NEW k \in Keys, Apart(k),
           Sigterm \/ (\E r \in Requests : Disconnect(r)) \/ (\E i \in Keys : BackoffElapses(i))
    PROVE  FaultsOK' /\ EventOK(k)'
<1>0. TypeOK /\ FaultsOK
  BY DEF AttemptInv, ClaimInv
<1>1. Extra(k)' = Extra(k) /\ Extra(k) \in {0, 1}
  BY DEF Apart, SameHistory, Extra
<1>2. Credit(k) \in Int /\ Paid(k) \in Nat
  BY <1>0, CreditType
<1>3. restarts \in Nat /\ disconnects \in Nat /\ storeErrors \in Nat
  BY <1>0 DEF TypeOK
<1>4. CASE Sigterm
  <2>1. phase = "up" /\ phase' = "stopping" /\ restarts' = restarts + 1
        /\ UNCHANGED <<gone, disconnects, storeErrors>>
    BY <1>4 DEF Sigterm, storeVars
  <2>2. Paid(k)' = Paid(k) + 2 /\ Credit(k)' = Credit(k) + 1
    BY <1>1, <1>2, <1>3, <2>1 DEF Paid, Credit
  <2>3. \A u : u # Worker => (Cancelled(u)' <=> Cancelled(u))
    BY <2>1 DEF Cancelled
  <2>4. FaultsOK'
    BY <1>0, <1>3, <2>1 DEF FaultsOK
  <2>5. Credit(k)' \in Int /\ Credit(k) <= Credit(k)' /\ Paid(k)' \in Nat /\ Paid(k) <= Paid(k)'
        /\ Credit(k) + 1 <= Credit(k)'
    BY <1>2, <2>2
  <2> QED
    BY <2>1, <2>3, <2>4, <2>5, ApartEvent
<1>5. ASSUME NEW r \in Requests, Disconnect(r)
      PROVE  FaultsOK' /\ EventOK(k)'
  <2>1. gone' = gone \cup {r} /\ disconnects' = disconnects + 1
        /\ UNCHANGED <<phase, restarts, storeErrors>>
    BY <1>5 DEF Disconnect, storeVars
  <2>2. Paid(k)' = Paid(k) + 1 /\ Credit(k)' = Credit(k) + 1
    BY <1>1, <1>2, <1>3, <2>1 DEF Paid, Credit
  <2>3. \A u : u # r => (Cancelled(u)' <=> Cancelled(u))
    BY <2>1 DEF Cancelled
  <2>4. FaultsOK'
    BY <1>0, <1>3, <2>1 DEF FaultsOK
  <2>5. Credit(k)' \in Int /\ Credit(k) <= Credit(k)' /\ Paid(k)' \in Nat /\ Paid(k) <= Paid(k)'
        /\ Credit(k) + 1 <= Credit(k)' /\ disconnects' # 0
    BY <1>2, <1>3, <2>1, <2>2
  <2> QED
    BY <2>1, <2>3, <2>4, <2>5, ApartEvent
<1>6. ASSUME NEW i \in Keys, BackoffElapses(i)
      PROVE  FaultsOK' /\ EventOK(k)'
  <2>1. UNCHANGED <<phase, gone, restarts, disconnects, storeErrors>>
    BY <1>6 DEF BackoffElapses, processVars
  <2>2. Paid(k)' = Paid(k) /\ Credit(k)' = Credit(k)
    BY <1>1, <2>1 DEF Paid, Credit
  <2>3. \A u : Cancelled(u)' <=> Cancelled(u)
    BY <2>1 DEF Cancelled
  <2>4. FaultsOK'
    BY <1>0, <2>1 DEF FaultsOK
  <2>5. Credit(k)' \in Int /\ Credit(k) <= Credit(k)' /\ Paid(k)' \in Nat /\ Paid(k) <= Paid(k)'
    BY <1>2, <2>2
  <2> QED
    BY <2>1, <2>3, <2>4, <2>5, ApartEvent
<1> QED
  BY <1>4, <1>5, <1>6

\* Without owners only the row itself counts.
LEMMA OwnerlessEvent ==
    ASSUME NEW k \in Keys, Owners(k)' = {}, TypeOK', FaultsOK', QueueOK(k)',
           db'[k].attempts <= MaxDeliveryAttempts + Credit(k)',
           \/ tries'[k] >= MaxDeliveryAttempts
           \/ db'[k].attempts <= tries'[k] + Credit(k)' + 1,
           db'[k].status \in Pending =>
              /\ db'[k].attempts + 1 <= MaxDeliveryAttempts + Credit(k)'
              /\ \/ tries'[k] >= MaxDeliveryAttempts
                 \/ db'[k].attempts <= tries'[k] + Credit(k)',
           db'[k].status = "dead_letter" => tries'[k] + Paid(k)' >= MaxDeliveryAttempts,
           phase' = "up" /\ disconnects' = 0 /\ storeErrors' = 0 => db'[k].status # "sending"
    PROVE  EventOK(k)'
<1>1. Tokens(k)' \subseteq {NoThread} /\ Chances(k)' \subseteq {NoThread}
      /\ Accounted(k)' \subseteq {NoThread}
  BY NextTokenMembers
<1>2. /\ Credit(k)' \in Int /\ db'[k].attempts \in Nat /\ tries'[k] \in Nat
      /\ MaxDeliveryAttempts \in Nat
  <2>1. db'[k].attempts \in Nat /\ tries'[k] \in Nat
    BY DEF TypeOK, Row
  <2>2. MaxDeliveryAttempts \in Nat
    BY DeliveryAssumption
  <2>3. restarts' \in Nat /\ disconnects' \in Nat /\ storeErrors' \in Nat
    BY DEF TypeOK
  <2>4. Extra(k)' \in {0, 1}
    BY DEF Extra
  <2>5. Paid(k)' \in Nat
    BY <2>3, <2>4 DEF Paid
  <2> QED
    BY <2>1, <2>2, <2>5 DEF Credit
<1>3. TwoAtMost(Tokens(k)')
  BY <1>1 DEF TwoAtMost
<1>4. ChanceOK(k)'
  BY <1>1, <1>2, NextTokenMembers DEF ChanceOK, Fits
<1>5. TriesOK(k)'
  BY <1>1, <1>2, NextTokenMembers DEF TriesOK, Fits
<1> QED
  BY <1>3, <1>4, <1>5 DEF EventOK, CountOK, DeadOK, OwnedOK

\* What EventOK says of the row alone.
LEMMA RowBounds ==
    ASSUME AttemptInv, NEW k \in Keys
    PROVE  /\ db[k].attempts <= MaxDeliveryAttempts + Credit(k)
           /\ tries[k] >= MaxDeliveryAttempts \/ db[k].attempts <= tries[k] + Credit(k) + 1
           /\ db[k].status \in Pending =>
                 /\ db[k].attempts + 1 <= MaxDeliveryAttempts + Credit(k)
                 /\ \/ tries[k] >= MaxDeliveryAttempts
                    \/ db[k].attempts <= tries[k] + Credit(k)
           /\ db[k].status = "dead_letter" => tries[k] + Paid(k) >= MaxDeliveryAttempts
<1>0. TypeOK /\ FaultsOK /\ EventOK(k)
  BY DEF AttemptInv, ClaimInv
<1>1. /\ Credit(k) \in Int /\ db[k].attempts \in Nat /\ tries[k] \in Nat
      /\ MaxDeliveryAttempts \in Nat
  BY <1>0, CreditType
<1>2. Fits(Chances(k), db[k].attempts, MaxDeliveryAttempts + Credit(k))
  BY <1>0 DEF EventOK, ChanceOK
<1>3. \/ tries[k] >= MaxDeliveryAttempts
      \/ Fits(Accounted(k), db[k].attempts, tries[k] + Credit(k) + 1)
  BY <1>0 DEF EventOK, TriesOK
<1>4. db[k].status \in Pending => NoThread \in Chances(k) /\ NoThread \in Accounted(k)
  BY TokenMembers
<1>5. db[k].status = "dead_letter" => tries[k] + Paid(k) >= MaxDeliveryAttempts
  BY <1>0 DEF EventOK, DeadOK
<1>6. /\ db[k].attempts <= MaxDeliveryAttempts + Credit(k)
      /\ db[k].status \in Pending => db[k].attempts + 1 <= MaxDeliveryAttempts + Credit(k)
  BY <1>1, <1>2, <1>4 DEF Fits
<1>7. CASE tries[k] >= MaxDeliveryAttempts
  BY <1>5, <1>6, <1>7
<1>8. CASE Fits(Accounted(k), db[k].attempts, tries[k] + Credit(k) + 1)
  <2>1. /\ db[k].attempts <= tries[k] + Credit(k) + 1
        /\ db[k].status \in Pending => db[k].attempts + 1 <= tries[k] + Credit(k) + 1
    BY <1>8, <1>4 DEF Fits
  <2> QED
    BY <1>1, <1>5, <1>6, <2>1
<1> QED
  BY <1>3, <1>7, <1>8

LEMMA CreatedEvent ==
    ASSUME AttemptInv, TypeOK', Calm, NEW r \in Threads, NEW k \in Keys, WorksOn(r, k),
           Created(r, k)
    PROVE  EventOK(k)'
<1>0. ClaimInv /\ TypeOK /\ FaultsOK
  BY DEF AttemptInv, ClaimInv
<1>1. Writers(k) = {}
  <2>1. \A u \in Writers(k) : HoldsEvent(u, k)
    BY DEF Writers, HoldsEvent
  <2>2. \A u \in Threads : HoldsEvent(u, k) => Stored(db, k)
    BY <1>0 DEF ClaimInv, HeldRowsOK
  <2> QED
    BY <2>1, <2>2 DEF Writers, Created
<1>2. Writers(k)' \subseteq {r} /\ Owners(k)' = {}
  <2>1. \A u \in Threads \ {r} : u \notin Writers(k)'
    BY <1>1 DEF Writers, WorksOn, Others
  <2>2. r \notin Owners(k)'
    BY DEF Owners, ProcessPC, Created
  <2>3. Owners(k)' \subseteq Writers(k)' /\ Writers(k)' \subseteq Threads
    BY DEF Owners, Writers
  <2> QED
    BY <2>1, <2>2, <2>3
<1>3. QueueOK(k)'
  BY <1>2 DEF QueueOK, Created
<1>4. db'[k].status = "received" /\ db'[k].attempts = 0 /\ tries'[k] = 0
  BY DEF Created, RowBecomes, Columns
<1>5. Credit(k)' \in Int /\ Credit(k)' >= 0 /\ MaxDeliveryAttempts \in Nat
      /\ MaxDeliveryAttempts >= 1 /\ FaultsOK'
  <2>1. Credit(k) \in Int /\ Extra(k) <= Credit(k) /\ Extra(k) \in {0, 1}
        /\ MaxDeliveryAttempts \in Nat /\ MaxDeliveryAttempts >= 1
    BY <1>0, CreditType
  <2> QED
    BY <1>0, <2>1, CalmCredit
<1>6. db'[k].status # "dead_letter" /\ db'[k].status # "sending"
      /\ db'[k].attempts <= MaxDeliveryAttempts + Credit(k)'
      /\ db'[k].attempts + 1 <= MaxDeliveryAttempts + Credit(k)'
      /\ db'[k].attempts <= tries'[k] + Credit(k)'
      /\ db'[k].attempts <= tries'[k] + Credit(k)' + 1
  BY <1>4, <1>5
<1> QED
  BY <1>2, <1>3, <1>5, <1>6, OwnerlessEvent

LEMMA DeletedEvent ==
    ASSUME AttemptInv, TypeOK', Calm, NEW k \in Keys, Deleted(k)
    PROVE  EventOK(k)'
<1>0. TypeOK /\ FaultsOK
  BY DEF AttemptInv, ClaimInv
<1>1. Owners(k)' = {} /\ QueueOK(k)'
  BY DEF Deleted, Owners, Writers, QueueOK
<1>2. db'[k].status = "absent" /\ db'[k].attempts = 0 /\ tries'[k] = tries[k]
  BY DEF Deleted, RowBecomes, Columns, SameHistory
<1>3. Credit(k)' \in Int /\ Credit(k)' >= 0 /\ MaxDeliveryAttempts \in Nat /\ FaultsOK'
      /\ tries[k] \in Nat
  <2>1. Credit(k) \in Int /\ Extra(k) <= Credit(k) /\ Extra(k) \in {0, 1}
        /\ MaxDeliveryAttempts \in Nat /\ tries[k] \in Nat
    BY <1>0, CreditType
  <2> QED
    BY <1>0, <2>1, CalmCredit
<1>4. db'[k].status \notin Pending /\ db'[k].status # "dead_letter" /\ db'[k].status # "sending"
      /\ db'[k].attempts <= MaxDeliveryAttempts + Credit(k)'
      /\ db'[k].attempts <= tries'[k] + Credit(k)' + 1
  BY <1>2, <1>3 DEF Pending
<1> QED
  BY <1>1, <1>3, <1>4, OwnerlessEvent

\* The process ends: its goroutines take their chances with them.
LEMMA EndedEvent ==
    ASSUME AttemptInv, TypeOK', NEW k \in Keys, Ended(k), Exit \/ Crash
    PROVE  FaultsOK' /\ EventOK(k)'
<1>0. TypeOK /\ FaultsOK
  BY DEF AttemptInv, ClaimInv
<1>1. Owners(k)' = {} /\ QueueOK(k)'
  BY DEF Ended, Owners, Writers, QueueOK
<1>2. /\ db'[k].status = db[k].status /\ db'[k].attempts = db[k].attempts /\ tries'[k] = tries[k]
      /\ Extra(k)' = Extra(k)
  BY DEF Ended, SameRow, RowBecomes, Columns, Extra
<1>3. /\ phase' = "down" /\ gone' = {} /\ UNCHANGED <<disconnects, storeErrors>>
      /\ \/ phase = "stopping" /\ restarts' = restarts
         \/ restarts' = restarts + 1
  BY DEF Exit, Crash, Down, storeVars
<1>4. restarts \in Nat /\ disconnects \in Nat /\ storeErrors \in Nat
  BY <1>0 DEF TypeOK
<1>5. /\ Credit(k) \in Int /\ Paid(k) \in Nat /\ Extra(k) \in {0, 1}
      /\ db[k].attempts \in Nat /\ tries[k] \in Nat /\ MaxDeliveryAttempts \in Nat
  BY <1>0, CreditType
<1>6. FaultsOK'
  BY <1>0, <1>3, <1>4 DEF FaultsOK
<1>7. Credit(k)' \in Int /\ Credit(k) <= Credit(k)' /\ Paid(k)' \in Nat /\ Paid(k) <= Paid(k)'
  <2>1. Paid(k)' = Paid(k) + 2 * (restarts' - restarts)
    BY <1>2, <1>3, <1>4, <1>5 DEF Paid
  <2> QED
    BY <2>1, <1>3, <1>4, <1>5 DEF Credit
<1>8. /\ db'[k].attempts <= MaxDeliveryAttempts + Credit(k)'
      /\ tries'[k] >= MaxDeliveryAttempts \/ db'[k].attempts <= tries'[k] + Credit(k)' + 1
      /\ db'[k].status \in Pending =>
            /\ db'[k].attempts + 1 <= MaxDeliveryAttempts + Credit(k)'
            /\ \/ tries'[k] >= MaxDeliveryAttempts
               \/ db'[k].attempts <= tries'[k] + Credit(k)'
      /\ db'[k].status = "dead_letter" => tries'[k] + Paid(k)' >= MaxDeliveryAttempts
  BY <1>2, <1>5, <1>7, RowBounds
<1> QED
  BY <1>1, <1>3, <1>6, <1>8, OwnerlessEvent

\* RequeueSending: the second half of what a stop pays goes to the rows in 'sending'.
LEMMA RequeuedEvent ==
    ASSUME AttemptInv, TypeOK', NEW k \in Keys, Requeued(k), Restart
    PROVE  FaultsOK' /\ EventOK(k)'
<1>0. TypeOK /\ FaultsOK
  BY DEF AttemptInv, ClaimInv
<1>1. Owners(k)' = {} /\ QueueOK(k)'
  BY DEF Requeued, Owners, Writers, QueueOK
<1>2. /\ db'[k].attempts = db[k].attempts /\ tries'[k] = tries[k] /\ Extra(k)' = Extra(k)
      /\ db'[k].status = (IF db[k].status = "sending" THEN "queued" ELSE db[k].status)
  BY DEF Requeued, SameHistory, SameRow, RowBecomes, Columns, Extra
<1>3. phase = "down" /\ phase' = "up" /\ UNCHANGED <<gone, restarts, disconnects, storeErrors>>
  BY DEF Restart, Succeeds
<1>5. /\ Credit(k) \in Int /\ Paid(k) \in Nat
      /\ db[k].attempts \in Nat /\ tries[k] \in Nat /\ MaxDeliveryAttempts \in Nat
  BY <1>0, CreditType
<1>6. FaultsOK'
  BY <1>0, <1>3 DEF FaultsOK
<1>7. Credit(k)' = Credit(k) + 1 /\ Paid(k)' = Paid(k)
  BY <1>2, <1>3, <1>5 DEF Paid, Credit
<1>8. /\ db'[k].attempts <= MaxDeliveryAttempts + Credit(k)'
      /\ db'[k].attempts + 1 <= MaxDeliveryAttempts + Credit(k)'
      /\ tries'[k] >= MaxDeliveryAttempts \/ db'[k].attempts <= tries'[k] + Credit(k)' + 1
      /\ tries'[k] >= MaxDeliveryAttempts \/ db'[k].attempts <= tries'[k] + Credit(k)'
      /\ db'[k].status = "dead_letter" => tries'[k] + Paid(k)' >= MaxDeliveryAttempts
      /\ db'[k].status # "sending"
  BY <1>2, <1>5, <1>7, RowBounds
<1> QED
  BY <1>1, <1>6, <1>8, OwnerlessEvent

\* MarkQueued: on a row that was claimed since, the overwritten claim pays.
LEMMA QueuedEvent ==
    ASSUME AttemptInv, TypeOK', Calm, NEW r \in Threads, NEW k \in Keys, WorksOn(r, k),
           Queued(r, k)
    PROVE  EventOK(k)'
<1>0. ClaimInv /\ TypeOK /\ FaultsOK /\ EventOK(k)
  BY DEF AttemptInv, ClaimInv
<1>1. k \notin overwritten /\ \A u \in Writers(k) : pc[u] = "queue" => u = r
  <2>1. r \in Writers(k) /\ pc[r] = "queue"
    BY DEF WorksOn, Queued, Writers
  <2> QED
    BY <2>1, <1>0 DEF EventOK, QueueOK
<1>2. r \notin Owners(k) /\ r \notin Owners(k)' /\ pc'[r] # "queue"
  BY DEF Queued, Owners, ProcessPC
<1>others. \A u \in Threads \ {r} : /\ u \in Owners(k)' <=> u \in Owners(k)
                                    /\ pc'[u] = pc[u] /\ job'[u] = job[u]
  BY WorkMembers
<1>own. Owners(k) \subseteq Threads /\ Owners(k)' \subseteq Threads
  BY DEF Owners
<1>same. Owners(k)' = Owners(k)
  BY <1>2, <1>others, <1>own
<1>3. QueueOK(k)'
  <2>1. \A u \in Writers(k)' : pc'[u] # "queue"
    <3> SUFFICES ASSUME NEW u \in Writers(k)', pc'[u] = "queue" PROVE FALSE
      OBVIOUS
    <3>1. u \in Threads \ {r} /\ job'[u].ev = k
      BY <1>2 DEF Writers
    <3>2. u \in Writers(k) /\ pc[u] = "queue"
      BY <3>1, <1>others DEF Writers
    <3> QED
      BY <3>1, <3>2, <1>1
  <2> QED
    BY <2>1 DEF QueueOK
<1>4. /\ Credit(k) \in Int /\ Paid(k) \in Nat /\ Extra(k) = 0 /\ Extra(k) <= Credit(k)
      /\ db[k].attempts \in Nat /\ tries[k] \in Nat /\ MaxDeliveryAttempts \in Nat
  BY <1>0, <1>1, CreditType DEF Extra
<1>5. /\ Credit(k)' \in Int /\ Credit(k) + Extra(k)' <= Credit(k)' /\ Extra(k)' \in {0, 1}
      /\ Paid(k)' \in Nat /\ Paid(k) <= Paid(k)' /\ FaultsOK'
      /\ storeErrors' = 0 => storeErrors = 0
  BY <1>0, <1>4, CalmCredit
<1>6. db'[k].attempts = db[k].attempts /\ tries'[k] = tries[k]
  BY DEF Queued, SameRow, RowBecomes, Columns
<1>7. CASE SameRow(k) /\ (k \in overwritten' <=> k \in overwritten)
  <2>1. Even(k) /\ db'[k].status = db[k].status
    BY <1>6, <1>7 DEF Even, SameRow, RowBecomes, Columns
  <2>2. Tokens(k)' \subseteq Tokens(k) /\ Chances(k)' \subseteq Chances(k)
        /\ Accounted(k)' \subseteq Accounted(k)
    BY <1>2, <2>1, WorkMembers, TokenMembers, NextTokenMembers
  <2>3. TwoAtMost(Tokens(k)') /\ ChanceOK(k)' /\ TriesOK(k)'
    BY <2>1, <2>2, EvenFacts, KeepChances
  <2> QED
    BY <1>2, <2>1, <2>3, EvenFacts, EventStep
<1>8. CASE db'[k].status = "queued" /\ db[k].status \in Pending
  <2>1. Owners(k)' = {}
    BY <1>0, <1>1, <1>8, <1>same, Unowned
  <2>2. /\ db'[k].attempts <= MaxDeliveryAttempts + Credit(k)'
        /\ db'[k].attempts + 1 <= MaxDeliveryAttempts + Credit(k)'
        /\ tries'[k] >= MaxDeliveryAttempts \/ db'[k].attempts <= tries'[k] + Credit(k)' + 1
        /\ tries'[k] >= MaxDeliveryAttempts \/ db'[k].attempts <= tries'[k] + Credit(k)'
    BY <1>4, <1>5, <1>6, <1>8, RowBounds
  <2> QED
    BY <1>3, <1>5, <1>8, <2>1, <2>2, OwnerlessEvent
<1>9. CASE db'[k].status = "queued" /\ db[k].status \notin Pending /\ k \in overwritten'
  <2>1. Extra(k)' = 1
    BY <1>9 DEF Extra
  <2>2. /\ Tokens(k)' \subseteq Owners(k) \cup {NoThread}
        /\ Chances(k)' \subseteq Chances(k) \cup {NoThread}
        /\ Accounted(k)' \subseteq Accounted(k) \cup {NoThread}
    BY <1>2, <1>same, WorkMembers, TokenMembers, NextTokenMembers
  <2>3. \A u, v \in Owners(k) : u = v
    BY <1>0, <1>1 DEF ClaimInv, OwnersOK
  <2>4. TwoAtMost(Tokens(k)')
    BY <2>2, <2>3 DEF TwoAtMost
  <2> DEFINE b == db[k].attempts
             n == MaxDeliveryAttempts + Credit(k)
             m == MaxDeliveryAttempts + Credit(k)'
             p == tries[k] + Credit(k) + 1
             q == tries[k] + Credit(k)' + 1
             S == Chances(k)
             R == Chances(k)'
             A == Accounted(k)
             B == Accounted(k)'
  <2>5. b \in Nat /\ n \in Int /\ m \in Int /\ p \in Int /\ q \in Int /\ n + 1 <= m /\ p + 1 <= q
    BY <1>4, <1>5, <2>1
  <2>6. Fits(S, b, n) /\ R \subseteq S \cup {NoThread}
    BY <1>0, <2>2 DEF EventOK, ChanceOK
  <2>7. (tries[k] >= MaxDeliveryAttempts \/ Fits(A, b, p)) /\ B \subseteq A \cup {NoThread}
    BY <1>0, <2>2 DEF EventOK, TriesOK
  <2> HIDE DEF b, n, m, p, q, S, R, A, B
  <2>8. Fits(R, b, m)
    BY <2>5, <2>6, FitsPaid
  <2>9. ASSUME Fits(A, b, p) PROVE Fits(B, b, q)
    BY <2>5, <2>7, <2>9, FitsPaid
  <2>10. ChanceOK(k)' /\ TriesOK(k)'
    BY <1>6, <2>7, <2>8, <2>9 DEF ChanceOK, TriesOK, b, m, q, R, B
  <2>11. CountOK(k)'
    <3> SUFFICES ASSUME NEW u \in Owners(k) PROVE job'[u].attempts <= db'[k].attempts
      BY <1>same DEF CountOK
    <3>1. job'[u] = job[u]
      BY <1>2, <1>own, <1>others
    <3> QED
      BY <3>1, <1>0, <1>6 DEF EventOK, CountOK
  <2>12. DeadOK(k)'
    <3>1. (\E u \in Owners(k)' : Dead(u)') => \E u \in Owners(k) : Dead(u)
      BY <1>2, <1>own, <1>others, <1>same DEF Dead
    <3>2. (\E u \in Owners(k) : Dead(u)) => tries[k] + Paid(k) >= MaxDeliveryAttempts
      BY <1>0 DEF EventOK, DeadOK
    <3>3. tries[k] + Paid(k) >= MaxDeliveryAttempts => tries'[k] + Paid(k)' >= MaxDeliveryAttempts
      BY <1>4, <1>5, <1>6
    <3> QED
      BY <1>9, <3>1, <3>2, <3>3 DEF DeadOK
  <2>13. OwnedOK(k)'
    BY <1>9 DEF OwnedOK
  <2> QED
    BY <1>3, <2>4, <2>10, <2>11, <2>12, <2>13 DEF EventOK
<1> QED
  BY <1>7, <1>8, <1>9 DEF Queued, RowBecomes, Columns, Pending

-----------------------------------------------------------------------------
\* The theorems.

LEMMA AttemptInit == Init => AttemptInv
<1> SUFFICES ASSUME Init PROVE AttemptInv
  OBVIOUS
<1>1. ClaimInv
  BY ClaimInit
<1>2. FaultsOK
  BY DEF Init, FaultsOK
<1>3. ASSUME NEW k \in Keys PROVE EventOK(k)
  <2>1. Writers(k) = {} /\ Owners(k) = {}
    BY DEF Init, Writers, Owners, ProcessPC, NoJob
  <2>2. db[k].status = "absent" /\ db[k].attempts = 0 /\ tries[k] = 0
    BY DEF Init, NoRow
  <2>3. db[k].status \notin Pending
    BY <2>2 DEF Pending
  <2>4. Tokens(k) = {} /\ Chances(k) = {} /\ Accounted(k) = {}
    BY <2>1, <2>3 DEF Tokens, Chances, Accounted, Waiting
  <2>5. Credit(k) = 0
    BY DEF Init, Credit, Paid, Extra
  <2>6. MaxDeliveryAttempts \in Nat
    BY DeliveryAssumption
  <2> QED
    BY <2>1, <2>2, <2>4, <2>5, <2>6
       DEF EventOK, QueueOK, TwoAtMost, CountOK, ChanceOK, TriesOK, DeadOK, OwnedOK, Fits
<1> QED
  BY <1>1, <1>2, <1>3 DEF AttemptInv

LEMMA AttemptsStep == AttemptInv /\ [Next]_vars => AttemptInv'
<1> SUFFICES ASSUME AttemptInv, [Next]_vars PROVE AttemptInv'
  OBVIOUS
<1>0. ClaimInv /\ TypeOK /\ FaultsOK
  BY DEF AttemptInv, ClaimInv
<1>1. ClaimInv' /\ TypeOK'
  BY <1>0, ClaimStep DEF ClaimInv
<1>calm. Calm => FaultsOK'
  BY <1>0 DEF Calm, FaultsOK
<1>2. FaultsOK' /\ \A k \in Keys : EventOK(k)'
  <2>0. StepKinds
    BY <1>0, NextKinds
  <2>1. ASSUME NEW t \in Threads, WorksOn(t, job[t].ev), Calm,
               pc[t] \in {"claim"} \cup ProcessPC, AttemptStep(t, job[t].ev)
        PROVE  FaultsOK' /\ \A k \in Keys : EventOK(k)'
    <3>1. PICK i \in Keys : i = job[t].ev
      BY <2>1 DEF WorksOn
    <3>2. EventOK(i)'
      BY <2>1, <3>1, AttemptEvent
    <3>3. \A k \in Keys \ {i} : EventOK(k)'
      BY <2>1, <3>1, WorksApart, CalmApart
    <3> QED
      BY <1>calm, <2>1, <3>2, <3>3
  <2>2. ASSUME NEW r \in Requests, WorksOn(r, job[r].ev), Calm,
               Queued(r, job[r].ev) \/ Created(r, job[r].ev)
        PROVE  FaultsOK' /\ \A k \in Keys : EventOK(k)'
    <3>0. r \in Threads
      BY DEF Threads
    <3>1. PICK i \in Keys : i = job[r].ev
      BY <2>2 DEF WorksOn
    <3>2. EventOK(i)'
      BY <1>1, <2>2, <3>0, <3>1, QueuedEvent, CreatedEvent
    <3>3. \A k \in Keys \ {i} : EventOK(k)'
      BY <2>2, <3>0, <3>1, WorksApart, CalmApart
    <3> QED
      BY <1>calm, <2>2, <3>2, <3>3
  <2>3. CASE Calm /\ \A i \in Keys : Apart(i) \/ Deleted(i)
    BY <1>1, <1>calm, <2>3, CalmApart, DeletedEvent
  <2>4. CASE /\ \/ Sigterm \/ (\E r \in Requests : Disconnect(r))
                \/ (\E k \in Keys : BackoffElapses(k))
             /\ \A i \in Keys : Apart(i)
    <3>1. \A k \in Keys : FaultsOK' /\ EventOK(k)'
      BY <2>4, SignalEvent
    <3>2. Keys = {} => FaultsOK'
      BY <1>0, <2>4 DEF Sigterm, Disconnect, BackoffElapses, processVars, FaultsOK, TypeOK
    <3> QED
      BY <3>1, <3>2
  <2>5. CASE (Exit \/ Crash) /\ \A i \in Keys : Ended(i)
    <3>1. \A k \in Keys : FaultsOK' /\ EventOK(k)'
      BY <1>1, <2>5, EndedEvent
    <3>2. FaultsOK'
      BY <1>0, <2>5 DEF Exit, Crash, Down, FaultsOK, TypeOK
    <3> QED
      BY <3>1, <3>2
  <2>6. CASE Restart /\ \A i \in Keys : Requeued(i)
    <3>1. \A k \in Keys : FaultsOK' /\ EventOK(k)'
      BY <1>1, <2>6, RequeuedEvent
    <3>2. FaultsOK'
      BY <1>0, <2>6 DEF Restart, FaultsOK
    <3> QED
      BY <3>1, <3>2
  <2> QED
    BY <2>0, <2>1, <2>2, <2>3, <2>4, <2>5, <2>6 DEF StepKinds
<1> QED
  BY <1>1, <1>2 DEF AttemptInv

\* What the invariant says, in the words of the runs.
LEMMA AttemptFacts == AttemptInv => SendingHasOwner /\ AttemptsBounded /\ DeadLetterIsEarned
<1> SUFFICES ASSUME AttemptInv PROVE SendingHasOwner /\ AttemptsBounded /\ DeadLetterIsEarned
  OBVIOUS
<1>0. TypeOK /\ FaultsOK /\ \A k \in Keys : EventOK(k)
  BY DEF AttemptInv, ClaimInv
<1>1. SendingHasOwner
  BY <1>0 DEF EventOK, OwnedOK, SendingHasOwner
<1>2. ASSUME NEW k \in Keys
      PROVE  /\ db[k].attempts <= MaxDeliveryAttempts + Paid(k)
             /\ db[k].status = "dead_letter" => tries[k] + Paid(k) >= MaxDeliveryAttempts
  <2>1. /\ Credit(k) \in Int /\ Paid(k) \in Nat /\ Credit(k) <= Paid(k)
        /\ db[k].attempts \in Nat /\ MaxDeliveryAttempts \in Nat
    BY <1>0, CreditType
  <2> QED
    BY <2>1, RowBounds
<1>3. ASSUME NEW k \in Keys
      PROVE  /\ restarts \in Nat /\ disconnects \in Nat /\ storeErrors \in Nat
             /\ db[k].attempts \in Nat /\ tries[k] \in Nat /\ MaxDeliveryAttempts \in Nat
             /\ Extra(k) \in {0, 1}
  <2>1. restarts \in Nat /\ disconnects \in Nat /\ storeErrors \in Nat
    BY <1>0 DEF TypeOK
  <2> QED
    BY <2>1, <1>0, CreditType
<1>4. AttemptsBounded
  <2> SUFFICES ASSUME NEW k \in Keys
               PROVE  db[k].attempts <= MaxDeliveryAttempts + 2 * restarts + disconnects
                                        + storeErrors + Extra(k)
    BY DEF AttemptsBounded, Extra
  <2> QED
    BY <1>2, <1>3 DEF Paid
<1>5. DeadLetterIsEarned
  <2> SUFFICES ASSUME NEW k \in Keys, db[k].status = "dead_letter"
               PROVE  tries[k] + 2 * restarts + disconnects + storeErrors + Extra(k)
                          >= MaxDeliveryAttempts
    BY DEF DeadLetterIsEarned, Extra
  <2> QED
    BY <1>2, <1>3 DEF Paid
<1> QED
  BY <1>1, <1>4, <1>5

\* While the process serves, no context was cancelled and no statement failed, a
\* row in 'sending' (delivery_service.go:32) has a goroutine that will write it.
THEOREM SendingOwned == Spec => []SendingHasOwner
BY AttemptInit, AttemptsStep, AttemptFacts, PTL DEF Spec

\* MAX_DELIVERY_ATTEMPTS bounds attempt_count: every attempt beyond it is paid for
\* by a restart, a disconnect, a store error or an overwritten claim.
THEOREM BoundedAttempts == Spec => []AttemptsBounded
BY AttemptInit, AttemptsStep, AttemptFacts, PTL DEF Spec

\* A row is marked dead_letter (handleSendError) only when its attempts were refused,
\* short of those that faults or a second goroutine used up.
THEOREM EarnedDeadLetters == Spec => []DeadLetterIsEarned
BY AttemptInit, AttemptsStep, AttemptFacts, PTL DEF Spec

=============================================================================
