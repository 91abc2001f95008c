---------------------------- MODULE PayloadProofs ----------------------------
(***************************************************************************)
(* The messages of a webhook, for every template, limit and text.          *)
(*                                                                         *)
(* Packing (ALERT_MESSAGE_SOURCE=template): no alert is lost, chunks are   *)
(* closed only when they are full, and the reserve keeps rendered chunks   *)
(* within the limit.  The invariant compares the text of a run of alerts,  *)
(* which the program adds up alert by alert, with the difference of two    *)
(* prefix sums of the webhook's alerts.  The prefix sums are not state:    *)
(* they are whatever function satisfies their recurrence, and RenderWhole  *)
(* extends it.                                                             *)
(*                                                                         *)
(* Cutting (ALERT_MESSAGE_SOURCE=alertmanager): every part is sendable, no *)
(* character is lost or repeated, and words are kept whole if possible.    *)
(* The invariant says so of the parts cut so far and of the text before    *)
(* the position at which the rest begins, and that the rest begins and     *)
(* ends with ink: no cut can therefore produce a blank part.               *)
(***************************************************************************)
EXTENDS Payload, SequenceTheorems, FiniteSetTheorems, WellFoundedInduction, TLAPS

Steps == {"whole", "measure", "pack", "render"} \cup Returns

\* S holds the prefix sums of the first n alerts.
Sums(S, n) ==
    /\ S \in [0..n -> Nat]
    /\ S[0] = 0
    /\ \A i \in 1..n : S[i] = S[i - 1] + alerts[i]

\* c is a run of alerts that is charged no more than the budget, and holds the
\* text of its alerts.
RunOK(c, S) ==
    /\ c \in Chunk
    /\ 1 <= c.from /\ c.from <= c.to + 1 /\ c.to <= Len(alerts)
    /\ c.text = S[c.to] - S[c.from - 1]
    /\ c.size <= AlertBudget
    /\ IsEmpty(c) => c.size = 0
    /\ frame[1] >= frame[0] => c.size = Count(c) * (frame[1] - frame[0]) + c.text

\* Closed chunks follow each other, and each was full when it was closed.
ChainOK(s, S) ==
    /\ s \in Seq(Chunk)
    /\ s # <<>> => s[1].from = 1
    /\ \A i \in 1..Len(s) : RunOK(s[i], S) /\ ~IsEmpty(s[i])
    /\ \A i \in 1..Len(s) - 1 :
          /\ s[i + 1].from = s[i].to + 1
          /\ s[i].size + Measured(alerts[s[i + 1].from]) > AlertBudget

\* c continues the chain s.
Continues(c, s) ==
    /\ s = <<>> => c.from = 1
    /\ s # <<>> => /\ ~IsEmpty(c)
                   /\ c.from = s[Len(s)].to + 1
                   /\ s[Len(s)].size + Measured(alerts[c.from]) > AlertBudget

MeasuredUpTo(n) == \A i \in 1..n : Measured(alerts[i]) <= AlertBudget

\* The alerts need several messages, and there is room for one.
Splits(S) ==
    /\ Sums(S, Len(alerts)) /\ S[Len(alerts)] = text
    /\ frame[Len(alerts)] + text > Limit
    /\ AlertBudget > 0

TypesOK ==
    /\ frame \in Frames
    /\ alerts \in Seq(AlertSizes) /\ Len(alerts) <= MaxAlerts
    /\ step \in Steps
    /\ index \in 0..Len(alerts)
    /\ text \in Nat
    /\ current \in Chunk /\ chunks \in Seq(Chunk) /\ messages \in Seq(Chunk)

Untouched == current = EmptyChunk(1) /\ chunks = <<>> /\ messages = <<>>

WholeOK == step = "whole" => Untouched /\ \E S : Sums(S, index) /\ S[index] = text

MeasureOK == step = "measure" => Untouched /\ MeasuredUpTo(index) /\ \E S : Splits(S)

PackOK ==
    step = "pack" =>
        /\ messages = <<>>
        /\ MeasuredUpTo(Len(alerts))
        /\ current.to = index
        /\ index > 0 => ~IsEmpty(current)
        /\ Continues(current, chunks)
        /\ \E S : Splits(S) /\ ChainOK(chunks, S) /\ RunOK(current, S)

RenderOK ==
    step \in {"render", "overflow", "split"} =>
        /\ chunks # <<>> /\ chunks[Len(chunks)].to = Len(alerts)
        /\ Len(messages) <= Len(chunks)
        /\ \A i \in 1..Len(messages) :
              messages[i] = chunks[i] /\ Rendered(chunks[i], Len(chunks)) <= Limit
        /\ step = "split" => Len(messages) = Len(chunks)
        /\ step = "overflow" =>
              \E i \in 1..Len(chunks) : Rendered(chunks[i], Len(chunks)) > Limit
        /\ \E S : Splits(S) /\ ChainOK(chunks, S)

PackInv == TypesOK /\ WholeOK /\ MeasureOK /\ PackOK /\ RenderOK

-----------------------------------------------------------------------------
\* Lengths.

LEMMA FrameTypes ==
    ASSUME TypesOK
    PROVE  /\ Limit \in Nat /\ PartHeader \in Nat /\ PartCountReserve \in Nat
           /\ \A m \in 0..MaxAlerts : frame[m] \in Nat
           /\ frame[0] \in Nat /\ frame[1] \in Nat
           /\ AlertBudget \in Int
<1>1. MaxAlerts \in Nat /\ MaxAlerts >= 1 /\ Limit \in Nat /\ PartHeader \in Nat
      /\ PartCountReserve \in Nat /\ Frames \subseteq [0..MaxAlerts -> Nat]
  BY PackingAssumption
<1>2. frame \in [0..MaxAlerts -> Nat]
  BY <1>1 DEF TypesOK
<1>3. \A m \in 0..MaxAlerts : frame[m] \in Nat
  BY <1>2
<1>4. 0 \in 0..MaxAlerts /\ 1 \in 0..MaxAlerts
  BY <1>1
<1>5. frame[0] \in Nat /\ frame[1] \in Nat
  BY <1>3, <1>4
<1> QED
  BY <1>1, <1>3, <1>5 DEF AlertBudget

LEMMA AlertTypes ==
    ASSUME TypesOK, NEW i \in 1..Len(alerts)
    PROVE  alerts[i] \in Nat
<1>1. AlertSizes \subseteq Nat
  BY PackingAssumption
<1>2. alerts[i] \in AlertSizes
  BY DEF TypesOK
<1> QED
  BY <1>1, <1>2

\* The charge of an alert is a natural number, whatever the template.
LEMMA MeasuredTypes ==
    ASSUME TypesOK, NEW n \in Nat
    PROVE  /\ Measured(n) \in Nat
           /\ frame[1] >= frame[0] => Measured(n) = (frame[1] - frame[0]) + n
  BY FrameTypes DEF Measured

-----------------------------------------------------------------------------
\* Runs and chains.

LEMMA EmptyRun ==
    ASSUME TypesOK, NEW S, Splits(S)
    PROVE  RunOK(EmptyChunk(1), S) /\ EmptyChunk(1).to = 0 /\ EmptyChunk(1).from = 1
<1> DEFINE e == EmptyChunk(1)
<1>1. e.from = 1 /\ e.to = 0 /\ e.size = 0 /\ e.text = 0 /\ e \in Chunk
  BY DEF EmptyChunk, Chunk
<1>2. S[0] = 0 /\ Len(alerts) \in Nat /\ AlertBudget \in Int /\ AlertBudget > 0
      /\ frame[0] \in Nat /\ frame[1] \in Nat
  BY FrameTypes DEF Splits, Sums, TypesOK
<1> HIDE DEF e
<1>3. RunOK(e, S)
  BY <1>1, <1>2 DEF RunOK, Count
<1> QED
  BY <1>1, <1>3 DEF e

\* Adding an alert of length n to a run.
LEMMA AddFields ==
    ASSUME NEW c \in Chunk, NEW n \in Nat, Measured(n) \in Nat
    PROVE  /\ Add(c, n) \in Chunk
           /\ Add(c, n).from = c.from /\ Add(c, n).to = c.to + 1
           /\ Add(c, n).size = c.size + Measured(n) /\ Add(c, n).text = c.text + n
           /\ Count(Add(c, n)) = Count(c) + 1 /\ Count(c) \in Int
<1>1. c.from \in Nat /\ c.to \in Nat /\ c.size \in Nat /\ c.text \in Nat
  BY DEF Chunk
<1>2. c.to + 1 \in Nat /\ c.size + Measured(n) \in Nat /\ c.text + n \in Nat
  BY <1>1
<1>3. /\ Add(c, n) \in Chunk
      /\ Add(c, n).from = c.from /\ Add(c, n).to = c.to + 1
      /\ Add(c, n).size = c.size + Measured(n) /\ Add(c, n).text = c.text + n
  BY <1>2 DEF Add, Chunk
<1> QED
  BY <1>1, <1>3 DEF Count

\* Another alert is added to the run c.
LEMMA AddRun ==
    ASSUME TypesOK, NEW S, Splits(S), NEW c \in Chunk,
           1 <= c.from, c.from <= c.to + 1, c.to < Len(alerts),
           c.text = S[c.to] - S[c.from - 1],
           frame[1] >= frame[0] => c.size = Count(c) * (frame[1] - frame[0]) + c.text,
           c.size + Measured(alerts[c.to + 1]) <= AlertBudget
    PROVE  /\ RunOK(Add(c, alerts[c.to + 1]), S)
           /\ ~IsEmpty(Add(c, alerts[c.to + 1]))
           /\ Add(c, alerts[c.to + 1]).from = c.from
           /\ Add(c, alerts[c.to + 1]).to = c.to + 1
<1> DEFINE n == alerts[c.to + 1]
           a == Add(c, n)
<1>1. c.from \in Nat /\ c.to \in Nat /\ c.size \in Nat /\ c.text \in Nat
  BY DEF Chunk
<1>2. Len(alerts) \in Nat /\ c.to + 1 \in 1..Len(alerts)
  BY <1>1 DEF TypesOK
<1>3. n \in Nat
  BY <1>2, AlertTypes
<1>4. Measured(n) \in Nat /\ (frame[1] >= frame[0] => Measured(n) = (frame[1] - frame[0]) + n)
  BY <1>3, MeasuredTypes
<1>5. /\ a.from = c.from /\ a.to = c.to + 1 /\ a.size = c.size + Measured(n)
      /\ a.text = c.text + n /\ a \in Chunk
  BY <1>3, <1>4, AddFields
<1>6. S[c.to + 1] = S[c.to] + n
  <2>1. S[c.to + 1] = S[(c.to + 1) - 1] + n
    BY <1>2 DEF Splits, Sums
  <2>2. (c.to + 1) - 1 = c.to
    BY <1>1
  <2> QED
    BY <2>1, <2>2
<1>7. S[c.to] \in Nat /\ S[c.from - 1] \in Nat
  <2>1. c.to \in 0..Len(alerts) /\ c.from - 1 \in 0..Len(alerts)
    BY <1>1, <1>2
  <2>2. S \in [0..Len(alerts) -> Nat]
    BY DEF Splits, Sums
  <2> QED
    BY <2>1, <2>2
<1>8. a.text = S[a.to] - S[a.from - 1]
  <2>1. S[a.to] = S[c.to] + n /\ S[a.from - 1] = S[c.from - 1] /\ a.text = c.text + n
    BY <1>5, <1>6
  <2> HIDE DEF n, a
  <2> QED
    BY <1>1, <1>3, <1>7, <2>1
<1>9. ASSUME frame[1] >= frame[0]
      PROVE  a.size = Count(a) * (frame[1] - frame[0]) + a.text
  <2>1. PICK g \in Int : g = frame[1] - frame[0]
    BY FrameTypes
  <2>2. Count(a) = Count(c) + 1 /\ Count(c) \in Int
    BY <1>3, <1>4, AddFields
  <2>3. c.size = Count(c) * g + c.text /\ Measured(n) = g + n
    BY <1>4, <1>9, <2>1
  <2>4. (Count(c) + 1) * g = Count(c) * g + g
    BY <2>1, <2>2
  <2>5. Count(c) * g \in Int
    BY <2>1, <2>2
  <2> HIDE DEF n, a
  <2>6. c.size + Measured(n) = (Count(c) * g + g) + (c.text + n)
    BY <1>1, <1>3, <2>1, <2>3, <2>5
  <2> QED
    BY <1>5, <2>1, <2>2, <2>4, <2>6
<1>10. a.size <= AlertBudget
  BY <1>5
<1>11. RunOK(a, S) /\ ~IsEmpty(a)
  <2> HIDE DEF n, a
  <2> QED
    BY <1>1, <1>2, <1>5, <1>8, <1>9, <1>10 DEF RunOK, IsEmpty
<1> QED
  BY <1>5, <1>11

LEMMA RunCount ==
    ASSUME TypesOK, NEW S, NEW c, RunOK(c, S), ~IsEmpty(c)
    PROVE  Count(c) \in 1..MaxAlerts /\ c.text \in Nat /\ c.size \in Nat
<1>1. c \in Chunk /\ 1 <= c.from /\ c.to <= Len(alerts) /\ ~(c.to < c.from)
  BY DEF RunOK, IsEmpty
<1>2. c.from \in Nat /\ c.to \in Nat /\ c.text \in Nat /\ c.size \in Nat
  BY <1>1 DEF Chunk
<1>3. Len(alerts) \in Nat /\ Len(alerts) <= MaxAlerts /\ MaxAlerts \in Nat
  BY PackingAssumption DEF TypesOK
<1> QED
  BY <1>1, <1>2, <1>3 DEF Count

\* The run c is closed.
LEMMA AppendChain ==
    ASSUME TypesOK, NEW S, NEW s, ChainOK(s, S), NEW c, RunOK(c, S), ~IsEmpty(c), Continues(c, s)
    PROVE  ChainOK(Append(s, c), S) /\ Append(s, c) # <<>> /\ Append(s, c)[Len(s) + 1] = c
           /\ Len(Append(s, c)) = Len(s) + 1
<1> DEFINE a == Append(s, c)
<1>1. s \in Seq(Chunk) /\ c \in Chunk /\ Len(s) \in Nat
  BY DEF ChainOK, RunOK
<1>2. a \in Seq(Chunk) /\ Len(a) = Len(s) + 1 /\ a[Len(s) + 1] = c
      /\ (\A i \in 1..Len(s) : a[i] = s[i]) /\ a # <<>>
  BY <1>1
<1> HIDE DEF a
<1>3. a[1].from = 1
  <2>1. CASE s = <<>>
    BY <1>2, <2>1 DEF Continues
  <2>2. CASE s # <<>>
    <3>1. Len(s) >= 1
      BY <1>1, <2>2
    <3> QED
      BY <1>1, <1>2, <2>2, <3>1 DEF ChainOK
  <2> QED
    BY <2>1, <2>2
<1>4. ASSUME NEW i \in 1..Len(a) PROVE RunOK(a[i], S) /\ ~IsEmpty(a[i])
  <2>1. CASE i = Len(s) + 1
    BY <1>2, <2>1
  <2>2. CASE i # Len(s) + 1
    <3>1. i \in 1..Len(s)
      BY <1>1, <1>2, <2>2
    <3> QED
      BY <1>2, <3>1 DEF ChainOK
  <2> QED
    BY <2>1, <2>2
<1>5. ASSUME NEW i \in 1..Len(a) - 1
      PROVE  /\ a[i + 1].from = a[i].to + 1
             /\ a[i].size + Measured(alerts[a[i + 1].from]) > AlertBudget
  <2>1. i \in 1..Len(s) /\ a[i] = s[i]
    BY <1>1, <1>2
  <2>2. CASE i = Len(s)
    <3>1. s # <<>> /\ a[i + 1] = c
      BY <1>1, <1>2, <2>1, <2>2
    <3> QED
      BY <2>1, <2>2, <3>1 DEF Continues
  <2>3. CASE i # Len(s)
    <3>1. i \in 1..Len(s) - 1 /\ i + 1 \in 1..Len(s)
      BY <1>1, <2>1, <2>3
    <3>2. a[i + 1] = s[i + 1]
      BY <1>2, <3>1
    <3> QED
      BY <2>1, <3>1, <3>2 DEF ChainOK
  <2> QED
    BY <2>2, <2>3
<1>6. ChainOK(a, S)
  BY <1>2, <1>3, <1>4, <1>5 DEF ChainOK
<1> QED
  BY <1>2, <1>6 DEF a


-----------------------------------------------------------------------------
\* The steps of buildMessages.

LEMMA PackInit == Init => PackInv
<1> SUFFICES ASSUME Init PROVE PackInv
  OBVIOUS
<1>1. frame \in Frames /\ step = "whole" /\ index = 0 /\ text = 0 /\ Untouched
  BY DEF Init, Untouched
<1>2. PICK n \in 0..MaxAlerts : alerts \in [1..n -> AlertSizes]
  BY DEF Init
<1>3. n \in Nat /\ alerts \in Seq(AlertSizes) /\ Len(alerts) = n
  BY <1>2, PackingAssumption
<1>4. EmptyChunk(1) \in Chunk
  BY DEF EmptyChunk, Chunk
<1>5. TypesOK
  <2>1. step \in Steps
    BY <1>1 DEF Steps
  <2>2. Len(alerts) <= MaxAlerts /\ index \in 0..Len(alerts) /\ text \in Nat
    BY <1>1, <1>2, <1>3, PackingAssumption
  <2> QED
    BY <1>1, <1>3, <1>4, <2>1, <2>2 DEF TypesOK, Untouched
<1>6. \E S : Sums(S, index) /\ S[index] = text
  <2> DEFINE Z == [i \in 0..0 |-> 0]
  <2>1. Sums(Z, 0) /\ Z[0] = 0
    BY DEF Sums
  <2> QED
    BY <1>1, <2>1
<1> QED
  BY <1>1, <1>5, <1>6 DEF PackInv, WholeOK, MeasureOK, PackOK, RenderOK

LEMMA RenderWholeStep == ASSUME PackInv, RenderWhole PROVE PackInv'
<1>1. /\ step = "whole" /\ step' = "whole" /\ index < Len(alerts) /\ index' = index + 1
      /\ text' = text + alerts[index + 1]
      /\ UNCHANGED <<frame, alerts, current, chunks, messages>>
  BY DEF RenderWhole
<1>2. TypesOK /\ Len(alerts) \in Nat /\ index \in Nat /\ text \in Nat
  BY DEF PackInv, TypesOK
<1>3. index + 1 \in 1..Len(alerts) /\ index + 1 \in 0..Len(alerts)
  BY <1>1, <1>2
<1>4. alerts[index + 1] \in Nat
  BY <1>2, <1>3, AlertTypes
<1>5. TypesOK'
  BY <1>1, <1>2, <1>3, <1>4 DEF TypesOK
<1>6. PICK m \in Nat : m = index + 1
  BY <1>2
<1>7. \E S : Sums(S, m) /\ S[m] = text + alerts[m]
  <2>1. PICK R : Sums(R, index) /\ R[index] = text
    BY <1>1 DEF PackInv, WholeOK
  <2> DEFINE S == [i \in 0..m |-> IF i = m THEN text + alerts[m] ELSE R[i]]
  <2>2. m >= 1 /\ m - 1 = index /\ alerts[m] \in Nat
    BY <1>2, <1>4, <1>6
  <2>3. R \in [0..index -> Nat] /\ R[0] = 0 /\ \A i \in 1..index : R[i] = R[i - 1] + alerts[i]
    BY <2>1 DEF Sums
  <2>4. S \in [0..m -> Nat] /\ S[0] = 0 /\ S[m] = text + alerts[m]
    BY <1>2, <2>2, <2>3
  <2>5. ASSUME NEW i \in 1..m PROVE S[i] = S[i - 1] + alerts[i]
    <3>1. CASE i = m
      <4>1. S[i - 1] = R[index] /\ S[i] = text + alerts[i]
        BY <1>2, <2>2, <3>1
      <4> QED
        BY <2>1, <4>1
    <3>2. CASE i # m
      <4>1. i \in 1..index /\ i - 1 \in 0..m /\ i - 1 # m /\ i \in 0..m
        BY <1>2, <2>2, <3>2
      <4>2. S[i] = R[i] /\ S[i - 1] = R[i - 1]
        BY <3>2, <4>1
      <4> QED
        BY <2>3, <4>1, <4>2
    <3> QED
      BY <3>1, <3>2
  <2> HIDE DEF S
  <2> QED
    BY <2>4, <2>5 DEF Sums
<1>8. \E S : (Sums(S, index) /\ S[index] = text)'
  <2>1. PICK S : Sums(S, m) /\ S[m] = text + alerts[m]
    BY <1>7
  <2>2. index' = m /\ text' = text + alerts[m] /\ alerts' = alerts
    BY <1>1, <1>6
  <2>3. Sums(S, index)'
    BY <2>1, <2>2 DEF Sums
  <2> QED
    BY <2>1, <2>2, <2>3
<1>9. Untouched'
  BY <1>1 DEF PackInv, WholeOK, Untouched
<1> QED
  BY <1>1, <1>5, <1>8, <1>9 DEF PackInv, WholeOK, MeasureOK, PackOK, RenderOK

LEMMA CheckWholeStep == ASSUME PackInv, CheckWhole PROVE PackInv'
<1>1. /\ step = "whole" /\ index = Len(alerts) /\ index' = 0
      /\ UNCHANGED <<frame, alerts, text, current, chunks, messages>>
      /\ \/ step' \in {"single", "fatal"}
         \/ step' = "measure" /\ frame[Len(alerts)] + text > Limit /\ AlertBudget > 0
  BY DEF CheckWhole
<1>2. TypesOK /\ Len(alerts) \in Nat
  BY DEF PackInv, TypesOK
<1>3. TypesOK'
  BY <1>1, <1>2 DEF TypesOK, Steps, Returns
<1>4. Untouched'
  BY <1>1 DEF PackInv, WholeOK, Untouched
<1>5. MeasureOK'
  <2> SUFFICES ASSUME step' = "measure" PROVE MeasuredUpTo(index)' /\ \E S : Splits(S)'
    BY <1>4 DEF MeasureOK
  <2>1. PICK S : Sums(S, Len(alerts)) /\ S[Len(alerts)] = text
    BY <1>1 DEF PackInv, WholeOK
  <2>2. Splits(S)
    BY <1>1, <2>1 DEF Splits
  <2>3. MeasuredUpTo(index)'
    BY <1>1 DEF MeasuredUpTo
  <2>4. Splits(S)'
    BY <1>1, <2>2 DEF Splits, Sums, AlertBudget
  <2> QED
    BY <2>3, <2>4
<1> QED
  BY <1>1, <1>3, <1>5 DEF PackInv, WholeOK, PackOK, RenderOK

LEMMA MeasureStep == ASSUME PackInv, Measure PROVE PackInv'
<1>1. /\ step = "measure" /\ index < Len(alerts)
      /\ UNCHANGED <<frame, alerts, text, current, chunks, messages>>
      /\ \/ step' = "fatal" /\ index' = index
         \/ /\ step' = "measure" /\ index' = index + 1
            /\ ~(Measured(alerts[index + 1]) > AlertBudget)
  BY DEF Measure
<1>2. TypesOK /\ Len(alerts) \in Nat /\ index \in Nat
  BY DEF PackInv, TypesOK
<1>3. TypesOK'
  BY <1>1, <1>2 DEF TypesOK, Steps, Returns
<1>4. Untouched' /\ \E S : Splits(S)'
  <2>1. Untouched /\ \E S : Splits(S)
    BY <1>1 DEF PackInv, MeasureOK
  <2> QED
    BY <1>1, <2>1 DEF Untouched, Splits, Sums, AlertBudget
<1>5. ASSUME step' = "measure" PROVE MeasuredUpTo(index)'
  <2>1. index + 1 \in 1..Len(alerts)
    BY <1>1, <1>2
  <2>2. Measured(alerts[index + 1]) \in Nat /\ AlertBudget \in Int
    BY <1>2, <2>1, AlertTypes, MeasuredTypes, FrameTypes
  <2>3. Measured(alerts[index + 1]) <= AlertBudget
    BY <1>1, <1>5, <2>2
  <2>4. MeasuredUpTo(index + 1)
    BY <1>1, <1>2, <2>3 DEF PackInv, MeasureOK, MeasuredUpTo
  <2> QED
    BY <1>1, <1>5, <2>4 DEF MeasuredUpTo, Measured, AlertBudget
<1> QED
  BY <1>1, <1>3, <1>4, <1>5 DEF PackInv, WholeOK, MeasureOK, PackOK, RenderOK

LEMMA StartPackingStep == ASSUME PackInv, StartPacking PROVE PackInv'
<1>1. /\ step = "measure" /\ index = Len(alerts) /\ step' = "pack" /\ index' = 0
      /\ UNCHANGED <<frame, alerts, text, current, chunks, messages>>
  BY DEF StartPacking
<1>2. TypesOK /\ Len(alerts) \in Nat
  BY DEF PackInv, TypesOK
<1>3. TypesOK'
  BY <1>1, <1>2 DEF TypesOK, Steps
<1>4. Untouched /\ MeasuredUpTo(Len(alerts))
  BY <1>1 DEF PackInv, MeasureOK
<1>5. PICK S : Splits(S)
  BY <1>1 DEF PackInv, MeasureOK
<1>6. RunOK(current, S) /\ current.to = 0 /\ current.from = 1
  BY <1>2, <1>4, <1>5, EmptyRun DEF Untouched
<1>7. ChainOK(chunks, S)
  BY <1>4 DEF ChainOK, Untouched
<1>8. Continues(current, chunks)
  BY <1>4, <1>6 DEF Continues, Untouched
<1>9. /\ Splits(S)' /\ RunOK(current, S)' /\ ChainOK(chunks, S)' /\ Continues(current, chunks)'
      /\ MeasuredUpTo(Len(alerts))'
  <2>1. Splits(S)'
    BY <1>1, <1>5 DEF Splits, Sums, AlertBudget
  <2>2. RunOK(current, S)'
    BY <1>1, <1>6 DEF RunOK, Count, IsEmpty, AlertBudget
  <2>3. ChainOK(chunks, S)'
    BY <1>1, <1>4 DEF ChainOK, Untouched
  <2>4. Continues(current, chunks)'
    BY <1>1, <1>4, <1>6 DEF Continues, Untouched
  <2>5. MeasuredUpTo(Len(alerts))'
    BY <1>1, <1>4 DEF MeasuredUpTo, Measured, AlertBudget
  <2> QED
    BY <2>1, <2>2, <2>3, <2>4, <2>5
<1>10. PackOK'
  BY <1>1, <1>4, <1>6, <1>9 DEF PackOK, Untouched
<1> QED
  BY <1>1, <1>3, <1>10 DEF PackInv, WholeOK, MeasureOK, RenderOK

LEMMA PackStep == ASSUME PackInv, Pack PROVE PackInv'
<1> DEFINE n == alerts[index + 1]
<1>1. /\ step = "pack" /\ step' = "pack" /\ index < Len(alerts) /\ index' = index + 1
      /\ UNCHANGED <<frame, alerts, text, messages>>
  BY DEF Pack
<1>2. TypesOK /\ Len(alerts) \in Nat /\ index \in Nat
  BY DEF PackInv, TypesOK
<1>3. /\ messages = <<>> /\ MeasuredUpTo(Len(alerts)) /\ current.to = index
      /\ (index > 0 => ~IsEmpty(current)) /\ Continues(current, chunks)
  BY <1>1 DEF PackInv, PackOK
<1>4. PICK S : Splits(S) /\ ChainOK(chunks, S) /\ RunOK(current, S)
  BY <1>1 DEF PackInv, PackOK
<1>5. index + 1 \in 1..Len(alerts)
  BY <1>1, <1>2
<1>6. n \in Nat /\ Measured(n) \in Nat /\ AlertBudget \in Int /\ Measured(n) <= AlertBudget
  <2>1. n \in Nat
    BY <1>2, <1>5, AlertTypes
  <2>2. Measured(n) <= AlertBudget
    BY <1>3, <1>5 DEF MeasuredUpTo
  <2> QED
    BY <1>2, <2>1, <2>2, MeasuredTypes, FrameTypes
<1>7. current \in Chunk /\ current.size \in Nat /\ current.from \in Nat
  BY <1>4 DEF RunOK, Chunk
<1>8. /\ ChainOK(chunks', S)
      /\ RunOK(current', S) /\ ~IsEmpty(current') /\ current'.to = index + 1
      /\ Continues(current', chunks')
  <2>1. CASE Full(current, Measured(n))
    <3> DEFINE e == EmptyChunk(index + 1)
    <3>1. chunks' = Append(chunks, current) /\ current' = Add(e, n)
      BY <2>1 DEF Pack
    <3>2. ~IsEmpty(current) /\ current.size + Measured(n) > AlertBudget
      BY <2>1 DEF Full
    <3>3. ChainOK(chunks', S) /\ chunks' # <<>> /\ chunks'[Len(chunks')] = current
      BY <1>2, <1>3, <1>4, <3>1, <3>2, AppendChain
    <3>4. e \in Chunk /\ e.from = index + 1 /\ e.to = index /\ e.size = 0 /\ e.text = 0
      BY <1>2 DEF EmptyChunk, Chunk
    <3>5. S[index] \in Nat /\ (index + 1) - 1 = index
      <4>1. index \in 0..Len(alerts) /\ S \in [0..Len(alerts) -> Nat]
        BY <1>1, <1>2, <1>4 DEF Splits, Sums
      <4> QED
        BY <1>2, <4>1
    <3>6. frame[0] \in Nat /\ frame[1] \in Nat
      BY <1>2, FrameTypes
    <3> HIDE DEF e
    <3>7. /\ 1 <= e.from /\ e.from <= e.to + 1 /\ e.to < Len(alerts)
          /\ e.text = S[e.to] - S[e.from - 1]
          /\ Count(e) = 0
      BY <1>1, <1>2, <3>4, <3>5 DEF Count
    <3>8. frame[1] >= frame[0] => e.size = Count(e) * (frame[1] - frame[0]) + e.text
      BY <3>4, <3>6, <3>7
    <3>9. e.size + Measured(alerts[e.to + 1]) <= AlertBudget
      BY <1>6, <3>4
    <3>10. /\ RunOK(Add(e, alerts[e.to + 1]), S) /\ ~IsEmpty(Add(e, alerts[e.to + 1]))
           /\ Add(e, alerts[e.to + 1]).from = e.from /\ Add(e, alerts[e.to + 1]).to = e.to + 1
      BY <1>2, <1>4, <3>4, <3>7, <3>8, <3>9, AddRun
    <3>11. current' = Add(e, alerts[e.to + 1])
      BY <3>1, <3>4
    <3>12. Continues(current', chunks')
      BY <1>3, <3>2, <3>3, <3>4, <3>10, <3>11 DEF Continues
    <3> QED
      BY <3>3, <3>4, <3>10, <3>11, <3>12
  <2>2. CASE ~Full(current, Measured(n))
    <3>1. chunks' = chunks /\ current' = Add(current, alerts[current.to + 1])
      BY <1>3, <2>2 DEF Pack
    <3>2. current.size + Measured(alerts[current.to + 1]) <= AlertBudget
      <4>1. CASE IsEmpty(current)
        <5>1. current.size = 0
          BY <1>4, <4>1 DEF RunOK
        <5> QED
          BY <1>3, <1>6, <5>1
      <4>2. CASE ~IsEmpty(current)
        BY <1>3, <1>6, <1>7, <2>2, <4>2 DEF Full
      <4> QED
        BY <4>1, <4>2
    <3>3. /\ RunOK(current', S) /\ ~IsEmpty(current')
          /\ current'.from = current.from /\ current'.to = index + 1
      BY <1>1, <1>2, <1>3, <1>4, <1>7, <3>1, <3>2, AddRun DEF RunOK
    <3>4. Continues(current', chunks')
      BY <1>3, <3>1, <3>3 DEF Continues
    <3> QED
      BY <1>4, <3>1, <3>3, <3>4
  <2> QED
    BY <2>1, <2>2
<1>9. /\ Splits(S)' /\ RunOK(current, S)' /\ ChainOK(chunks, S)' /\ Continues(current, chunks)'
      /\ MeasuredUpTo(Len(alerts))'
  <2>1. Splits(S)'
    BY <1>1, <1>4 DEF Splits, Sums, AlertBudget
  <2>2. RunOK(current, S)'
    BY <1>1, <1>8 DEF RunOK, Count, IsEmpty, AlertBudget
  <2>3. ChainOK(chunks, S)'
    BY <1>1, <1>8 DEF ChainOK, RunOK, Count, IsEmpty, AlertBudget, Measured
  <2>4. Continues(current, chunks)'
    BY <1>1, <1>8 DEF Continues, IsEmpty, Measured, AlertBudget
  <2>5. MeasuredUpTo(Len(alerts))'
    BY <1>1, <1>3 DEF MeasuredUpTo, Measured, AlertBudget
  <2> QED
    BY <2>1, <2>2, <2>3, <2>4, <2>5
<1>10. TypesOK'
  BY <1>1, <1>2, <1>5, <1>8 DEF TypesOK, ChainOK, RunOK
<1>11. PackOK'
  BY <1>1, <1>3, <1>8, <1>9 DEF PackOK, IsEmpty
<1> QED
  BY <1>1, <1>10, <1>11 DEF PackInv, WholeOK, MeasureOK, RenderOK

\* A webhook without alerts is not split: its message is the shell.
LEMMA SplitHasAlerts ==
    ASSUME TypesOK, NEW S, Splits(S)
    PROVE  Len(alerts) > 0
<1>1. Len(alerts) \in Nat /\ Limit \in Nat /\ PartCountReserve \in Nat /\ frame[0] \in Nat
  BY FrameTypes DEF TypesOK
<1>2. ASSUME Len(alerts) = 0 PROVE FALSE
  <2>1. S[0] = 0 /\ S[0] = text /\ frame[0] + text > Limit /\ AlertBudget > 0
    BY <1>2 DEF Splits, Sums
  <2> QED
    BY <1>1, <2>1 DEF AlertBudget
<1> QED
  BY <1>1, <1>2

LEMMA EndPackingStep == ASSUME PackInv, EndPacking PROVE PackInv'
<1>1. /\ step = "pack" /\ step' = "render" /\ index = Len(alerts) /\ index' = index
      /\ chunks' = (IF IsEmpty(current) THEN chunks ELSE Append(chunks, current))
      /\ current' = EmptyChunk(index + 1)
      /\ UNCHANGED <<frame, alerts, text, messages>>
  BY DEF EndPacking
<1>2. TypesOK /\ Len(alerts) \in Nat /\ index \in Nat
  BY DEF PackInv, TypesOK
<1>3. /\ messages = <<>> /\ current.to = index /\ (index > 0 => ~IsEmpty(current))
      /\ Continues(current, chunks)
  BY <1>1 DEF PackInv, PackOK
<1>4. PICK S : Splits(S) /\ ChainOK(chunks, S) /\ RunOK(current, S)
  BY <1>1 DEF PackInv, PackOK
<1>5. ~IsEmpty(current)
  BY <1>1, <1>2, <1>3, <1>4, SplitHasAlerts
<1>6. chunks' = Append(chunks, current)
  BY <1>1, <1>5
<1>7. ChainOK(chunks', S) /\ chunks' # <<>> /\ chunks'[Len(chunks')] = current
  BY <1>2, <1>3, <1>4, <1>5, <1>6, AppendChain
<1>8. Splits(S)' /\ ChainOK(chunks, S)'
  <2>1. Splits(S)'
    BY <1>1, <1>4 DEF Splits, Sums, AlertBudget
  <2>2. ChainOK(chunks, S)'
    BY <1>1, <1>7 DEF ChainOK, RunOK, Count, IsEmpty, AlertBudget, Measured
  <2> QED
    BY <2>1, <2>2
<1>9. EmptyChunk(index + 1) \in Chunk
  BY <1>2 DEF EmptyChunk, Chunk
<1>10. chunks' \in Seq(Chunk) /\ Len(chunks') \in Nat
  BY <1>7 DEF ChainOK
<1>11. TypesOK'
  BY <1>1, <1>2, <1>9, <1>10 DEF TypesOK, Steps
<1>12. RenderOK'
  <2>1. Len(messages') = 0
    BY <1>1, <1>3
  <2>2. chunks'[Len(chunks')].to = Len(alerts')
    BY <1>1, <1>3, <1>7
  <2>3. Len(messages') <= Len(chunks')
    BY <1>10, <2>1
  <2>4. \A i \in 1..Len(messages') : FALSE
    BY <2>1
  <2> QED
    BY <1>1, <1>7, <1>8, <2>2, <2>3, <2>4 DEF RenderOK
<1> QED
  BY <1>1, <1>11, <1>12 DEF PackInv, WholeOK, MeasureOK, PackOK

LEMMA RenderChunkStep == ASSUME PackInv, RenderChunk PROVE PackInv'
<1> DEFINE n == Len(messages) + 1
<1>1. /\ step = "render" /\ n <= Len(chunks)
      /\ UNCHANGED <<frame, alerts, index, text, current, chunks>>
      /\ \/ /\ Rendered(chunks[n], Len(chunks)) > Limit
            /\ step' = "overflow" /\ messages' = messages
         \/ /\ ~(Rendered(chunks[n], Len(chunks)) > Limit)
            /\ step' = "render" /\ messages' = Append(messages, chunks[n])
  BY DEF RenderChunk
<1>2. /\ TypesOK /\ Len(messages) \in Nat /\ Len(chunks) \in Nat
      /\ messages \in Seq(Chunk) /\ chunks \in Seq(Chunk)
  BY DEF PackInv, TypesOK
<1>3. /\ chunks # <<>> /\ chunks[Len(chunks)].to = Len(alerts)
      /\ Len(messages) <= Len(chunks)
      /\ \A i \in 1..Len(messages) :
            messages[i] = chunks[i] /\ Rendered(chunks[i], Len(chunks)) <= Limit
  BY <1>1 DEF PackInv, RenderOK
<1>4. PICK S : Splits(S) /\ ChainOK(chunks, S)
  BY <1>1 DEF PackInv, RenderOK
<1>5. Splits(S)' /\ ChainOK(chunks, S)'
  <2>1. Splits(S)'
    BY <1>1, <1>4 DEF Splits, Sums, AlertBudget
  <2>2. ChainOK(chunks, S)'
    BY <1>1, <1>4 DEF ChainOK, RunOK, Count, IsEmpty, AlertBudget, Measured
  <2> QED
    BY <2>1, <2>2
<1>6. n \in 1..Len(chunks) /\ chunks[n] \in Chunk
  BY <1>1, <1>2
<1>7. \A c, k : Rendered(c, k)' = Rendered(c, k)
  BY <1>1 DEF Rendered, Count
<1>8. CASE /\ Rendered(chunks[n], Len(chunks)) > Limit
           /\ step' = "overflow" /\ messages' = messages
  <2>1. TypesOK'
    BY <1>1, <1>2, <1>8 DEF TypesOK, Steps, Returns
  <2>2. \E i \in 1..Len(chunks) : Rendered(chunks[i], Len(chunks)) > Limit
    BY <1>6, <1>8
  <2>3. RenderOK'
    BY <1>1, <1>3, <1>5, <1>8, <2>2 DEF RenderOK, Rendered, Count
  <2> QED
    BY <1>8, <2>1, <2>3 DEF PackInv, WholeOK, MeasureOK, PackOK
<1>9. CASE /\ ~(Rendered(chunks[n], Len(chunks)) > Limit)
           /\ step' = "render" /\ messages' = Append(messages, chunks[n])
  <2>1. /\ messages' \in Seq(Chunk) /\ Len(messages') = n /\ messages'[n] = chunks[n]
        /\ \A i \in 1..Len(messages) : messages'[i] = messages[i]
    BY <1>2, <1>6, <1>9
  <2>2. TypesOK'
    BY <1>1, <1>2, <1>9, <2>1 DEF TypesOK, Steps
  <2>3. Rendered(chunks[n], Len(chunks)) <= Limit
    <3>1. Rendered(chunks[n], Len(chunks)) \in Int /\ Limit \in Int
      <4>1. RunOK(chunks[n], S) /\ ~IsEmpty(chunks[n])
        BY <1>4, <1>6 DEF ChainOK
      <4>2. Count(chunks[n]) \in 1..MaxAlerts /\ chunks[n].text \in Nat
        BY <1>2, <4>1, RunCount
      <4>3. frame[Count(chunks[n])] \in Nat /\ PartHeader \in Nat /\ Limit \in Nat
        BY <1>2, <4>2, FrameTypes
      <4> QED
        BY <4>2, <4>3 DEF Rendered
    <3> QED
      BY <1>9, <3>1
  <2>4. ASSUME NEW i \in 1..Len(messages')
        PROVE  messages'[i] = chunks[i] /\ Rendered(chunks[i], Len(chunks)) <= Limit
    <3>1. CASE i = n
      BY <2>1, <2>3, <3>1
    <3>2. CASE i # n
      <4>1. i \in 1..Len(messages)
        BY <1>2, <2>1, <3>2
      <4> QED
        BY <1>3, <2>1, <4>1
    <3> QED
      BY <3>1, <3>2
  <2>5. RenderOK'
    BY <1>1, <1>3, <1>5, <1>9, <2>1, <2>4 DEF RenderOK, Rendered, Count
  <2> QED
    BY <1>9, <2>2, <2>5 DEF PackInv, WholeOK, MeasureOK, PackOK
<1> QED
  BY <1>1, <1>8, <1>9

LEMMA FinishStep == ASSUME PackInv, Finish PROVE PackInv'
<1>1. /\ step = "render" /\ step' = "split" /\ Len(messages) = Len(chunks)
      /\ UNCHANGED <<frame, alerts, index, text, current, chunks, messages>>
  BY DEF Finish
<1>2. TypesOK'
  BY <1>1 DEF PackInv, TypesOK, Steps, Returns
<1>3. RenderOK
  BY DEF PackInv
<1>4. PICK S : Splits(S) /\ ChainOK(chunks, S)
  BY <1>1, <1>3 DEF RenderOK
<1>5. Splits(S)'
  BY <1>1, <1>4 DEF Splits, Sums, AlertBudget
<1>6. ChainOK(chunks, S)'
  BY <1>1, <1>4 DEF ChainOK, RunOK, Count, IsEmpty, AlertBudget, Measured
<1>7. RenderOK'
  BY <1>1, <1>3, <1>5, <1>6 DEF RenderOK, Rendered, Count
<1> QED
  BY <1>1, <1>2, <1>7 DEF PackInv, WholeOK, MeasureOK, PackOK

LEMMA FailRenderStep == ASSUME PackInv, FailRender PROVE PackInv'
<1>1. step' = "fatal" /\ UNCHANGED <<frame, alerts, index, text, current, chunks, messages>>
  BY DEF FailRender
<1>2. TypesOK'
  BY <1>1 DEF PackInv, TypesOK, Steps, Returns
<1> QED
  BY <1>1, <1>2 DEF PackInv, WholeOK, MeasureOK, PackOK, RenderOK

LEMMA PackStutter == ASSUME PackInv, UNCHANGED vars PROVE PackInv'
<1>1. UNCHANGED <<frame, alerts, step, index, text, current, chunks, messages>>
  BY DEF vars
<1>2. TypesOK'
  BY <1>1 DEF PackInv, TypesOK
<1>3. WholeOK'
  BY <1>1 DEF PackInv, WholeOK, Untouched, Sums
<1>4. MeasureOK'
  BY <1>1 DEF PackInv, MeasureOK, Untouched, MeasuredUpTo, Measured, Splits, Sums, AlertBudget
<1>5. ASSUME NEW S PROVE Splits(S)' = Splits(S) /\ ChainOK(chunks, S)' = ChainOK(chunks, S)
                         /\ RunOK(current, S)' = RunOK(current, S)
  BY <1>1 DEF Splits, Sums, ChainOK, RunOK, Count, IsEmpty, AlertBudget, Measured
<1>6. PackOK'
  BY <1>1, <1>5 DEF PackInv, PackOK, MeasuredUpTo, Measured, AlertBudget, IsEmpty, Continues
<1>7. RenderOK'
  BY <1>1, <1>5 DEF PackInv, RenderOK, Rendered, Count
<1> QED
  BY <1>2, <1>3, <1>4, <1>6, <1>7 DEF PackInv

LEMMA PackInductive == Init /\ [][Next]_vars => []PackInv
<1>1. PackInv /\ [Next]_vars => PackInv'
  BY RenderWholeStep, CheckWholeStep, MeasureStep, StartPackingStep, PackStep,
     EndPackingStep, RenderChunkStep, FinishStep, FailRenderStep, PackStutter DEF Next
<1> QED
  BY <1>1, PackInit, PTL

\* A webhook whose messages are not packed is an idle packer, and every other step
\* leaves the packer alone.
LEMMA PayloadPacks == PayloadSpec => []PackInv
<1>1. PayloadInit => Init
  <2> SUFFICES ASSUME PayloadInit, task # "template" PROVE Init
    BY DEF PayloadInit
  <2>1. PackingIdle
    BY DEF PayloadInit
  <2>2. AnyFrame \in Frames
    BY PackingAssumption DEF AnyFrame
  <2>3. <<>> \in [1..0 -> AlertSizes] /\ 0 \in 0..MaxAlerts
    BY PackingAssumption
  <2>4. <<>> \in UNION {[1..n -> AlertSizes] : n \in 0..MaxAlerts}
    BY <2>3
  <2> QED
    BY <2>1, <2>2, <2>4 DEF PackingIdle, Init
<1>2. [PayloadNext]_payloadVars => [Next]_vars
  BY DEF PayloadNext, PackMessages, CutMessage, RecognisePayload, SelectLabels, Next,
         payloadVars
<1> QED
  BY <1>1, <1>2, PackInductive, PTL DEF PayloadSpec

-----------------------------------------------------------------------------
\* What packing guarantees.

\* Sizes, chunks and messages have their types: in particular what the packer
\* charges for an alert is never negative, even when the shell without alerts is
\* longer than the message with one.
THEOREM PackingTypes == PayloadSpec => []TypeOK
<1>1. PackInv => TypeOK
  BY DEF PackInv, TypesOK, TypeOK, Steps
<1> QED
  BY <1>1, PayloadPacks, PTL

\* The messages of a split webhook are its alerts, in order and without a gap,
\* and there are several: a single chunk would have fitted as a whole.
THEOREM AllAlertsPacked == PayloadSpec => []NoAlertLost
<1>1. PackInv => NoAlertLost
  <2> SUFFICES ASSUME PackInv, step = "split" PROVE
        /\ Len(messages) > 1
        /\ messages[1].from = 1
        /\ messages[Len(messages)].to = Len(alerts)
        /\ \A i \in 1..Len(messages) : messages[i].from <= messages[i].to
        /\ \A i \in 1..Len(messages) - 1 : messages[i + 1].from = messages[i].to + 1
    BY DEF NoAlertLost
  <2>1. /\ chunks # <<>> /\ chunks[Len(chunks)].to = Len(alerts)
        /\ Len(messages) = Len(chunks)
        /\ \A i \in 1..Len(messages) :
              messages[i] = chunks[i] /\ Rendered(chunks[i], Len(chunks)) <= Limit
    BY DEF PackInv, RenderOK
  <2>2. PICK S : Splits(S) /\ ChainOK(chunks, S)
    BY DEF PackInv, RenderOK
  <2>3. TypesOK /\ Len(chunks) \in Nat /\ Len(chunks) >= 1 /\ Len(alerts) \in Nat
    <3>1. TypesOK /\ chunks \in Seq(Chunk)
      BY DEF PackInv, TypesOK
    <3> QED
      BY <2>1, <3>1 DEF TypesOK
  <2>4. chunks[1].from = 1
    BY <2>1, <2>2 DEF ChainOK
  <2>5. ASSUME NEW i \in 1..Len(messages) PROVE messages[i].from <= messages[i].to
    <3>1. RunOK(chunks[i], S) /\ ~IsEmpty(chunks[i])
      BY <2>1, <2>2 DEF ChainOK
    <3> QED
      BY <2>1, <3>1 DEF RunOK, IsEmpty, Chunk
  <2>6. ASSUME NEW i \in 1..Len(messages) - 1
        PROVE  messages[i + 1].from = messages[i].to + 1
    <3>1. i \in 1..Len(messages) /\ i + 1 \in 1..Len(messages)
      BY <2>1, <2>3
    <3> QED
      BY <2>1, <2>2, <3>1 DEF ChainOK
  <2>7. Len(chunks) # 1
    <3> SUFFICES ASSUME Len(chunks) = 1 PROVE FALSE
      OBVIOUS
    <3>1. RunOK(chunks[1], S) /\ chunks[1].to = Len(alerts)
      BY <2>1, <2>2, <2>3 DEF ChainOK
    <3>2. Count(chunks[1]) = Len(alerts)
      BY <2>3, <2>4, <3>1 DEF Count
    <3>3. S[0] = 0 /\ S[Len(alerts)] = text /\ frame[Len(alerts)] + text > Limit /\ text \in Nat
      BY <2>2, <2>3 DEF Splits, Sums, TypesOK
    <3>4. chunks[1].text = text
      BY <2>4, <3>1, <3>3 DEF RunOK
    <3>5. frame[Len(alerts)] \in Nat /\ Limit \in Nat
      BY <2>3, FrameTypes, PackingAssumption DEF TypesOK
    <3>6. Rendered(chunks[1], 1) = frame[Len(alerts)] + text
      BY <3>2, <3>3, <3>4, <3>5 DEF Rendered
    <3> QED
      BY <2>1, <3>3, <3>5, <3>6
  <2> QED
    BY <2>1, <2>3, <2>4, <2>5, <2>6, <2>7
<1> QED
  BY <1>1, PayloadPacks, PTL

\* Every chunk but the last was closed because the next alert did not fit.
THEOREM TightPacking == PayloadSpec => []PackingIsTight
<1>1. PackInv => PackingIsTight
  <2> SUFFICES ASSUME PackInv, step = "split", NEW i \in 1..Len(messages) - 1
               PROVE  messages[i].size + Measured(alerts[messages[i + 1].from]) > AlertBudget
    BY DEF PackingIsTight
  <2>1. /\ Len(messages) = Len(chunks)
        /\ \A j \in 1..Len(messages) : messages[j] = chunks[j]
    BY DEF PackInv, RenderOK
  <2>2. PICK S : Splits(S) /\ ChainOK(chunks, S)
    BY DEF PackInv, RenderOK
  <2>3. Len(messages) \in Nat
    BY DEF PackInv, TypesOK
  <2>4. i \in 1..Len(messages) /\ i + 1 \in 1..Len(messages)
    BY <2>3
  <2> QED
    BY <2>1, <2>2, <2>4 DEF ChainOK
<1> QED
  BY <1>1, PayloadPacks, PTL

\* A chunk is charged for every alert alone: what that adds up to, with the
\* reserve, covers the frame of the whole chunk and its part header.
THEOREM ReserveIsEnough == PayloadSpec => []ReserveSuffices
<1>1. PackInv => ReserveSuffices
  <2> SUFFICES ASSUME PackInv, ReserveCovers, step = "overflow" PROVE FALSE
    BY DEF ReserveSuffices
  <2>1. PICK i \in 1..Len(chunks) : Rendered(chunks[i], Len(chunks)) > Limit
    BY DEF PackInv, RenderOK
  <2>2. PICK S : Splits(S) /\ ChainOK(chunks, S)
    BY DEF PackInv, RenderOK
  <2> DEFINE c == chunks[i]
             m == Count(c)
  <2>3. RunOK(c, S) /\ ~IsEmpty(c)
    BY <2>2 DEF ChainOK
  <2>4. TypesOK
    BY DEF PackInv
  <2>5. c.text \in Nat /\ c.size \in Nat /\ m \in 1..MaxAlerts
    BY <2>3, <2>4, RunCount
  <2>6. PICK g \in Nat : g = frame[1] - frame[0]
    BY <2>4, FrameTypes DEF ReserveCovers
  <2>7. PICK x \in Int : x = m * g
    BY <2>5, <2>6
  <2>8. c.size = x + c.text /\ c.size <= AlertBudget
    BY <2>3, <2>6, <2>7 DEF RunOK, ReserveCovers
  <2>9. frame[m] + PartHeader <= frame[0] + x + PartCountReserve
    BY <2>5, <2>6, <2>7 DEF ReserveCovers
  <2>10. /\ frame[m] \in Nat /\ frame[0] \in Nat /\ PartHeader \in Nat
         /\ PartCountReserve \in Nat /\ Limit \in Nat
    BY <2>4, <2>5, FrameTypes
  <2>11. Rendered(c, Len(chunks)) <= frame[m] + c.text + PartHeader
    BY <2>5, <2>10 DEF Rendered
  <2> HIDE DEF c, m
  <2>12. frame[m] + c.text + PartHeader <= Limit
    <3>1. x + c.text <= Limit - (frame[0] + PartCountReserve)
      BY <2>8 DEF AlertBudget
    <3>2. \A f, z, t, h, q, l \in Nat :
             x + t <= l - (z + q) /\ f + h <= z + x + q => f + t + h <= l
      BY <2>7
    <3>3. c.text \in Nat
      BY <2>5
    <3> QED
      BY <2>9, <2>10, <3>1, <3>2, <3>3
  <2>13. Rendered(c, Len(chunks)) \in Int
    BY <2>5, <2>10 DEF Rendered, m
  <2> QED
    BY <2>1, <2>5, <2>10, <2>11, <2>12, <2>13 DEF c
<1> QED
  BY <1>1, PayloadPacks, PTL

-----------------------------------------------------------------------------
\* Positions in a text.  Min and Max are the smallest and the largest of a set of
\* them, which exist because the natural numbers are well-founded.

Below == {p \in Nat \X Nat : p[1] < p[2]}

LEMMA BelowWellFounded == IsWellFoundedOn(Below, Nat)
BY NatLessThanWellFounded DEF OpToRel, Below

LEMMA MinOfSet ==
    ASSUME NEW T \in SUBSET Nat, T # {}
    PROVE  Split!Min(T) \in T /\ \A m \in T : Split!Min(T) <= m
<1>1. PICK x \in T : \A y \in T : ~(<<y, x>> \in Below)
  BY BelowWellFounded, WFMin
<1>2. ASSUME NEW y \in T, y < x PROVE FALSE
  <2>1. <<y, x>> \in Nat \X Nat
    OBVIOUS
  <2>2. <<y, x>> \in Below
    BY <1>2, <2>1 DEF Below
  <2> QED
    BY <1>1, <2>2
<1>3. \E m \in T : \A y \in T : m <= y
  BY <1>2
<1> QED
  BY <1>3 DEF Split!Min

LEMMA MaxOfSet ==
    ASSUME NEW n \in Nat, NEW T \in SUBSET (0..n), T # {}
    PROVE  Split!Max(T) \in T /\ \A m \in T : m <= Split!Max(T)
<1> DEFINE U == {n - x : x \in T}
<1>1. U \in SUBSET Nat /\ U # {}
  <2>1. \A x \in T : n - x \in Nat
    OBVIOUS
  <2>2. PICK x \in T : TRUE
    OBVIOUS
  <2>3. n - x \in U
    BY <2>2
  <2> QED
    BY <2>1, <2>3
<1>2. Split!Min(U) \in U /\ \A u \in U : Split!Min(U) <= u
  BY <1>1, MinOfSet
<1>3. PICK x \in T : Split!Min(U) = n - x
  BY <1>2
<1>4. \A y \in T : y <= x
  <2> TAKE y \in T
  <2>1. n - x <= n - y
    BY <1>2, <1>3
  <2> QED
    BY <2>1
<1>5. \E m \in T : \A y \in T : m >= y
  BY <1>4
<1> QED
  BY <1>5 DEF Split!Max

-----------------------------------------------------------------------------

Texts == Seq(Split!Chars)

\* Trimmed text starts and ends with ink.
LEMMA TrimmedText ==
    ASSUME NEW s \in Texts, Split!TrimSpace(s) # <<>>
    PROVE  LET t == Split!TrimSpace(s) IN
           /\ t \in Texts /\ Len(t) \in Nat \ {0}
           /\ t[1] = "ink" /\ t[Len(t)] = "ink"
<1> DEFINE t == Split!TrimSpace(s)
           a == Split!Min(Split!Ink(s))
           b == Split!Max(Split!Ink(s))
<1>1. Split!Ink(s) # {} /\ t = SubSeq(s, a, b)
  BY DEF Split!TrimSpace
<1>2. Split!Ink(s) \in SUBSET Nat /\ Split!Ink(s) \in SUBSET (0..Len(s)) /\ Len(s) \in Nat
  BY DEF Split!Ink, Texts
<1>3. a \in Split!Ink(s) /\ b \in Split!Ink(s) /\ a <= b
  BY <1>1, <1>2, MinOfSet, MaxOfSet
<1>4. a \in 1..Len(s) /\ b \in 1..Len(s) /\ s[a] = "ink" /\ s[b] = "ink"
  BY <1>3 DEF Split!Ink
<1>5. \A i \in a..b : s[i] \in Split!Chars
  <2>1. \A i \in 1..Len(s) : s[i] \in Split!Chars
    BY DEF Texts
  <2> QED
    BY <1>2, <1>4, <2>1
<1> HIDE DEF t, a, b
<1>6. /\ t \in Texts /\ Len(t) = b - a + 1
      /\ \A i \in 1..b - a + 1 : t[i] = s[a + i - 1]
  <2>1. a \in Int /\ b \in Int
    BY <1>2, <1>4
  <2>2. /\ SubSeq(s, a, b) \in Seq(Split!Chars)
        /\ Len(SubSeq(s, a, b)) = IF a <= b THEN b - a + 1 ELSE 0
        /\ \A i \in 1..b - a + 1 : SubSeq(s, a, b)[i] = s[a + i - 1]
    BY <1>5, <2>1, SubSeqProperties
  <2> QED
    BY <1>1, <1>3, <2>2 DEF Texts
<1>7. t[1] = s[a] /\ t[b - a + 1] = s[b] /\ Len(t) \in Nat \ {0}
  BY <1>3, <1>4, <1>6
<1> QED
  BY <1>4, <1>6, <1>7 DEF t

-----------------------------------------------------------------------------

\* A part: positions <<a, b>> of ink, b not before a, that are close enough.
PartOK(p) ==
    /\ p \in (1..Len(message)) \X (1..Len(message))
    /\ p[1] <= p[2] /\ p[2] - p[1] < PassthroughLimit
    /\ message[p[1]] = "ink" /\ message[p[2]] = "ink"

\* The text goes on at position next, which cuts a word only if the part p is full
\* and has no blank.
KeptBefore(p, next) ==
    next = p[2] + 1 => /\ p[2] - p[1] = PassthroughLimit - 1
                       /\ \A i \in p[1]..p[2] : message[i] # "blank"

\* The parts hold the ink of the text before position next, in its order.
CutUpTo(s, next) ==
    /\ s \in Seq((1..Len(message)) \X (1..Len(message)))
    /\ \A n \in 1..Len(s) : PartOK(s[n]) /\ s[n][2] < next
    /\ \A n, k \in 1..Len(s) : n < k => s[n][2] < s[k][1]
    /\ \A n, k \in 1..Len(s) : k = n + 1 => KeptBefore(s[n], s[k][1])
    /\ \A i \in Split!Ink(message) :
          i < next => \E n \in 1..Len(s) : s[n][1] <= i /\ i <= s[n][2]

CutTypes ==
    /\ message \in Texts
    /\ task = "alertmanager" => title \in Texts
    /\ cutStep \in {"choose", "split", "done", "error"}

CutInv ==
    /\ CutTypes
    /\ cutStep \in {"choose", "error"} => from = 1 /\ parts = <<>>
    /\ cutStep = "split" =>
          /\ from \in Split!Ink(message) /\ Len(message) \in Split!Ink(message)
          /\ CutUpTo(parts, from)
          /\ \A n \in 1..Len(parts) : n = Len(parts) => KeptBefore(parts[n], from)
    /\ cutStep = "done" => CutUpTo(parts, Len(message) + 1)

LEMMA CutInit == PayloadInit => CutInv
<1> SUFFICES ASSUME PayloadInit PROVE CutInv
  OBVIOUS
<1>1. cutStep = "choose" /\ from = 1 /\ parts = <<>>
  BY DEF PayloadInit, SplitIdle, Split!Init
<1>2. message \in Texts
  <2>1. CASE task = "alertmanager"
    <3>1. PICK n \in 0..MaxLen : message \in [1..n -> Split!Chars]
      BY <2>1 DEF PayloadInit, Split!Init
    <3>2. n \in Nat
      BY SplitAssumption
    <3> QED
      BY <3>1, <3>2 DEF Texts
  <2>2. CASE task # "alertmanager"
    BY <2>2 DEF PayloadInit, SplitIdle, Texts
  <2> QED
    BY <2>1, <2>2
<1>3. task = "alertmanager" => title \in Texts
  BY SplitAssumption DEF PayloadInit, Split!Init, Texts
<1> QED
  BY <1>1, <1>2, <1>3 DEF CutInv, CutTypes

LEMMA ChooseStep ==
    ASSUME CutInv, task = "alertmanager", Split!Choose, task' = task
    PROVE  CutInv'
<1> DEFINE chosen == IF Split!TrimSpace(message) # <<>> THEN Split!TrimSpace(message)
                                                        ELSE Split!TrimSpace(title)
<1>1. /\ message' = chosen /\ title' = title /\ from' = 1 /\ parts' = <<>>
      /\ cutStep' = IF chosen = <<>> THEN "error" ELSE "split"
  BY DEF Split!Choose, CutInv
<1>2. message \in Texts /\ title \in Texts
  BY DEF CutInv, CutTypes
<1>3. chosen # <<>> => /\ chosen \in Texts /\ Len(chosen) \in Nat \ {0}
                       /\ chosen[1] = "ink" /\ chosen[Len(chosen)] = "ink"
  BY <1>2, TrimmedText
<1>4. <<>> \in Texts
  BY DEF Texts
<1> HIDE DEF chosen
<1>5. CutTypes'
  BY <1>1, <1>2, <1>3, <1>4 DEF CutTypes
<1>6. ASSUME cutStep' = "split"
      PROVE  /\ from' \in Split!Ink(message)' /\ (Len(message) \in Split!Ink(message))'
             /\ CutUpTo(parts, from)'
             /\ (\A n \in 1..Len(parts) : n = Len(parts) => KeptBefore(parts[n], from))'
  <2>1. chosen # <<>>
    BY <1>1, <1>6
  <2>2. from' \in Split!Ink(message)' /\ (Len(message) \in Split!Ink(message))'
    BY <1>1, <1>3, <2>1 DEF Split!Ink
  <2>3. \A i \in Split!Ink(message)' : ~(i < from')
    BY <1>1 DEF Split!Ink
  <2>4. CutUpTo(parts, from)'
    BY <1>1, <2>3 DEF CutUpTo
  <2> QED
    BY <1>1, <2>2, <2>4
<1> QED
  BY <1>1, <1>5, <1>6 DEF CutInv

\* A part that starts at the next position is added.
LEMMA AddPart ==
    ASSUME NEW first \in Nat, CutUpTo(parts, first),
           \A n \in 1..Len(parts) : n = Len(parts) => KeptBefore(parts[n], first),
           NEW p, PartOK(p), p[1] = first,
           NEW next \in Nat, p[2] < next,
           \A i \in Split!Ink(message) : i < next => i < first \/ (first <= i /\ i <= p[2]),
           message \in Texts, message' = message, parts' = Append(parts, p)
    PROVE  /\ Len(parts') = Len(parts) + 1 /\ parts'[Len(parts) + 1] = p
           /\ CutUpTo(parts', next)
<1> DEFINE Position == 1..Len(message)
           N == Len(parts)
<1>1. /\ parts \in Seq(Position \X Position) /\ p \in Position \X Position
      /\ N \in Nat /\ Position \subseteq Nat
      /\ \A n \in 1..N : PartOK(parts[n]) /\ parts[n][2] < first
  <2>1. p \in Position \X Position
    BY DEF PartOK
  <2>2. /\ parts \in Seq(Position \X Position)
        /\ \A n \in 1..N : PartOK(parts[n]) /\ parts[n][2] < first
    BY DEF CutUpTo
  <2>3. N \in Nat /\ Position \subseteq Nat
    BY <2>2 DEF Texts
  <2> QED
    BY <2>1, <2>2, <2>3
<1>2. /\ parts' \in Seq(Position \X Position) /\ Len(parts') = N + 1
      /\ \A n \in 1..N : parts'[n] = parts[n]
      /\ parts'[N + 1] = p
  BY <1>1
<1>3. 1..N + 1 = (1..N) \cup {N + 1} /\ N + 1 \notin 1..N
  BY <1>1
<1>4. \A n \in 1..N + 1 : PartOK(parts'[n])
  BY <1>1, <1>2, <1>3
<1>5. ASSUME NEW n \in 1..N PROVE parts'[n] = parts[n] /\ parts[n][1] \in Nat /\ parts[n][2] \in Nat
                                  /\ parts[n][2] < first /\ parts[n][2] < next /\ n < N + 1
  <2>1. parts[n][1] \in Nat /\ parts[n][2] \in Nat /\ p[2] \in Nat /\ first <= p[2]
    BY <1>1 DEF PartOK
  <2> QED
    BY <1>1, <1>2, <2>1
<1>6. \A n \in 1..N + 1 : parts'[n][2] < next
  BY <1>2, <1>3, <1>5
<1>7. \A n, k \in 1..N + 1 : n < k => parts'[n][2] < parts'[k][1]
  <2> SUFFICES ASSUME NEW n \in 1..N + 1, NEW k \in 1..N + 1, n < k
               PROVE  parts'[n][2] < parts'[k][1]
    OBVIOUS
  <2>1. n \in 1..N
    BY <1>1
  <2>2. CASE k = N + 1
    BY <1>2, <1>5, <2>1, <2>2
  <2>3. CASE k \in 1..N
    BY <1>2, <2>1, <2>3 DEF CutUpTo
  <2> QED
    BY <1>3, <2>2, <2>3
<1>8. \A n, k \in 1..N + 1 : k = n + 1 => KeptBefore(parts'[n], parts'[k][1])
  <2> SUFFICES ASSUME NEW n \in 1..N + 1, NEW k \in 1..N + 1, k = n + 1
               PROVE  KeptBefore(parts'[n], parts'[k][1])
    OBVIOUS
  <2>1. n \in 1..N
    BY <1>1
  <2>2. CASE k = N + 1
    <3>1. n = N
      BY <1>1, <2>2
    <3> QED
      BY <1>2, <2>1, <2>2, <3>1
  <2>3. CASE k \in 1..N
    BY <1>2, <2>1, <2>3 DEF CutUpTo
  <2> QED
    BY <1>3, <2>2, <2>3
<1>9. ASSUME NEW i \in Split!Ink(message), i < next
      PROVE  \E n \in 1..N + 1 : parts'[n][1] <= i /\ i <= parts'[n][2]
  <2>1. CASE i < first
    <3>1. PICK n \in 1..N : parts[n][1] <= i /\ i <= parts[n][2]
      BY <2>1 DEF CutUpTo
    <3> QED
      BY <1>2, <1>3, <3>1
  <2>2. CASE first <= i /\ i <= p[2]
    BY <1>2, <1>3, <2>2
  <2> QED
    BY <1>9, <2>1, <2>2
<1> QED
  BY <1>1, <1>2, <1>4, <1>6, <1>7, <1>8, <1>9 DEF CutUpTo

LEMMA LastPartStep ==
    ASSUME CutInv, task = "alertmanager", Split!LastPart, task' = task
    PROVE  CutInv'
<1> DEFINE p == <<from, Len(message)>>
<1>1. /\ cutStep = "split" /\ cutStep' = "done"
      /\ Len(message) - from + 1 \in 1..PassthroughLimit
      /\ parts' = Append(parts, p) /\ UNCHANGED <<message, title, from>>
  BY DEF Split!LastPart, Split!Remaining
<1>2. /\ message \in Texts /\ Len(message) \in Nat /\ PassthroughLimit \in Nat
      /\ from \in 1..Len(message) /\ Len(message) \in 1..Len(message)
      /\ message[from] = "ink" /\ message[Len(message)] = "ink"
  BY <1>1, SplitAssumption DEF CutInv, CutTypes, Split!Ink, Texts
<1>3. PartOK(p)
  BY <1>1, <1>2 DEF PartOK
<1>4. \A i \in Split!Ink(message) : i < from \/ (from <= i /\ i <= p[2])
  BY <1>2 DEF Split!Ink
<1>5. CutUpTo(parts', Len(message) + 1)
  <2>1. /\ CutUpTo(parts, from)
        /\ \A n \in 1..Len(parts) : n = Len(parts) => KeptBefore(parts[n], from)
    BY <1>1 DEF CutInv
  <2>2. from \in Nat /\ Len(message) + 1 \in Nat /\ p[1] = from /\ p[2] < Len(message) + 1
    BY <1>2
  <2> HIDE DEF p
  <2> QED
    BY <1>1, <1>2, <1>3, <1>4, <2>1, <2>2, AddPart
<1>6. CutUpTo(parts, Len(message) + 1)'
  BY <1>1, <1>5 DEF CutUpTo, PartOK, KeptBefore
<1> QED
  BY <1>1, <1>6 DEF CutInv, CutTypes

\* Where the text at hand is cut: behind its first character, within the limit, and
\* at a blank unless there is none.
LEMMA CutPlace ==
    ASSUME message \in Texts, NEW first \in 1..Len(message),
           Len(message) - first + 1 > PassthroughLimit, message[first] = "ink"
    PROVE  LET cut == Split!lastFittingCut(first) IN
           /\ cut \in Nat /\ first < cut /\ cut <= first + PassthroughLimit /\ cut <= Len(message)
           /\ message[cut] # "blank" => /\ cut = first + PassthroughLimit
                                        /\ \A i \in first..cut - 1 : message[i] # "blank"
<1> DEFINE blanks == {i \in first + 1..first + PassthroughLimit - 1 : message[i] = "blank"}
           cut == Split!lastFittingCut(first)
<1>1. Len(message) \in Nat /\ PassthroughLimit \in Nat \ {0}
  BY SplitAssumption DEF Texts
<1>2. CASE blanks # {}
  <2>1. cut = Split!Max(blanks)
    BY <1>2 DEF Split!lastFittingCut
  <2>2. blanks \in SUBSET (0..Len(message))
    BY <1>1
  <2>3. cut \in blanks
    BY <1>1, <1>2, <2>1, <2>2, MaxOfSet
  <2> HIDE DEF cut
  <2> QED
    BY <1>1, <2>3 DEF cut
<1>3. CASE blanks = {}
  <2>1. cut = first + PassthroughLimit
    BY <1>3 DEF Split!lastFittingCut
  <2>2. \A i \in first + 1..first + PassthroughLimit - 1 : message[i] # "blank"
    BY <1>3
  <2> HIDE DEF cut, blanks
  <2>3. \A i \in first..cut - 1 : message[i] # "blank"
    <3> TAKE i \in first..cut - 1
    <3>1. i = first \/ i \in first + 1..first + PassthroughLimit - 1
      BY <1>1, <2>1
    <3> QED
      BY <2>2, <3>1
  <2> QED
    BY <1>1, <2>1, <2>3 DEF cut
<1> QED
  BY <1>2, <1>3

LEMMA CutPartStep ==
    ASSUME CutInv, task = "alertmanager", Split!CutPart, task' = task
    PROVE  CutInv'
<1> DEFINE cut == Split!lastFittingCut(from)
           before == {i \in Split!Ink(message) : from <= i /\ i < cut}
           behind == {i \in Split!Ink(message) : i >= cut} \cup {Len(message) + 1}
           last == Split!Max(before)
           p == <<from, last>>
<1>1. /\ cutStep = "split" /\ Len(message) - from + 1 > PassthroughLimit
      /\ parts' = Append(parts, IF before = {} THEN <<>> ELSE <<Split!Min(before), Split!Max(before)>>)
      /\ from' = Split!Min(behind)
      /\ cutStep' = IF from' > Len(message) THEN "done" ELSE cutStep
      /\ UNCHANGED <<message, title>>
  BY DEF Split!CutPart, Split!Remaining
<1>2. /\ message \in Texts /\ Len(message) \in Nat /\ PassthroughLimit \in Nat \ {0}
      /\ from \in 1..Len(message) /\ Len(message) \in 1..Len(message)
      /\ message[from] = "ink" /\ message[Len(message)] = "ink"
  BY <1>1, SplitAssumption DEF CutInv, CutTypes, Split!Ink, Texts
<1>3. /\ cut \in Nat /\ from < cut /\ cut <= from + PassthroughLimit /\ cut <= Len(message)
      /\ message[cut] # "blank" => /\ cut = from + PassthroughLimit
                                   /\ \A i \in from..cut - 1 : message[i] # "blank"
  BY <1>1, <1>2, CutPlace
<1>4. \A i \in Split!Ink(message) : i \in 1..Len(message) /\ message[i] = "ink"
  BY DEF Split!Ink
<1> HIDE DEF cut
<1>5. /\ before \in SUBSET (0..Len(message)) /\ before \in SUBSET Nat /\ from \in before
      /\ Len(message) \in behind /\ behind \in SUBSET Nat
  BY <1>2, <1>3, <1>4 DEF Split!Ink
<1>6. last \in before /\ \A i \in before : i <= last
  BY <1>2, <1>5, MaxOfSet
<1>7. Split!Min(before) = from
  <2>1. Split!Min(before) \in before /\ Split!Min(before) <= from
    BY <1>5, MinOfSet
  <2> QED
    BY <1>2, <1>5, <2>1
<1>8. from' \in behind /\ (\A i \in behind : from' <= i)
  BY <1>1, <1>5, MinOfSet
<1>9. parts' = Append(parts, p)
  BY <1>1, <1>5, <1>7
<1> HIDE DEF last
<1>10. /\ last \in 1..Len(message) /\ from <= last /\ last < cut /\ message[last] = "ink"
       /\ from' \in Split!Ink(message) /\ from' \in 1..Len(message) /\ cut <= from'
       /\ message[from'] = "ink"
  <2>1. from' <= Len(message)
    BY <1>5, <1>8
  <2> QED
    BY <1>2, <1>4, <1>6, <1>8, <2>1
<1>11. PartOK(p)
  BY <1>2, <1>3, <1>10 DEF PartOK
<1>12. \A i \in Split!Ink(message) : i < from' => i < from \/ (from <= i /\ i <= p[2])
  <2> SUFFICES ASSUME NEW i \in Split!Ink(message), i < from', ~(i < from) PROVE i <= last /\ from <= i
    OBVIOUS
  <2>1. i \in Nat /\ from' \in Nat /\ from \in Nat
    BY <1>2, <1>4, <1>10
  <2>2. i < cut
    BY <1>3, <1>8, <2>1
  <2>3. i \in before
    BY <2>1, <2>2
  <2> QED
    BY <1>6, <2>3
<1>13. KeptBefore(p, from')
  <2> SUFFICES ASSUME from' = last + 1
               PROVE  /\ last - from = PassthroughLimit - 1
                      /\ \A i \in from..last : message[i] # "blank"
    BY DEF KeptBefore
  <2>1. from' = cut
    BY <1>3, <1>10
  <2>2. message[cut] # "blank"
    BY <1>10, <2>1
  <2> QED
    BY <1>2, <1>3, <1>10, <2>1, <2>2
<1>14. /\ CutUpTo(parts', from')
       /\ Len(parts') = Len(parts) + 1 /\ parts'[Len(parts) + 1] = p
  <2>1. /\ CutUpTo(parts, from)
        /\ \A n \in 1..Len(parts) : n = Len(parts) => KeptBefore(parts[n], from)
    BY <1>1 DEF CutInv
  <2>2. from \in Nat /\ from' \in Nat /\ p[1] = from /\ p[2] < from'
    BY <1>2, <1>3, <1>10
  <2> HIDE DEF p
  <2> QED
    <3>1. message \in Texts /\ message' = message
      BY <1>1, <1>2
    <3> QED
      BY <1>9, <1>11, <1>12, <2>1, <2>2, <3>1, AddPart
<1>15. CutUpTo(parts, from)'
  <2>1. message' = message
    BY <1>1
  <2> QED
    BY <1>14, <2>1 DEF CutUpTo, PartOK, KeptBefore
<1>16. (\A n \in 1..Len(parts) : n = Len(parts) => KeptBefore(parts[n], from))'
  <2> HIDE DEF p
  <2> QED
    BY <1>1, <1>13, <1>14 DEF KeptBefore
<1>17. cutStep' = "split" /\ from' \in Split!Ink(message)' /\ Len(message)' \in Split!Ink(message)'
  BY <1>1, <1>2, <1>10 DEF Split!Ink
<1> QED
  BY <1>1, <1>15, <1>16, <1>17 DEF CutInv, CutTypes

LEMMA CutStutter == ASSUME CutInv, UNCHANGED <<task, splitVars>> PROVE CutInv'
<1>1. UNCHANGED <<task, message, title, cutStep, from, parts>>
  BY DEF splitVars
<1>2. CutTypes' = CutTypes /\ \A n : (PartOK(n)' = PartOK(n) /\ \A m : KeptBefore(n, m)' = KeptBefore(n, m))
  BY <1>1 DEF CutTypes, PartOK, KeptBefore
<1>3. \A m : (CutUpTo(parts, m)' <=> CutUpTo(parts, m))
  BY <1>1 DEF CutUpTo, PartOK, KeptBefore
<1> QED
  BY <1>1, <1>2, <1>3 DEF CutInv, KeptBefore

LEMMA CutInductive == PayloadSpec => []CutInv
<1>1. CutInv /\ [PayloadNext]_payloadVars => CutInv'
  <2> SUFFICES ASSUME CutInv, [PayloadNext]_payloadVars PROVE CutInv'
    OBVIOUS
  <2>1. CASE CutMessage
    BY <2>1, ChooseStep, LastPartStep, CutPartStep DEF CutMessage
  <2>2. CASE ~CutMessage
    <3>1. UNCHANGED <<task, splitVars>>
      BY <2>2 DEF PayloadNext, PackMessages, RecognisePayload, SelectLabels, payloadVars
    <3> QED
      BY <3>1, CutStutter
  <2> QED
    BY <2>1, <2>2
<1> QED
  BY <1>1, CutInit, PTL DEF PayloadSpec

-----------------------------------------------------------------------------
\* What cutting guarantees.

\* Every part is text that Telegram accepts: not blank, trimmed, and within the
\* limit, however long the message is and wherever its blanks are.
THEOREM PartsFit == PayloadSpec => []PartsAreSendable
<1>1. CutInv => PartsAreSendable
  <2> SUFFICES ASSUME CutInv PROVE PartsAreSendable
    OBVIOUS
  <2>1. \A n \in 1..Len(parts) : PartOK(parts[n])
    BY DEF CutInv, CutUpTo, CutTypes
  <2> QED
    BY <2>1 DEF PartsAreSendable, Split!PartsAreSendable, PartOK
<1> QED
  BY <1>1, CutInductive, PTL

\* When the function returns, every character that is not white space is in exactly
\* one part, and the parts are in the order of the text.
THEOREM InkIsKept == PayloadSpec => []NoInkLost
<1>1. CutInv => NoInkLost
  <2> SUFFICES ASSUME CutInv, cutStep = "done"
               PROVE  /\ \A i \in Split!Ink(message) :
                           Cardinality({n \in 1..Len(parts) : parts[n][1] <= i /\ i <= parts[n][2]}) = 1
                      /\ \A n \in 1..Len(parts) - 1 : parts[n][2] < parts[n + 1][1]
    BY DEF NoInkLost, Split!NoInkLost, Split!Cardinality, Cardinality
  <2>1. CutUpTo(parts, Len(message) + 1) /\ message \in Texts
    BY DEF CutInv, CutTypes
  <2>2. /\ Len(parts) \in Nat /\ Len(message) \in Nat
        /\ \A n \in 1..Len(parts) : parts[n][1] \in Nat /\ parts[n][2] \in Nat
    BY <2>1 DEF CutUpTo, PartOK, Texts
  <2>3. \A n, k \in 1..Len(parts) : n < k => parts[n][2] < parts[k][1]
    BY <2>1 DEF CutUpTo
  <2>4. ASSUME NEW i \in Split!Ink(message)
        PROVE  Cardinality({n \in 1..Len(parts) : parts[n][1] <= i /\ i <= parts[n][2]}) = 1
    <3>1. i \in Nat /\ i < Len(message) + 1
      BY <2>2 DEF Split!Ink
    <3>2. PICK n \in 1..Len(parts) : parts[n][1] <= i /\ i <= parts[n][2]
      BY <2>1, <3>1 DEF CutUpTo
    <3>3. ASSUME NEW k \in 1..Len(parts), parts[k][1] <= i, i <= parts[k][2] PROVE k = n
      <4>1. n \in Nat /\ k \in Nat
        BY <2>2
      <4>2. ~(n < k)
        <5>1. parts[n][2] \in Nat /\ parts[k][1] \in Nat /\ ~(parts[n][2] < parts[k][1])
          BY <2>2, <3>1, <3>2, <3>3
        <5> QED
          BY <2>3, <5>1
      <4>3. ~(k < n)
        <5>1. parts[k][2] \in Nat /\ parts[n][1] \in Nat /\ ~(parts[k][2] < parts[n][1])
          BY <2>2, <3>1, <3>2, <3>3
        <5> QED
          BY <2>3, <5>1
      <4> QED
        BY <4>1, <4>2, <4>3
    <3>4. {k \in 1..Len(parts) : parts[k][1] <= i /\ i <= parts[k][2]} = {n}
      BY <3>2, <3>3
    <3> QED
      BY <3>4, FS_Singleton
  <2>5. \A n \in 1..Len(parts) - 1 : parts[n][2] < parts[n + 1][1]
    BY <2>2, <2>3
  <2> QED
    BY <2>4, <2>5
<1> QED
  BY <1>1, CutInductive, PTL

\* Two parts are neighbours in the text only when the first one is full and has no
\* blank at which it could have been cut.
THEOREM WordsAreWhole == PayloadSpec => []WordsAreKept
<1>1. CutInv => WordsAreKept
  <2> SUFFICES ASSUME CutInv, NEW n \in 1..Len(parts) - 1, parts[n + 1][1] = parts[n][2] + 1
               PROVE  /\ parts[n][2] - parts[n][1] = PassthroughLimit - 1
                      /\ \A i \in parts[n][1]..parts[n][2] : message[i] # "blank"
    BY DEF WordsAreKept, Split!WordsAreKept
  <2>1. parts = <<>> \/ \E m : CutUpTo(parts, m)
    BY DEF CutInv, CutTypes
  <2>2. Len(parts) \in Nat /\ n \in 1..Len(parts) /\ n + 1 \in 1..Len(parts)
    <3>1. parts = <<>> \/ parts \in Seq((1..Len(message)) \X (1..Len(message)))
      BY <2>1 DEF CutUpTo
    <3>2. Len(parts) \in Nat
      BY <3>1
    <3> QED
      BY <3>2
  <2>3. KeptBefore(parts[n], parts[n + 1][1])
    BY <2>1, <2>2 DEF CutUpTo
  <2> QED
    BY <2>3 DEF KeptBefore
<1> QED
  BY <1>1, CutInductive, PTL
=============================================================================
