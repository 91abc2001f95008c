----------------------------- MODULE ChatProofs -----------------------------
(***************************************************************************)
(* What the row says of the chat, for every number of requests, events,    *)
(* renderings and faults: a 'delivered' row has reached the chat in full,  *)
(* sent_parts never moves back, nothing is posted twice without a known    *)
(* cause, and the pipeline implements the Outbox.                          *)
(*                                                                         *)
(* First every step is classified by what it does to the columns of a row, *)
(* to the history of the event and to the goroutines that will write the   *)
(* row (StepKinds): the invariants here and in AttemptProofs are shown     *)
(* kind by kind, event by event.                                           *)
(***************************************************************************)
EXTENDS DeliveryProofs

-----------------------------------------------------------------------------
\* What statements do to the columns of a row.

Columns(q, status, parts, sent, attempts) ==
    q.status = status /\ q.parts = parts /\ q.sent = sent /\ q.attempts = attempts

\* Columns other than the assigned ones stay.
LEMMA ColumnUpdates ==
    ASSUME NEW r \in Row
    PROVE  /\ \A s, w : Columns([r EXCEPT !.status = s, !.waiting = w],
                                s, r.parts, r.sent, r.attempts)
           /\ \A s, w, a : Columns([r EXCEPT !.status = s, !.waiting = w, !.attempts = a],
                                   s, r.parts, r.sent, a)
           /\ \A s, w, n : Columns([r EXCEPT !.status = s, !.sent = n, !.waiting = w],
                                   s, r.parts, n, r.attempts)
           /\ \A p : Columns([r EXCEPT !.parts = p], r.status, p, r.sent, r.attempts)
           /\ \A n : Columns([r EXCEPT !.sent = n], r.status, r.parts, n, r.attempts)
           /\ \A w : Columns([r EXCEPT !.waiting = w], r.status, r.parts, r.sent, r.attempts)
           /\ \A e : Columns([r EXCEPT !.elders = e], r.status, r.parts, r.sent, r.attempts)
  BY DEF Row, Columns

\* A statement on the row of event k, when there is one.
LEMMA StatementColumns ==
    ASSUME NEW d \in [Keys -> Row], NEW k \in Keys, Stored(d, k)
    PROVE  LET r == d[k] IN
           /\ Columns(MarkQueued(d, k)[k], "queued", r.parts, r.sent, r.attempts)
           /\ Columns(ClaimForSend(d, k)[k], "sending", r.parts, r.sent, r.attempts + 1)
           /\ \A p : Columns(SaveRenderedParts(d, k, p)[k], r.status, p, r.sent, r.attempts)
           /\ \A n : Columns(MarkChunkSent(d, k, n)[k], r.status, r.parts, n, r.attempts)
           /\ \A n : Columns(MarkDelivered(d, k, n)[k], "delivered", r.parts, n, r.attempts)
           /\ \A w : Columns(ScheduleRetry(d, k, w)[k],
                             "retry_scheduled", r.parts, r.sent, r.attempts)
           /\ \A s : Columns(MarkTerminal(d, k, s)[k], s, r.parts, r.sent, r.attempts)
           /\ \A i \in Keys \ {k} :
                /\ MarkQueued(d, k)[i] = d[i]
                /\ ClaimForSend(d, k)[i] = d[i]
                /\ \A p : SaveRenderedParts(d, k, p)[i] = d[i]
                /\ \A n : MarkChunkSent(d, k, n)[i] = d[i]
                /\ \A n : MarkDelivered(d, k, n)[i] = d[i]
                /\ \A w : ScheduleRetry(d, k, w)[i] = d[i]
                /\ \A s : MarkTerminal(d, k, s)[i] = d[i]
<1> DEFINE r == d[k]
<1>1. r \in Row
  OBVIOUS
<1>2. \A q : /\ Update(d, k, q) = [d EXCEPT ![k] = q]
             /\ [d EXCEPT ![k] = q][k] = q
             /\ \A i \in Keys \ {k} : [d EXCEPT ![k] = q][i] = d[i]
  BY DEF Update
<1>3. ASSUME NEW new, NEW q, new = [d EXCEPT ![k] = q]
      PROVE  new[k] = q /\ \A i \in Keys \ {k} : new[i] = d[i]
  BY <1>2, <1>3, Zenon
<1>4. /\ Columns(MarkQueued(d, k)[k], "queued", r.parts, r.sent, r.attempts)
      /\ \A i \in Keys \ {k} : MarkQueued(d, k)[i] = d[i]
  <2>1. MarkQueued(d, k) = [d EXCEPT ![k] =
          [r EXCEPT !.status = "queued", !.waiting = FALSE]]
    BY <1>2, Zenon DEF MarkQueued
  <2>2. Columns([r EXCEPT !.status = "queued", !.waiting = FALSE],
                "queued", r.parts, r.sent, r.attempts)
    BY <1>1, ColumnUpdates, Zenon
  <2> QED
    BY <1>3, <2>1, <2>2, Zenon
<1>5. /\ Columns(ClaimForSend(d, k)[k], "sending", r.parts, r.sent, r.attempts + 1)
      /\ \A i \in Keys \ {k} : ClaimForSend(d, k)[i] = d[i]
  <2>1. ClaimForSend(d, k) = [d EXCEPT ![k] =
          [r EXCEPT !.status = "sending", !.waiting = FALSE, !.attempts = r.attempts + 1]]
    BY Zenon DEF ClaimForSend
  <2>2. Columns([r EXCEPT !.status = "sending", !.waiting = FALSE, !.attempts = r.attempts + 1],
                "sending", r.parts, r.sent, r.attempts + 1)
    BY <1>1, ColumnUpdates, Zenon
  <2> QED
    BY <1>3, <2>1, <2>2, Zenon
<1>6. ASSUME NEW p
      PROVE  /\ Columns(SaveRenderedParts(d, k, p)[k], r.status, p, r.sent, r.attempts)
             /\ \A i \in Keys \ {k} : SaveRenderedParts(d, k, p)[i] = d[i]
  <2>1. SaveRenderedParts(d, k, p) = [d EXCEPT ![k] =
          [r EXCEPT !.parts = p]]
    BY <1>2, Zenon DEF SaveRenderedParts
  <2>2. Columns([r EXCEPT !.parts = p],
                r.status, p, r.sent, r.attempts)
    BY <1>1, ColumnUpdates, Zenon
  <2> QED
    BY <1>3, <2>1, <2>2, Zenon
<1>7. ASSUME NEW n
      PROVE  /\ Columns(MarkChunkSent(d, k, n)[k], r.status, r.parts, n, r.attempts)
             /\ \A i \in Keys \ {k} : MarkChunkSent(d, k, n)[i] = d[i]
  <2>1. MarkChunkSent(d, k, n) = [d EXCEPT ![k] =
          [r EXCEPT !.sent = n]]
    BY <1>2, Zenon DEF MarkChunkSent
  <2>2. Columns([r EXCEPT !.sent = n],
                r.status, r.parts, n, r.attempts)
    BY <1>1, ColumnUpdates, Zenon
  <2> QED
    BY <1>3, <2>1, <2>2, Zenon
<1>8. ASSUME NEW n
      PROVE  /\ Columns(MarkDelivered(d, k, n)[k], "delivered", r.parts, n, r.attempts)
             /\ \A i \in Keys \ {k} : MarkDelivered(d, k, n)[i] = d[i]
  <2>1. MarkDelivered(d, k, n) = [d EXCEPT ![k] =
          [r EXCEPT !.status = "delivered", !.sent = n, !.waiting = FALSE]]
    BY <1>2, Zenon DEF MarkDelivered
  <2>2. Columns([r EXCEPT !.status = "delivered", !.sent = n, !.waiting = FALSE],
                "delivered", r.parts, n, r.attempts)
    BY <1>1, ColumnUpdates, Zenon
  <2> QED
    BY <1>3, <2>1, <2>2, Zenon
<1>9. ASSUME NEW w
      PROVE  /\ Columns(ScheduleRetry(d, k, w)[k], "retry_scheduled", r.parts, r.sent, r.attempts)
             /\ \A i \in Keys \ {k} : ScheduleRetry(d, k, w)[i] = d[i]
  <2>1. ScheduleRetry(d, k, w) = [d EXCEPT ![k] =
          [r EXCEPT !.status = "retry_scheduled", !.waiting = w]]
    BY <1>2, Zenon DEF ScheduleRetry
  <2>2. Columns([r EXCEPT !.status = "retry_scheduled", !.waiting = w],
                "retry_scheduled", r.parts, r.sent, r.attempts)
    BY <1>1, ColumnUpdates, Zenon
  <2> QED
    BY <1>3, <2>1, <2>2, Zenon
<1>10. ASSUME NEW s
      PROVE  /\ Columns(MarkTerminal(d, k, s)[k], s, r.parts, r.sent, r.attempts)
             /\ \A i \in Keys \ {k} : MarkTerminal(d, k, s)[i] = d[i]
  <2>1. MarkTerminal(d, k, s) = [d EXCEPT ![k] =
          [r EXCEPT !.status = s, !.waiting = FALSE]]
    BY <1>2, Zenon DEF MarkTerminal
  <2>2. Columns([r EXCEPT !.status = s, !.waiting = FALSE],
                s, r.parts, r.sent, r.attempts)
    BY <1>1, ColumnUpdates, Zenon
  <2> QED
    BY <1>3, <2>1, <2>2, Zenon
<1> QED
  BY <1>4, <1>5, <1>6, <1>7, <1>8, <1>9, <1>10, Zenon

-----------------------------------------------------------------------------
\* The kinds of steps, in terms of columns.

\* Row k gets these columns.
RowBecomes(k, status, parts, sent, attempts) == Columns(db'[k], status, parts, sent, attempts)

SameRow(k) == RowBecomes(k, db[k].status, db[k].parts, db[k].sent, db[k].attempts)

\* Goroutines that will write the row of k whatever becomes of it.
Writers(k) == {t \in Threads : job[t].ev = k /\ pc[t] \in {"queue"} \cup ProcessPC}

\* What is known of event k outside its row and its writers.
SameHistory(k) ==
    /\ reached'[k] = reached[k] /\ tries'[k] = tries[k]
    /\ k \in repeated' <=> k \in repeated
    /\ k \in unrecorded' <=> k \in unrecorded
    /\ k \in overwritten' <=> k \in overwritten

\* The step has nothing to do with event k.
Apart(k) ==
    /\ SameRow(k) /\ SameHistory(k)
    /\ Writers(k)' = Writers(k)
    /\ \A t \in Writers(k) : pc'[t] = pc[t] /\ job'[t] = job[t]

\* Goroutine t works on row k: it was none of k's writers, or it was and ends or
\* goes on as one; no other event is concerned.
WorksOn(t, k) ==
    /\ k \in Keys /\ job[t].ev = k /\ job'[t].ev \in {k, NoKey}
    /\ Others(t)
    /\ \A i \in Keys \ {k} : SameRow(i) /\ SameHistory(i)

LEMMA WorksApart ==
    ASSUME NEW t \in Threads, NEW k, WorksOn(t, k)
    PROVE  \A i \in Keys \ {k} : Apart(i)
<1> USE DeliveryAssumption
<1> SUFFICES ASSUME NEW i \in Keys \ {k} PROVE Apart(i)
  OBVIOUS
<1>1. job[t].ev # i /\ job'[t].ev # i
  BY DEF WorksOn
<1>2. t \notin Writers(i) /\ t \notin Writers(i)'
  BY <1>1 DEF Writers
<1>3. \A u \in Threads \ {t} : pc'[u] = pc[u] /\ job'[u] = job[u]
  BY DEF WorksOn, Others
<1>4. \A u \in Threads \ {t} : u \in Writers(i)' <=> u \in Writers(i)
  BY <1>3 DEF Writers
<1>5. Writers(i)' = Writers(i)
  BY <1>2, <1>4 DEF Writers
<1> QED
  BY <1>2, <1>3, <1>5 DEF Apart, WorksOn, Writers

-----------------------------------------------------------------------------
\* The steps of one attempt.

Locals(j, ev, parts, sent, attempts) ==
    j.ev = ev /\ j.parts = parts /\ j.sent = sent /\ j.attempts = attempts

LEMMA LocalUpdates ==
    ASSUME NEW j \in Job
    PROVE  /\ \A p, n, a : Locals([j EXCEPT !.parts = p, !.sent = n, !.attempts = a], j.ev, p, n, a)
           /\ \A p : Locals([j EXCEPT !.parts = p], j.ev, p, j.sent, j.attempts)
           /\ \A n : Locals([j EXCEPT !.sent = n], j.ev, j.parts, n, j.attempts)
           /\ \A s, w, b : /\ Locals([j EXCEPT !.to = s, !.wait = w, !.bg = b],
                                     j.ev, j.parts, j.sent, j.attempts)
                           /\ [j EXCEPT !.to = s, !.wait = w, !.bg = b].to = s
  BY DEF Job, Locals

\* The statement of t failed: for its context or for the store.
Faulty(t) == Cancelled(t) \/ storeErrors' = storeErrors + 1

\* The attempt of t is over but for the write of its outcome.
Stops(t, to) ==
    /\ pc'[t] = "settle" /\ job'[t].to = to
    /\ Locals(job'[t], job[t].ev, job[t].parts, job[t].sent, job[t].attempts)

\* The claim of t succeeds.
Claimed(t, k) ==
    /\ pc[t] = "claim" /\ ~Cancelled(t) /\ db[k].status \in Pending
    /\ RowBecomes(k, "sending", db[k].parts, db[k].sent, db[k].attempts + 1)
    /\ SameHistory(k)
    /\ pc'[t] = (IF db[k].parts = <<>> THEN "render" ELSE LoopPC(db[k].parts, db[k].sent))
    /\ Locals(job'[t], k, db[k].parts, db[k].sent, db[k].attempts + 1)

\* It does not, as far as t knows.
ClaimMissed(t, k) ==
    /\ pc[t] = "claim" /\ pc'[t] \in {"next", "load"} /\ SameHistory(k)
    /\ \/ SameRow(k)
       \/ /\ Cancelled(t) /\ db[k].status \in Pending
          /\ RowBecomes(k, "sending", db[k].parts, db[k].sent, db[k].attempts + 1)

PartsSaved(k, parts) == RowBecomes(k, db[k].status, parts, db[k].sent, db[k].attempts)

Rendered(t, k) ==
    /\ pc[t] = "render" /\ ~Cancelled(t) /\ SameHistory(k)
    /\ \E p \in Renderings : /\ PartsSaved(k, p)
                             /\ pc'[t] = LoopPC(p, job[t].sent)
                             /\ Locals(job'[t], k, p, job[t].sent, job[t].attempts)

RenderStops(t, k) ==
    /\ pc[t] = "render" /\ SameHistory(k)
    /\ \/ Stops(t, "failed") /\ SameRow(k)
       \/ /\ Stops(t, "retry_scheduled") /\ Faulty(t)
          /\ SameRow(k) \/ \E p \in Renderings : PartsSaved(k, p)

\* The chat gets the next part of k.
Accepts(t, k) ==
    LET part == job[t].parts[job[t].sent + 1] IN
    /\ reached'[k] = reached[k] \cup part
    /\ k \in repeated' <=> k \in repeated \/ part \cap reached[k] # {}

Accepted(t, k) ==
    /\ pc[t] = "send" /\ ~Cancelled(t) /\ SameRow(k) /\ Accepts(t, k)
    /\ tries'[k] = tries[k]
    /\ k \in unrecorded' <=> k \in unrecorded
    /\ k \in overwritten' <=> k \in overwritten
    /\ pc'[t] = "mark" /\ job'[t] = job[t]

SendStops(t, k) ==
    /\ pc[t] = "send" /\ SameRow(k)
    /\ k \in overwritten' <=> k \in overwritten
    /\ \/ /\ reached'[k] = reached[k]
          /\ k \in repeated' <=> k \in repeated
          /\ k \in unrecorded' <=> k \in unrecorded
       \/ Accepts(t, k) /\ k \in unrecorded'
    /\ \/ Stops(t, "failed") /\ tries'[k] = tries[k]
       \/ Cancelled(t) /\ Stops(t, "retry_scheduled") /\ tries'[k] = tries[k]
       \/ /\ tries'[k] = IF tries[k] < MaxDeliveryAttempts THEN tries[k] + 1 ELSE tries[k]
          /\ \/ job[t].attempts >= MaxDeliveryAttempts /\ Stops(t, "dead_letter")
             \/ job[t].attempts < MaxDeliveryAttempts /\ Stops(t, "retry_scheduled")

ChunkMarked(t, k) ==
    RowBecomes(k, db[k].status, db[k].parts, job[t].sent + 1, db[k].attempts)

Marked(t, k) ==
    /\ pc[t] = "mark" /\ ~Cancelled(t) /\ SameHistory(k) /\ ChunkMarked(t, k)
    /\ pc'[t] = LoopPC(job[t].parts, job[t].sent + 1)
    /\ Locals(job'[t], k, job[t].parts, job[t].sent + 1, job[t].attempts)

MarkStops(t, k) ==
    /\ pc[t] = "mark" /\ Stops(t, "retry_scheduled") /\ Faulty(t)
    /\ reached'[k] = reached[k] /\ tries'[k] = tries[k]
    /\ k \in repeated' <=> k \in repeated
    /\ k \in overwritten' <=> k \in overwritten
    /\ \/ SameRow(k) /\ k \in unrecorded'
       \/ ChunkMarked(t, k) /\ (k \in unrecorded' <=> k \in unrecorded)

RowDelivered(t, k) ==
    RowBecomes(k, "delivered", db[k].parts, Len(job[t].parts), db[k].attempts)

Delivered(t, k) ==
    pc[t] = "deliver" /\ pc'[t] \in {"next", "load"} /\ SameHistory(k) /\ RowDelivered(t, k)

DeliverStops(t, k) ==
    /\ pc[t] = "deliver" /\ Stops(t, "retry_scheduled") /\ Faulty(t) /\ SameHistory(k)
    /\ SameRow(k) \/ RowDelivered(t, k)

Settled(t, k) ==
    /\ pc[t] = "settle" /\ pc'[t] \in {"next", "load"} /\ SameHistory(k)
    /\ \/ RowBecomes(k, job[t].to, db[k].parts, db[k].sent, db[k].attempts)
       \/ Faulty(t) /\ SameRow(k)

AttemptStep(t, k) ==
    \/ Claimed(t, k) \/ ClaimMissed(t, k) \/ Rendered(t, k) \/ RenderStops(t, k)
    \/ Accepted(t, k) \/ SendStops(t, k) \/ Marked(t, k) \/ MarkStops(t, k)
    \/ Delivered(t, k) \/ DeliverStops(t, k) \/ Settled(t, k)

\* What the table looks like after a statement, and why it failed.
LEMMA ExecCause ==
    ASSUME NEW t, NEW new
    PROVE  /\ ExecOK(t, new) => ~Cancelled(t) /\ db' = new /\ storeErrors' = storeErrors
           /\ ExecFails(t, new) => Faulty(t) /\ (db' = db \/ (db' = new /\ Cancelled(t)))
           /\ ExecFails(t, new) \/ StoreFault => storeErrors' \in {storeErrors, storeErrors + 1}
           /\ Succeeds(new) => db' = new /\ storeErrors' = storeErrors
           /\ StoreFault => Faulty(t) /\ db' = db
  BY DEF ExecOK, ExecFails, Succeeds, StoreFault, Faulty

LEMMA PlanStops ==
    ASSUME TypeOK, NEW t \in Threads, NEW to, NEW w, NEW b, Plan(t, to, w, b)
    PROVE  Others(t) /\ Stops(t, to) /\ job'[t].ev = job[t].ev
<1>1. job[t] \in Job
  BY DEF TypeOK
<1>2. /\ Locals([job[t] EXCEPT !.to = to, !.wait = w, !.bg = b],
                job[t].ev, job[t].parts, job[t].sent, job[t].attempts)
      /\ [job[t] EXCEPT !.to = to, !.wait = w, !.bg = b].to = to
  BY <1>1 DEF Job, Locals
<1> DEFINE j == [job[t] EXCEPT !.to = to, !.wait = w, !.bg = b]
<1>j. /\ Locals(j, job[t].ev, job[t].parts, job[t].sent, job[t].attempts)
      /\ j.to = to
  BY <1>2
<1>3. job' = [job EXCEPT ![t] = j] /\ Goto(t, "settle")
  BY DEF Plan
<1> HIDE DEF j
<1>4. Others(t) /\ pc'[t] = "settle" /\ job'[t] = j
  BY <1>3, GotoEffect
<1> QED
  BY <1>j, <1>4 DEF Stops, Locals

\* Rows and histories a step does not mention.
LEMMA Untouched ==
    /\ db' = db => \A i \in Keys : SameRow(i)
    /\ UNCHANGED <<chatVars, ghostVars>> => \A i : SameHistory(i)
  BY DEF SameRow, RowBecomes, Columns, SameHistory, chatVars, ghostVars

\* The chat gets the next part of event k, and of no other event.
LEMMA AcceptEffect ==
    ASSUME TypeOK, NEW t \in Threads, job[t].ev \in Keys, Accept(t)
    PROVE  /\ Accepts(t, job[t].ev)
           /\ \A i \in Keys \ {job[t].ev} :
                reached'[i] = reached[i] /\ (i \in repeated' <=> i \in repeated)
  BY DEF Accept, Accepts, TypeOK

\* A step of one attempt concerns the event of the attempt alone and is one of the
\* kinds above.
LEMMA AttemptKinds ==
    ASSUME ClaimInv, NEW t \in Threads, Process(t)
    PROVE  /\ WorksOn(t, job[t].ev) /\ Stored(db, job[t].ev)
           /\ UNCHANGED processVars /\ storeErrors' \in {storeErrors, storeErrors + 1}
           /\ AttemptStep(t, job[t].ev)
<1> DEFINE k == job[t].ev
<1>T. TypeOK /\ db \in [Keys -> Row] /\ job[t] \in Job /\ t \in Threads
  BY DEF ClaimInv, TypeOK
<1>K. k \in Keys /\ Stored(db, k) /\ UNCHANGED processVars
  <2>1. pc[t] \in HeldPC
    BY DEF Process, Claim, Render, SendAccepted, SendRefused, SendTransient, SendAborted,
           MarkChunk, Deliver, Settle, HeldPC, ProcessPC
  <2>2. UNCHANGED processVars
    BY DEF Process, Claim, Render, SendAccepted, SendRefused, SendTransient, SendAborted,
           MarkChunk, Deliver, Settle
  <2> QED
    BY <2>1, <2>2, InHand
<1>S. ASSUME NEW d, d = db \/ \A i \in Keys \ {k} : d[i] = db[i], db' = d
      PROVE  \A i \in Keys \ {k} : SameRow(i)
  BY <1>S DEF SameRow, RowBecomes, Columns
<1>R. ASSUME Return(t)
      PROVE  Others(t) /\ pc'[t] \in {"next", "load"} /\ job'[t].ev \in {k, NoKey}
  BY <1>R, <1>T, ReturnEffect
<1>P. ASSUME NEW to, NEW w, NEW b, Plan(t, to, w, b)
      PROVE  Others(t) /\ Stops(t, to) /\ job'[t].ev \in {k, NoKey}
  BY <1>P, <1>T, PlanStops
<1>D. db' = db => \A i \in Keys : SameRow(i)
  BY Untouched
<1>H. UNCHANGED <<chatVars, ghostVars>> => \A i : SameHistory(i)
  BY Untouched
<1>W. ASSUME Others(t), job'[t].ev \in {k, NoKey},
             \A i \in Keys \ {k} : SameRow(i), \A i \in Keys \ {k} : SameHistory(i),
             storeErrors' \in {storeErrors, storeErrors + 1}, AttemptStep(t, k)
      PROVE  /\ WorksOn(t, k) /\ Stored(db, k) /\ UNCHANGED processVars
             /\ storeErrors' \in {storeErrors, storeErrors + 1} /\ AttemptStep(t, k)
  BY <1>W, <1>K DEF WorksOn
<1> HIDE DEF k
<1>1. CASE Claim(t)
  <2>1. pc[t] = "claim" /\ \A i : SameHistory(i)
    BY <1>1, <1>H DEF Claim
  <2> DEFINE new == ClaimForSend(db, k)
  <2>2. /\ Columns(new[k], "sending", db[k].parts, db[k].sent, db[k].attempts + 1)
        /\ \A i \in Keys \ {k} : new[i] = db[i]
    BY <1>T, <1>K, StatementColumns
  <2> HIDE DEF new
  <2>3. CASE /\ Claimable(db, k) /\ ExecOK(t, new)
             /\ job' = [job EXCEPT ![t] = [@ EXCEPT !.parts = db[k].parts,
                                  !.sent = db[k].sent, !.attempts = db[k].attempts + 1]]
             /\ Goto(t, IF db[k].parts = <<>> THEN "render"
                        ELSE LoopPC(db[k].parts, db[k].sent))
    <3>1. ~Cancelled(t) /\ db' = new /\ storeErrors' = storeErrors
      BY <2>3, ExecCause
    <3>2. Locals([job[t] EXCEPT !.parts = db[k].parts, !.sent = db[k].sent,
                                !.attempts = db[k].attempts + 1],
                 k, db[k].parts, db[k].sent, db[k].attempts + 1)
      BY <1>T DEF Job, Locals, k
    <3> DEFINE l == IF db[k].parts = <<>> THEN "render" ELSE LoopPC(db[k].parts, db[k].sent)
               j == [job[t] EXCEPT !.parts = db[k].parts, !.sent = db[k].sent,
                                   !.attempts = db[k].attempts + 1]
    <3>3. Goto(t, l) /\ job' = [job EXCEPT ![t] = j]
      BY <2>3
    <3>4. Others(t) /\ pc'[t] = l /\ job'[t] = j
      <4> HIDE DEF l, j
      <4> QED
        BY <1>T, <3>3, GotoEffect
    <3>5. RowBecomes(k, "sending", db[k].parts, db[k].sent, db[k].attempts + 1)
      BY <2>2, <3>1 DEF RowBecomes
    <3>6. Locals(job'[t], k, db[k].parts, db[k].sent, db[k].attempts + 1)
      <4>1. Locals(j, k, db[k].parts, db[k].sent, db[k].attempts + 1)
        BY <3>2
      <4> HIDE DEF j
      <4> QED
        BY <3>4, <4>1
    <3>7. Claimed(t, k)
      BY <2>1, <2>3, <3>1, <3>4, <3>5, <3>6 DEF Claimed, Claimable
    <3>8. job'[t].ev = k
      BY <3>6 DEF Locals
    <3>9. \A i \in Keys \ {k} : SameRow(i)
      BY <1>S, <2>2, <3>1
    <3> QED
      BY <1>W, <2>1, <3>1, <3>4, <3>7, <3>8, <3>9 DEF AttemptStep, k
  <2>4. CASE Claimable(db, k) /\ ExecFails(t, new) /\ Return(t)
    <3>1. storeErrors' \in {storeErrors, storeErrors + 1} /\ (db' = db \/ (db' = new /\ Cancelled(t)))
      BY <2>4, ExecCause
    <3>2. ClaimMissed(t, k)
      BY <1>D, <1>K, <1>R, <2>1, <2>2, <2>4, <3>1 DEF ClaimMissed, Claimable, RowBecomes
    <3>3. \A i \in Keys \ {k} : SameRow(i)
      BY <1>S, <2>2, <3>1
    <3> QED
      BY <1>W, <1>R, <2>1, <2>4, <3>1, <3>2, <3>3 DEF AttemptStep, k
  <2>5. CASE (ExecOK(t, db) \/ ExecFails(t, db)) /\ Return(t)
    <3>1. storeErrors' \in {storeErrors, storeErrors + 1} /\ db' = db
      BY <2>5, ExecCause
    <3>2. ClaimMissed(t, k)
      BY <1>D, <1>K, <1>R, <2>1, <2>5, <3>1 DEF ClaimMissed
    <3> QED
      BY <1>W, <1>R, <1>D, <2>1, <2>5, <3>1, <3>2 DEF AttemptStep, k
  <2> QED
    BY <1>1, <2>3, <2>4, <2>5 DEF Claim, k, new
<1>2. CASE Render(t)
  <2>1. pc[t] = "render" /\ \A i : SameHistory(i)
    BY <1>2, <1>H DEF Render
  <2>2. CASE Plan(t, "failed", FALSE, Cancelled(t)) /\ UNCHANGED storeVars
    <3>1. Stops(t, "failed") /\ \A i \in Keys : SameRow(i)
      BY <1>D, <1>P, <2>2 DEF storeVars
    <3>2. RenderStops(t, k) /\ storeErrors' = storeErrors
      BY <1>K, <2>1, <2>2, <3>1 DEF RenderStops, storeVars
    <3> QED
      BY <1>W, <1>P, <2>1, <2>2, <3>1, <3>2 DEF AttemptStep, k
  <2>3. ASSUME NEW p \in Renderings,
               \/ /\ ExecOK(t, SaveRenderedParts(db, k, p))
                  /\ job' = [job EXCEPT ![t] = [@ EXCEPT !.parts = p]]
                  /\ Goto(t, LoopPC(p, job[t].sent))
               \/ /\ ExecFails(t, SaveRenderedParts(db, k, p))
                  /\ Plan(t, "retry_scheduled", TRUE, Cancelled(t))
        PROVE  /\ WorksOn(t, k) /\ Stored(db, k) /\ UNCHANGED processVars
               /\ storeErrors' \in {storeErrors, storeErrors + 1} /\ AttemptStep(t, k)
    <3> DEFINE new == SaveRenderedParts(db, k, p)
    <3>1. /\ Columns(new[k], db[k].status, p, db[k].sent, db[k].attempts)
          /\ \A i \in Keys \ {k} : new[i] = db[i]
      BY <1>T, <1>K, StatementColumns
    <3> HIDE DEF new
    <3>2. CASE /\ ExecOK(t, new) /\ job' = [job EXCEPT ![t] = [@ EXCEPT !.parts = p]]
               /\ Goto(t, LoopPC(p, job[t].sent))
      <4>1. ~Cancelled(t) /\ db' = new /\ storeErrors' = storeErrors
        BY <3>2, ExecCause
      <4>2. Locals([job[t] EXCEPT !.parts = p], k, p, job[t].sent, job[t].attempts)
        BY <1>T DEF Job, Locals, k
      <4>3. /\ Others(t) /\ pc'[t] = LoopPC(p, job[t].sent)
            /\ job'[t] = [job[t] EXCEPT !.parts = p]
        BY <1>T, <3>2, GotoEffect
      <4>4. Locals(job'[t], k, p, job[t].sent, job[t].attempts)
        BY <4>2, <4>3
      <4>5. PartsSaved(k, p) /\ job'[t].ev = k
        BY <3>1, <4>1, <4>4 DEF PartsSaved, RowBecomes, Locals
      <4>6. Rendered(t, k)
        BY <2>1, <4>1, <4>3, <4>4, <4>5 DEF Rendered
      <4>7. \A i \in Keys \ {k} : SameRow(i)
        BY <1>S, <3>1, <4>1
      <4> QED
        BY <1>W, <2>1, <4>1, <4>3, <4>5, <4>6, <4>7 DEF AttemptStep
    <3>3. CASE ExecFails(t, new) /\ Plan(t, "retry_scheduled", TRUE, Cancelled(t))
      <4>1. /\ storeErrors' \in {storeErrors, storeErrors + 1} /\ Faulty(t)
            /\ db' = db \/ db' = new
        BY <3>3, ExecCause
      <4>2. SameRow(k) \/ PartsSaved(k, p)
        BY <1>D, <1>K, <3>1, <4>1 DEF PartsSaved, RowBecomes
      <4>3. RenderStops(t, k)
        BY <1>P, <2>1, <3>3, <4>1, <4>2 DEF RenderStops
      <4>4. \A i \in Keys \ {k} : SameRow(i)
        BY <1>S, <3>1, <4>1
      <4> QED
        BY <1>W, <1>P, <2>1, <3>3, <4>1, <4>3, <4>4 DEF AttemptStep
    <3> QED
      BY <2>3, <3>2, <3>3 DEF new
  <2> QED
    BY <1>2, <2>2, <2>3 DEF Render, k
<1>3. CASE SendAccepted(t)
  <2>1. /\ pc[t] = "send" /\ ~Cancelled(t) /\ Accept(t) /\ Goto(t, "mark")
        /\ UNCHANGED <<db, storeErrors, job, unrecorded, overwritten, tries>>
    BY <1>3 DEF SendAccepted, storeVars, ghostVars
  <2>2. Others(t) /\ pc'[t] = "mark" /\ job'[t] = job[t]
    BY <1>T, <2>1, GotoEffect
  <2>3. Accepts(t, k) /\ \A i \in Keys \ {k} : SameHistory(i)
    BY <1>K, <1>T, <2>1, AcceptEffect DEF SameHistory, k
  <2>4. Accepted(t, k)
    BY <1>D, <1>K, <2>1, <2>2, <2>3 DEF Accepted
  <2> QED
    BY <1>W, <1>D, <2>1, <2>2, <2>3, <2>4 DEF AttemptStep, k
<1>4. CASE SendRefused(t) \/ SendTransient(t) \/ SendAborted(t)
  <2>1. pc[t] = "send" /\ UNCHANGED <<db, storeErrors, overwritten>>
    BY <1>4 DEF SendRefused, SendTransient, SendAborted, storeVars, ghostVars
  <2>2. /\ \A i \in Keys \ {k} : SameHistory(i)
        /\ \/ /\ reached'[k] = reached[k]
              /\ k \in repeated' <=> k \in repeated
              /\ k \in unrecorded' <=> k \in unrecorded
           \/ Accepts(t, k) /\ k \in unrecorded'
    <3>1. \A i \in Keys \ {k} : tries'[i] = tries[i]
      BY <1>4, <1>T DEF SendRefused, SendTransient, SendAborted, ghostVars, TypeOK, k
    <3>2. CASE UNCHANGED <<chatVars, unrecorded>>
      BY <2>1, <3>1, <3>2 DEF SameHistory, chatVars
    <3>3. CASE Accept(t) /\ unrecorded' = unrecorded \cup {k}
      BY <1>K, <1>T, <2>1, <3>1, <3>3, AcceptEffect DEF SameHistory, k
    <3> QED
      BY <1>4, <3>2, <3>3 DEF SendRefused, SendTransient, SendAborted, SendLost, ghostVars, k
  <2>3. /\ Others(t) /\ job'[t].ev \in {k, NoKey}
        /\ \/ Stops(t, "failed") /\ tries'[k] = tries[k]
           \/ Cancelled(t) /\ Stops(t, "retry_scheduled") /\ tries'[k] = tries[k]
           \/ /\ tries'[k] = IF tries[k] < MaxDeliveryAttempts THEN tries[k] + 1 ELSE tries[k]
              /\ \/ job[t].attempts >= MaxDeliveryAttempts /\ Stops(t, "dead_letter")
                 \/ job[t].attempts < MaxDeliveryAttempts /\ Stops(t, "retry_scheduled")
    <3>1. CASE SendRefused(t)
      BY <1>P, <3>1 DEF SendRefused, ghostVars
    <3>2. CASE SendAborted(t)
      BY <1>P, <3>2 DEF SendAborted
    <3>3. CASE SendTransient(t)
      <4>1. tries'[k] = IF tries[k] < MaxDeliveryAttempts THEN tries[k] + 1 ELSE tries[k]
        BY <1>K, <1>T, <3>3 DEF SendTransient, TypeOK, k
      <4>2. \/ job[t].attempts >= MaxDeliveryAttempts /\ Plan(t, "dead_letter", FALSE, FALSE)
            \/ job[t].attempts < MaxDeliveryAttempts /\ Plan(t, "retry_scheduled", TRUE, FALSE)
        <5>1. job[t].attempts \in Nat /\ MaxDeliveryAttempts \in Nat
          BY <1>T, DeliveryAssumption DEF Job
        <5>2. job[t].attempts >= MaxDeliveryAttempts \/ job[t].attempts < MaxDeliveryAttempts
          BY <5>1
        <5>3. job[t].attempts < MaxDeliveryAttempts => ~(job[t].attempts >= MaxDeliveryAttempts)
          BY <5>1
        <5>4. /\ job[t].attempts >= MaxDeliveryAttempts => Plan(t, "dead_letter", FALSE, FALSE)
              /\ ~(job[t].attempts >= MaxDeliveryAttempts)
                    => Plan(t, "retry_scheduled", TRUE, FALSE)
          BY <3>3 DEF SendTransient, AttemptsExhausted
        <5> QED
          BY <5>2, <5>3, <5>4, Zenon
      <4> QED
        BY <1>P, <4>1, <4>2
    <3> QED
      BY <1>4, <3>1, <3>2, <3>3
  <2>4. SendStops(t, k)
    BY <1>D, <1>K, <2>1, <2>2, <2>3 DEF SendStops
  <2> QED
    BY <1>W, <1>D, <2>1, <2>2, <2>3, <2>4 DEF AttemptStep, k
<1>5. CASE MarkChunk(t)
  <2> DEFINE n == job[t].sent + 1
             new == MarkChunkSent(db, k, n)
  <2>1. pc[t] = "mark" /\ UNCHANGED <<reached, repeated, overwritten, tries>>
    BY <1>5 DEF MarkChunk, chatVars
  <2>2. /\ Columns(new[k], db[k].status, db[k].parts, n, db[k].attempts)
        /\ \A i \in Keys \ {k} : new[i] = db[i]
    BY <1>T, <1>K, StatementColumns
  <2> HIDE DEF new
  <2>3. CASE /\ ExecOK(t, new) /\ job' = [job EXCEPT ![t] = [@ EXCEPT !.sent = job[t].sent + 1]]
             /\ Goto(t, LoopPC(job[t].parts, job[t].sent + 1)) /\ UNCHANGED unrecorded
    <3>1. ~Cancelled(t) /\ db' = new /\ storeErrors' = storeErrors
      BY <2>3, ExecCause
    <3>2. Locals([job[t] EXCEPT !.sent = n], k, job[t].parts, n, job[t].attempts)
      BY <1>T DEF Job, Locals, k
    <3>3. /\ Others(t) /\ pc'[t] = LoopPC(job[t].parts, n)
          /\ job'[t] = [job[t] EXCEPT !.sent = n]
      BY <1>T, <2>3, GotoEffect
    <3>4. Locals(job'[t], k, job[t].parts, n, job[t].attempts)
      BY <3>2, <3>3
    <3>5. ChunkMarked(t, k) /\ job'[t].ev = k
      BY <2>2, <3>1, <3>4 DEF ChunkMarked, RowBecomes, Locals
    <3>6. \A i : SameHistory(i)
      BY <2>1, <2>3 DEF SameHistory
    <3>7. Marked(t, k)
      BY <2>1, <3>1, <3>3, <3>4, <3>5, <3>6 DEF Marked
    <3>8. \A i \in Keys \ {k} : SameRow(i)
      BY <1>S, <2>2, <3>1
    <3> QED
      BY <1>W, <3>1, <3>3, <3>5, <3>6, <3>7, <3>8 DEF AttemptStep, k
  <2>4. CASE /\ ExecFails(t, new) /\ Plan(t, "retry_scheduled", TRUE, Cancelled(t))
             /\ unrecorded' = IF db' = db THEN unrecorded \cup {k} ELSE unrecorded
    <3>1. /\ storeErrors' \in {storeErrors, storeErrors + 1} /\ Faulty(t)
          /\ db' = db \/ db' = new
      BY <2>4, ExecCause
    <3>2. \/ SameRow(k) /\ k \in unrecorded'
          \/ ChunkMarked(t, k) /\ (k \in unrecorded' <=> k \in unrecorded)
      BY <1>D, <1>K, <2>2, <2>4, <3>1 DEF ChunkMarked, RowBecomes
    <3>3. MarkStops(t, k)
      BY <1>P, <2>1, <2>4, <3>1, <3>2 DEF MarkStops
    <3>4. \A i \in Keys \ {k} : SameRow(i)
      BY <1>S, <2>2, <3>1
    <3>5. \A i \in Keys \ {k} : SameHistory(i)
      BY <2>1, <2>4 DEF SameHistory
    <3> QED
      BY <1>W, <1>P, <2>4, <3>1, <3>3, <3>4, <3>5 DEF AttemptStep, k
  <2> QED
    BY <1>5, <2>3, <2>4 DEF MarkChunk, k, new
<1>6. CASE Deliver(t)
  <2> DEFINE new == MarkDelivered(db, k, Len(job[t].parts))
  <2>1. pc[t] = "deliver" /\ \A i : SameHistory(i)
    BY <1>6, <1>H DEF Deliver
  <2>2. /\ Columns(new[k], "delivered", db[k].parts, Len(job[t].parts), db[k].attempts)
        /\ \A i \in Keys \ {k} : new[i] = db[i]
    BY <1>T, <1>K, StatementColumns
  <2> HIDE DEF new
  <2>3. CASE ExecOK(t, new) /\ Return(t)
    <3>1. db' = new /\ storeErrors' = storeErrors
      BY <2>3, ExecCause
    <3>2. Delivered(t, k)
      BY <1>R, <2>1, <2>2, <2>3, <3>1 DEF Delivered, RowDelivered, RowBecomes
    <3>3. \A i \in Keys \ {k} : SameRow(i)
      BY <1>S, <2>2, <3>1
    <3> QED
      BY <1>W, <1>R, <2>1, <2>3, <3>1, <3>2, <3>3 DEF AttemptStep, k
  <2>4. CASE ExecFails(t, new) /\ Plan(t, "retry_scheduled", TRUE, Cancelled(t))
    <3>1. /\ storeErrors' \in {storeErrors, storeErrors + 1} /\ Faulty(t)
          /\ db' = db \/ db' = new
      BY <2>4, ExecCause
    <3>2. SameRow(k) \/ RowDelivered(t, k)
      BY <1>D, <1>K, <2>2, <3>1 DEF RowDelivered, RowBecomes
    <3>3. DeliverStops(t, k)
      BY <1>P, <2>1, <2>4, <3>1, <3>2 DEF DeliverStops
    <3>4. \A i \in Keys \ {k} : SameRow(i)
      BY <1>S, <2>2, <3>1
    <3> QED
      BY <1>W, <1>P, <2>1, <2>4, <3>1, <3>3, <3>4 DEF AttemptStep, k
  <2> QED
    BY <1>6, <2>3, <2>4 DEF Deliver, k, new
<1>7. CASE Settle(t)
  <2> DEFINE new == IF job[t].to = "retry_scheduled" THEN ScheduleRetry(db, k, job[t].wait)
                    ELSE MarkTerminal(db, k, job[t].to)
  <2>1. pc[t] = "settle" /\ \A i : SameHistory(i)
    BY <1>7, <1>H DEF Settle
  <2>2. /\ Columns(new[k], job[t].to, db[k].parts, db[k].sent, db[k].attempts)
        /\ \A i \in Keys \ {k} : new[i] = db[i]
    BY <1>T, <1>K, StatementColumns
  <2>3. ExecOK(t, new) \/ ExecFails(t, new) \/ Succeeds(new) \/ StoreFault
    BY <1>7 DEF Settle, k
  <2> HIDE DEF new
  <2>4. /\ storeErrors' \in {storeErrors, storeErrors + 1}
        /\ db' = new \/ (Faulty(t) /\ db' = db)
    BY <2>3, ExecCause
  <2>5. Return(t)
    BY <1>7 DEF Settle
  <2>6. Settled(t, k)
    BY <1>D, <1>K, <1>R, <2>1, <2>2, <2>4, <2>5 DEF Settled, RowBecomes
  <2>7. \A i \in Keys \ {k} : SameRow(i)
    BY <1>S, <2>2, <2>4
  <2> QED
    BY <1>W, <1>R, <2>1, <2>4, <2>5, <2>6, <2>7 DEF AttemptStep, k
<1> QED
  BY <1>1, <1>2, <1>3, <1>4, <1>5, <1>6, <1>7 DEF Process, k

-----------------------------------------------------------------------------
\* The other steps.

WriterPC == {"queue"} \cup ProcessPC

\* MarkQueued, on a fresh row or on one that has been claimed since.
Queued(r, k) ==
    /\ pc[r] = "queue" /\ pc'[r] \in {"claim", "idle"}
    /\ reached'[k] = reached[k] /\ tries'[k] = tries[k]
    /\ k \in repeated' <=> k \in repeated
    /\ k \in unrecorded' <=> k \in unrecorded
    /\ \/ SameRow(k) /\ (k \in overwritten' <=> k \in overwritten)
       \/ /\ RowBecomes(k, "queued", db[k].parts, db[k].sent, db[k].attempts)
          /\ IF db[k].status = "received" THEN k \in overwritten' <=> k \in overwritten
                                          ELSE k \in overwritten'

\* CreateReceived inserts the row.
Created(r, k) ==
    /\ pc[r] = "create" /\ pc'[r] \in {"queue", "idle"}
    /\ ~Stored(db, k) /\ RowBecomes(k, "received", <<>>, 0, 0)
    /\ reached'[k] = {} /\ tries'[k] = 0
    /\ k \notin repeated' /\ k \notin unrecorded' /\ k \notin overwritten'

\* Rotation deletes the row.
Deleted(k) ==
    /\ db[k].status \in Terminal /\ RowBecomes(k, "absent", <<>>, 0, 0) /\ SameHistory(k)
    /\ Writers(k) = {} /\ Writers(k)' = {}

\* The process ends.
Ended(k) ==
    /\ SameRow(k) /\ Writers(k)' = {}
    /\ reached'[k] = reached[k] /\ tries'[k] = tries[k]
    /\ k \in repeated' <=> k \in repeated
    /\ k \in overwritten' <=> k \in overwritten
    /\ k \in unrecorded => k \in unrecorded'
    /\ (\E t \in Owners(k) : pc[t] = "mark") => k \in unrecorded'

\* The process starts.
Requeued(k) ==
    /\ Writers(k) = {} /\ Writers(k)' = {} /\ SameHistory(k)
    /\ \/ db[k].status # "sending" /\ SameRow(k)
       \/ /\ db[k].status = "sending"
          /\ RowBecomes(k, "queued", db[k].parts, db[k].sent, db[k].attempts)

\* No context is cancelled, and the process goes on.
Calm ==
    /\ UNCHANGED <<phase, restarts, disconnects>> /\ gone' \subseteq gone
    /\ \A t \in Threads : pc'[t] # "idle" => (Cancelled(t)' <=> Cancelled(t))
    /\ storeErrors' \in {storeErrors, storeErrors + 1}

LEMMA OwnersWrite == \A k : Owners(k) \subseteq Writers(k)
  BY DEF Owners, Writers

\* A goroutine that writes no row before and after its step.
LEMMA IdleApart ==
    ASSUME NEW t \in Threads, Others(t), pc[t] \notin WriterPC, pc'[t] \notin WriterPC,
           \A i \in Keys : SameRow(i) /\ SameHistory(i)
    PROVE  \A i \in Keys : Apart(i)
<1> SUFFICES ASSUME NEW i \in Keys PROVE Apart(i)
  OBVIOUS
<1>1. \A u \in Threads \ {t} : pc'[u] = pc[u] /\ job'[u] = job[u]
  BY DEF Others
<1>2. t \notin Writers(i) /\ t \notin Writers(i)'
  BY DEF Writers, WriterPC
<1>3. \A u \in Threads \ {t} : u \in Writers(i)' <=> u \in Writers(i)
  BY <1>1 DEF Writers
<1>4. Writers(i)' = Writers(i)
  BY <1>2, <1>3 DEF Writers
<1> QED
  BY <1>1, <1>2, <1>4 DEF Apart, Writers

\* The goroutines keep their places and locals.
LEMMA StillApart ==
    ASSUME UNCHANGED <<pc, job>>, \A i \in Keys : SameRow(i) /\ SameHistory(i)
    PROVE  \A i \in Keys : Apart(i)
<1>1. \A i : Writers(i)' = Writers(i)
  BY DEF Writers
<1> QED
  BY <1>1 DEF Apart

\* A step of t that cancels no context.
LEMMA CalmStep ==
    ASSUME NEW t \in Threads, storeErrors' \in {storeErrors, storeErrors + 1},
           UNCHANGED processVars \/ (t \in Requests /\ TypeOK /\ Reply(t))
    PROVE  Calm
<1>1. CASE UNCHANGED processVars
  BY <1>1 DEF Calm, processVars, Cancelled
<1>2. CASE t \in Requests /\ TypeOK /\ Reply(t)
  <2>1. /\ gone' = gone \ {t} /\ UNCHANGED <<phase, restarts, disconnects>>
        /\ pc'[t] = "idle"
    BY <1>2, ReplyEffect DEF Reply
  <2>2. \A u \in Threads \ {t} : Cancelled(u)' <=> Cancelled(u)
    BY <2>1 DEF Cancelled
  <2> QED
    BY <2>1, <2>2 DEF Calm
<1> QED
  BY <1>1, <1>2

\* A step of a request before and after its attempt.
LEMMA RequestKinds ==
    ASSUME ClaimInv, NEW r \in Requests, AcceptWebhook(r)
    PROVE  /\ Calm
           /\ \/ \A i \in Keys : Apart(i)
              \/ WorksOn(r, job[r].ev) /\ (Queued(r, job[r].ev) \/ Created(r, job[r].ev))
<1> DEFINE k == job[r].ev
<1>T. TypeOK /\ db \in [Keys -> Row] /\ r \in Threads
  BY DEF ClaimInv, TypeOK, Threads
<1>P. \A l \in {"idle", "capacity", "lookup", "create", "rotate", "claim", "load"} :
        l \notin WriterPC
  BY DEF WriterPC, ProcessPC
<1>R. ASSUME Reply(r)
      PROVE  Others(r) /\ pc'[r] = "idle" /\ job'[r].ev = NoKey
  BY <1>T, <1>R, ReplyEffect
<1>G. ASSUME NEW l, Goto(r, l), UNCHANGED <<job, processVars>>
      PROVE  Others(r) /\ pc'[r] = l /\ job'[r].ev = k
  BY <1>G, <1>T, GotoEffect
<1>C. ASSUME storeErrors' \in {storeErrors, storeErrors + 1}, UNCHANGED processVars \/ Reply(r)
      PROVE  Calm
  BY <1>C, <1>T, CalmStep
<1>E. ASSUME NEW new, ExecOK(r, new) \/ ExecFails(r, new)
      PROVE  storeErrors' \in {storeErrors, storeErrors + 1} /\ (db' = db \/ db' = new)
  BY <1>E, ExecCause
<1>H. /\ db' = db => \A i \in Keys : SameRow(i)
      /\ UNCHANGED <<chatVars, ghostVars>> => \A i : SameHistory(i)
  BY Untouched
<1>L. pc[r] \in {"create", "queue"} => k \in Keys
  <2>1. LocalOK(r, pc[r], job[r])
    BY <1>T DEF ClaimInv, LocalsOK
  <2> QED
    BY <2>1 DEF LocalOK, RotationPC
<1>1. CASE EnsureCapacity(r)
  <2>1. Calm
    BY <1>1, <1>C DEF EnsureCapacity, storeVars
  <2>2. \A i \in Keys : SameRow(i) /\ SameHistory(i)
    BY <1>1, <1>H DEF EnsureCapacity, storeVars
  <2>3. Others(r) /\ pc[r] \notin WriterPC /\ pc'[r] \notin WriterPC
    BY <1>1, <1>R, <1>G, <1>P DEF EnsureCapacity
  <2> QED
    BY <1>T, <2>1, <2>2, <2>3, IdleApart
<1>2. CASE Lookup(r)
  <2>1. storeErrors' \in {storeErrors, storeErrors + 1} /\ db' = db
    BY <1>2, <1>E DEF Lookup
  <2>2. Calm
    BY <1>2, <1>C, <2>1 DEF Lookup
  <2>3. \A i \in Keys : SameRow(i) /\ SameHistory(i)
    BY <1>2, <1>H, <2>1 DEF Lookup
  <2>4. Others(r) /\ pc[r] \notin WriterPC /\ pc'[r] \notin WriterPC
    BY <1>2, <1>R, <1>G, <1>P DEF Lookup
  <2> QED
    BY <1>T, <2>2, <2>3, <2>4, IdleApart
<1>3. CASE Create(r)
  <2> DEFINE new == CreateReceived(db, k)
  <2>1. storeErrors' \in {storeErrors, storeErrors + 1} /\ (db' = db \/ db' = new)
    BY <1>3, <1>E DEF Create
  <2>2. Calm /\ pc[r] = "create" /\ k \in Keys
    BY <1>3, <1>C, <1>L, <2>1 DEF Create
  <2>3. /\ Columns(new[k], "received", <<>>, 0, 0)
        /\ \A i \in Keys \ {k} :
              Columns(new[i], db[i].status, db[i].parts, db[i].sent, db[i].attempts)
    <3>1. Columns(new[k], "received", <<>>, 0, 0)
      BY <2>2 DEF Columns, CreateReceived, NoRow
    <3>2. ASSUME NEW i \in Keys \ {k}
          PROVE  Columns(new[i], db[i].status, db[i].parts, db[i].sent, db[i].attempts)
      <4>1. new[i] = [db[i] EXCEPT !.elders = db[i].elders \ {k}] /\ db[i] \in Row
        BY <1>T DEF CreateReceived
      <4>2. \A e : Columns([db[i] EXCEPT !.elders = e],
                           db[i].status, db[i].parts, db[i].sent, db[i].attempts)
        BY <4>1, ColumnUpdates, Zenon
      <4> QED
        BY <4>1, <4>2, Zenon
    <3> QED
      BY <3>1, <3>2
  <2>4. CASE db' = db
    <3>1. \A i \in Keys : SameRow(i) /\ SameHistory(i)
      BY <1>3, <1>H, <2>4 DEF Create, chatVars, ghostVars
    <3>2. Others(r) /\ pc[r] \notin WriterPC /\ pc'[r] \notin WriterPC
      <4>1. ~(~Stored(db, k) /\ ExecOK(r, new))
        <5>1. ExecOK(r, new) => db' = new
          BY ExecCause
        <5> QED
          BY <2>3, <2>4, <5>1 DEF Columns, Stored
      <4> QED
        BY <1>3, <1>R, <1>G, <1>P, <2>2, <4>1 DEF Create
    <3> QED
      BY <1>T, <2>2, <3>1, <3>2, IdleApart
  <2>5. CASE db' # db
    <3>1. db' = new /\ ~Stored(db, k) /\ NewEvent(k)
      BY <1>3, <2>1, <2>5, ExecCause DEF Create
    <3>2. Others(r) /\ pc'[r] \in {"queue", "idle"} /\ job'[r].ev \in {k, NoKey}
      BY <1>3, <1>R, <1>G, <3>1 DEF Create
    <3>3. /\ reached'[k] = {} /\ tries'[k] = 0
          /\ k \notin repeated' /\ k \notin unrecorded' /\ k \notin overwritten'
          /\ \A i \in Keys \ {k} : SameHistory(i)
      BY <1>T, <2>2, <3>1 DEF NewEvent, SameHistory, TypeOK
    <3>4. /\ \A i \in Keys \ {k} : SameRow(i)
          /\ RowBecomes(k, "received", <<>>, 0, 0)
      <4> HIDE DEF new
      <4> QED
        BY <2>3, <3>1 DEF SameRow, RowBecomes
    <3>5. WorksOn(r, k) /\ Created(r, k)
      BY <2>2, <3>1, <3>2, <3>3, <3>4 DEF WorksOn, Created
    <3> QED
      BY <2>2, <3>5
  <2> QED
    BY <2>4, <2>5
<1>4. CASE Queue(r)
  <2> DEFINE new == MarkQueued(db, k)
  <2>1. storeErrors' \in {storeErrors, storeErrors + 1} /\ (db' = db \/ db' = new)
    BY <1>4, <1>E DEF Queue
  <2>2. Calm /\ pc[r] = "queue" /\ k \in Keys
    BY <1>4, <1>C, <1>L, <2>1 DEF Queue
  <2>3. Stored(db, k)
    <3>1. pc[r] \in HeldPC
      BY <2>2 DEF HeldPC
    <3> QED
      BY <1>T, <3>1, InHand
  <2>4. /\ Columns(new[k], "queued", db[k].parts, db[k].sent, db[k].attempts)
        /\ \A i \in Keys \ {k} : new[i] = db[i]
    BY <1>T, <2>2, <2>3, StatementColumns
  <2>5. Others(r) /\ pc'[r] \in {"claim", "idle"} /\ job'[r].ev \in {k, NoKey}
    BY <1>4, <1>R, <1>G DEF Queue
  <2>6. /\ UNCHANGED <<reached, repeated, unrecorded, tries>>
        /\ overwritten' = IF db' # db /\ db[k].status # "received"
                          THEN overwritten \cup {k} ELSE overwritten
    BY <1>4 DEF Queue, chatVars
  <2> HIDE DEF new
  <2>7. \A i \in Keys \ {k} : SameRow(i) /\ SameHistory(i)
    BY <2>1, <2>4, <2>6 DEF SameRow, RowBecomes, Columns, SameHistory
  <2>8. Queued(r, k)
    <3>1. CASE db' = db
      BY <1>H, <2>2, <2>5, <2>6, <3>1 DEF Queued
    <3>2. CASE db' # db
      <4>1. RowBecomes(k, "queued", db[k].parts, db[k].sent, db[k].attempts)
        BY <2>1, <2>4, <3>2 DEF RowBecomes
      <4> QED
        BY <2>2, <2>5, <2>6, <3>2, <4>1 DEF Queued
    <3> QED
      BY <3>1, <3>2
  <2> QED
    BY <2>2, <2>5, <2>7, <2>8 DEF WorksOn
<1>5. CASE Load(r)
  <2>1. storeErrors' \in {storeErrors, storeErrors + 1} /\ db' = db
    BY <1>5, <1>E DEF Load
  <2>2. Calm
    BY <1>5, <1>C, <2>1 DEF Load
  <2>3. \A i \in Keys : SameRow(i) /\ SameHistory(i)
    BY <1>5, <1>H, <2>1 DEF Load
  <2>4. Others(r) /\ pc[r] \notin WriterPC /\ pc'[r] \notin WriterPC
    BY <1>5, <1>R, <1>P DEF Load
  <2> QED
    BY <1>T, <2>2, <2>3, <2>4, IdleApart
<1> QED
  BY <1>1, <1>2, <1>3, <1>4, <1>5 DEF AcceptWebhook

\* A step of rotation.
LEMMA RotateKinds ==
    ASSUME ClaimInv, NEW t \in Threads, Rotate(t)
    PROVE  Calm /\ \A i \in Keys : Apart(i) \/ Deleted(i)
<1>T. TypeOK /\ t \in Threads
  BY DEF ClaimInv
<1>P. \A l \in {"idle", "lookup", "rotate", "delete"} : l \notin WriterPC
  BY DEF WriterPC, ProcessPC
<1>G. ASSUME NEW l, Goto(t, l), UNCHANGED <<job, processVars>>
      PROVE  Others(t) /\ pc'[t] = l
  BY <1>G, <1>T, GotoEffect
<1>R. ASSUME t # Worker, Reply(t)
      PROVE  t \in Requests /\ Others(t) /\ pc'[t] = "idle"
  <2>1. t \in Requests
    BY <1>R DEF Threads
  <2> QED
    BY <1>R, <1>T, <2>1, ReplyEffect
<1>1. /\ Others(t) /\ pc[t] \notin WriterPC /\ pc'[t] \notin WriterPC
      /\ UNCHANGED processVars \/ (t # Worker /\ Reply(t))
  BY <1>G, <1>R, <1>P DEF Rotate, SelectVictims, DeleteVictims, EndRotation
<1>2. /\ storeErrors' \in {storeErrors, storeErrors + 1}
      /\ db' = db \/ (DeleteVictims(t) /\ db' = DeleteByEventIDs(db, victims))
  BY ExecCause DEF Rotate, SelectVictims, DeleteVictims
<1>3. Calm
  BY <1>T, <1>R, <1>1, <1>2, CalmStep
<1>4. \A i : SameHistory(i)
  BY Untouched DEF Rotate, SelectVictims, DeleteVictims
<1>5. CASE db' = db
  BY <1>1, <1>3, <1>4, <1>5, Untouched, IdleApart
<1>6. CASE db' = DeleteByEventIDs(db, victims)
  <2>1. ASSUME NEW i \in Keys
        PROVE  Writers(i)' = Writers(i) /\ \A u \in Writers(i) : pc'[u] = pc[u] /\ job'[u] = job[u]
    <3>1. \A u \in Threads \ {t} : pc'[u] = pc[u] /\ job'[u] = job[u]
      BY <1>1 DEF Others
    <3>2. t \notin Writers(i) /\ t \notin Writers(i)'
      BY <1>1 DEF Writers, WriterPC
    <3>3. \A u \in Threads \ {t} : u \in Writers(i)' <=> u \in Writers(i)
      BY <3>1 DEF Writers
    <3>4. Writers(i)' = Writers(i)
      BY <3>2, <3>3 DEF Writers
    <3> QED
      BY <3>1, <3>2, <3>4 DEF Writers
  <2>2. ASSUME NEW i \in Keys \ victims PROVE Apart(i)
    <3>1. SameRow(i)
      BY <1>6, <2>2 DEF DeleteByEventIDs, SameRow, RowBecomes, Columns
    <3> QED
      BY <1>4, <2>1, <3>1 DEF Apart
  <2>3. ASSUME NEW i \in Keys, i \in victims PROVE Deleted(i)
    <3>1. db'[i] = NoRow
      BY <1>6, <2>3 DEF DeleteByEventIDs
    <3>2. RowBecomes(i, "absent", <<>>, 0, 0)
      BY <3>1 DEF NoRow, RowBecomes, Columns
    <3>3. db[i].status \in Terminal /\ Writers(i) = {}
      BY <2>3 DEF ClaimInv, HeldRowsOK, HoldsEvent, Writers
    <3> QED
      BY <1>4, <2>1, <3>2, <3>3 DEF Deleted
  <2> QED
    BY <1>3, <2>2, <2>3
<1> QED
  BY <1>2, <1>5, <1>6

\* A step of the worker between attempts, and the arrival of a webhook.
LEMMA IdleKinds ==
    ASSUME ClaimInv,
           \/ RecoveryTick \/ NextInBatch \/ RotationTick
           \/ \E r \in Requests, k \in Keys : Receive(r, k)
    PROVE  Calm /\ \A i \in Keys : Apart(i)
<1>T. TypeOK /\ Worker \in Threads /\ Requests \subseteq Threads
  BY DEF ClaimInv, Threads
<1>P. \A l \in {"idle", "next", "rotate", "claim", "capacity"} : l \notin WriterPC
  BY DEF WriterPC, ProcessPC
<1>1. UNCHANGED <<db, storeErrors, processVars>> /\ \A i : SameHistory(i)
  BY Untouched DEF RecoveryTick, NextInBatch, RotationTick, Receive, storeVars
<1>2. Calm
  BY <1>T, <1>1, CalmStep
<1>3. \A i \in Keys : SameRow(i) /\ SameHistory(i)
  BY <1>1, Untouched
<1>4. ASSUME NEW t \in Threads, NEW l, Goto(t, l), UNCHANGED job \/ \E j : job' = [job EXCEPT ![t] = j]
      PROVE  Others(t) /\ pc'[t] = l
  BY <1>4, <1>T, GotoEffect
<1>5. \E t \in Threads : Others(t) /\ pc[t] \notin WriterPC /\ pc'[t] \notin WriterPC
  <2>1. CASE RecoveryTick \/ RotationTick
    BY <1>T, <1>P, <1>4, <2>1 DEF RecoveryTick, RotationTick
  <2>2. CASE NextInBatch
    BY <1>T, <1>P, <1>4, <2>2 DEF NextInBatch
  <2>3. ASSUME NEW r \in Requests, NEW k \in Keys, Receive(r, k)
        PROVE  \E t \in Threads : Others(t) /\ pc[t] \notin WriterPC /\ pc'[t] \notin WriterPC
    <3>1. r \in Threads /\ pc[r] = "idle" /\ Goto(r, "capacity") /\ \E j : job' = [job EXCEPT ![r] = j]
      BY <1>T, <2>3 DEF Receive
    <3>2. Others(r) /\ pc'[r] = "capacity"
      BY <3>1, <1>4
    <3> QED
      BY <1>P, <3>1, <3>2
  <2> QED
    BY <2>1, <2>2, <2>3
<1> QED
  BY <1>2, <1>3, <1>5, IdleApart

\* A disconnect, SIGTERM or the end of a backoff.
LEMMA SignalKinds ==
    ASSUME ClaimInv,
           Sigterm \/ (\E r \in Requests : Disconnect(r)) \/ (\E k \in Keys : BackoffElapses(k))
    PROVE  \A i \in Keys : Apart(i)
<1>1. UNCHANGED <<pc, job>> /\ \A i : SameHistory(i)
  BY Untouched DEF Sigterm, Disconnect, BackoffElapses
<1>2. CASE Sigterm \/ \E r \in Requests : Disconnect(r)
  <2>1. db' = db
    BY <1>2 DEF Sigterm, Disconnect, storeVars
  <2> QED
    BY <1>1, <2>1, Untouched, StillApart
<1>3. ASSUME NEW k \in Keys, BackoffElapses(k)
      PROVE  \A i \in Keys : Apart(i)
  <2>1. db \in [Keys -> Row] /\ db[k] \in Row
    BY DEF ClaimInv, TypeOK
  <2>2. \A w : Columns([db[k] EXCEPT !.waiting = w],
                       db[k].status, db[k].parts, db[k].sent, db[k].attempts)
    BY <2>1, ColumnUpdates, Zenon
  <2>3. db' = [db EXCEPT ![k] = [db[k] EXCEPT !.waiting = FALSE]]
    BY <1>3 DEF BackoffElapses
  <2>4. \A q : [db EXCEPT ![k] = q][k] = q /\ \A i \in Keys \ {k} : [db EXCEPT ![k] = q][i] = db[i]
    BY <2>1
  <2>5. /\ db'[k] = [db[k] EXCEPT !.waiting = FALSE]
        /\ \A i \in Keys \ {k} : db'[i] = db[i]
    BY <2>3, <2>4, Zenon
  <2>6. SameRow(k)
    BY <2>2, <2>5, Zenon DEF SameRow, RowBecomes
  <2>7. \A i \in Keys \ {k} : SameRow(i)
    BY <2>5 DEF SameRow, RowBecomes, Columns
  <2> QED
    BY <1>1, <2>6, <2>7, StillApart
<1> QED
  BY <1>2, <1>3

\* The process ends.
LEMMA DownKinds ==
    ASSUME ClaimInv, Down
    PROVE  \A i \in Keys : Ended(i)
<1>1. /\ db' = db /\ \A t \in Threads : pc'[t] = "idle"
      /\ UNCHANGED <<reached, repeated, overwritten, tries>>
      /\ unrecorded' = unrecorded \cup {job[t].ev : t \in {u \in Threads : pc[u] = "mark"}}
  BY DEF Down, storeVars, chatVars
<1>2. \A i \in Keys : SameRow(i)
  BY <1>1, Untouched
<1>3. \A i \in Keys : Writers(i)' = {}
  BY <1>1 DEF Writers, ProcessPC
<1>4. ASSUME NEW i \in Keys, NEW t \in Owners(i), pc[t] = "mark"
      PROVE  i \in unrecorded'
  <2>1. t \in Threads /\ job[t].ev = i
    BY <1>4 DEF Owners
  <2> QED
    BY <1>1, <1>4, <2>1
<1>5. \A i : i \in unrecorded => i \in unrecorded'
  BY <1>1
<1> QED
  BY <1>1, <1>2, <1>3, <1>4, <1>5 DEF Ended

\* The process starts.
LEMMA RestartKinds ==
    ASSUME ClaimInv, Restart
    PROVE  \A i \in Keys : Requeued(i)
<1>1. /\ UNCHANGED <<pc, job>> /\ db' = RequeueSending(db) /\ db \in [Keys -> Row]
      /\ \A i : SameHistory(i)
  BY Untouched, ExecCause DEF Restart, ClaimInv, TypeOK
<1>2. \A t \in Threads : pc[t] = "idle" /\ pc'[t] = "idle"
  BY <1>1 DEF Restart, ClaimInv, HeldRowsOK
<1>3. \A i \in Keys : Writers(i) = {} /\ Writers(i)' = {}
  BY <1>2 DEF Writers, ProcessPC
<1>4. ASSUME NEW i \in Keys
      PROVE  \/ db[i].status # "sending" /\ SameRow(i)
             \/ /\ db[i].status = "sending"
                /\ RowBecomes(i, "queued", db[i].parts, db[i].sent, db[i].attempts)
  <2>1. db[i] \in Row
    BY <1>1
  <2>2. Columns([db[i] EXCEPT !.status = "queued", !.waiting = FALSE],
                "queued", db[i].parts, db[i].sent, db[i].attempts)
    BY <2>1, ColumnUpdates, Zenon
  <2>3. db'[i] = IF db[i].status = "sending"
                 THEN [db[i] EXCEPT !.status = "queued", !.waiting = FALSE] ELSE db[i]
    BY <1>1, Zenon DEF RequeueSending
  <2> QED
    BY <2>2, <2>3, Zenon DEF SameRow, RowBecomes, Columns
<1> QED
  BY <1>1, <1>3, <1>4 DEF Requeued

\* Every step is of one of these kinds.
StepKinds ==
    \/ \E t \in Threads : /\ WorksOn(t, job[t].ev) /\ Stored(db, job[t].ev) /\ Calm
                          /\ pc[t] \in {"claim"} \cup ProcessPC /\ AttemptStep(t, job[t].ev)
    \/ \E r \in Requests : /\ WorksOn(r, job[r].ev) /\ Calm
                           /\ Queued(r, job[r].ev) \/ Created(r, job[r].ev)
    \/ Calm /\ \A i \in Keys : Apart(i) \/ Deleted(i)
    \/ /\ Sigterm \/ (\E r \in Requests : Disconnect(r)) \/ (\E k \in Keys : BackoffElapses(k))
       /\ \A i \in Keys : Apart(i)
    \/ (Exit \/ Crash) /\ \A i \in Keys : Ended(i)
    \/ Restart /\ \A i \in Keys : Requeued(i)

LEMMA NextKinds == ClaimInv /\ [Next]_vars => StepKinds
<1> SUFFICES ASSUME ClaimInv, [Next]_vars PROVE StepKinds
  OBVIOUS
<1>1. ASSUME NEW t \in Threads, Process(t) PROVE StepKinds
  <2>1. Calm
    BY <1>1, AttemptKinds, CalmStep
  <2>2. pc[t] \in {"claim"} \cup ProcessPC
    BY <1>1 DEF Process, Claim, Render, SendAccepted, SendRefused, SendTransient, SendAborted,
                MarkChunk, Deliver, Settle, ProcessPC
  <2> QED
    BY <1>1, <2>1, <2>2, AttemptKinds DEF StepKinds
<1>2. ASSUME NEW r \in Requests, AcceptWebhook(r) PROVE StepKinds
  BY <1>2, RequestKinds DEF StepKinds
<1>3. ASSUME NEW t \in Threads, Rotate(t) PROVE StepKinds
  BY <1>3, RotateKinds DEF StepKinds
<1>4. CASE \/ RecoveryTick \/ NextInBatch \/ RotationTick
           \/ \E r \in Requests, k \in Keys : Receive(r, k)
  BY <1>4, IdleKinds DEF StepKinds
<1>5. CASE Environment
  <2>1. CASE Exit \/ Crash
    <3>1. Down
      BY <2>1 DEF Exit, Crash
    <3> QED
      BY <2>1, <3>1, DownKinds DEF StepKinds
  <2> QED
    BY <1>5, <2>1, SignalKinds, RestartKinds DEF Environment, StepKinds
<1>6. CASE UNCHANGED vars
  <2>1. \A i \in Keys : Apart(i)
    BY <1>6, Untouched, StillApart DEF vars, chatVars, ghostVars
  <2>2. Calm
    BY <1>6 DEF vars, Calm, Cancelled
  <2> QED
    BY <2>1, <2>2 DEF StepKinds
<1> QED
  BY <1>1, <1>2, <1>3, <1>4, <1>5, <1>6 DEF Next


-----------------------------------------------------------------------------
\* The row, the chat and the locals of owners agree.

SendLoop == {"send", "mark", "deliver"}

\* The first n parts are among what the chat has got.
Posted(got, parts, n) == \A i \in 1..Len(parts) : i <= n => parts[i] \subseteq got

\* Two goroutines that hold a row do no harm when both render the same parts.
Good(k) == FixedRendering \/ k \notin overwritten

\* An owner does not run ahead of the chat either.
ChatOwnerOK(t, k) ==
    /\ pc[t] = "render" => job[t].sent = 0
    /\ pc[t] \in SendLoop => /\ job[t].parts = db[k].parts
                             /\ Posted(reached[k], job[t].parts, job[t].sent)
    /\ pc[t] = "mark" => Posted(reached[k], job[t].parts, job[t].sent + 1)

\* sent_parts and 'delivered' never run ahead of the chat.
ChatOK(k) ==
    Good(k) => /\ db[k].parts = <<>> => db[k].sent = 0
               /\ Posted(reached[k], db[k].parts, db[k].sent)
               /\ db[k].status = "delivered" => reached[k] = Alerts
               /\ \A t \in Owners(k) : ChatOwnerOK(t, k)

\* Nor does the chat run ahead of sent_parts, as long as nothing went unrecorded
\* and one goroutine at a time holds the row: the parts not yet counted have not
\* been posted, but for the one whose MarkChunkSent is about to come.
ExactOwnerOK(t, k) ==
    /\ pc[t] = "render" => db[k].parts = <<>>
    /\ pc[t] \in SendLoop => job[t].parts = db[k].parts /\ job[t].sent = db[k].sent

AtMark(k) == \E t \in Owners(k) : pc[t] = "mark"

Unposted(got, parts, n) == \A i \in 1..Len(parts) : i > n => parts[i] \cap got = {}

ExactOK(k) ==
    k \notin overwritten =>
        /\ db[k].sent <= Len(db[k].parts)
        /\ \A t \in Owners(k) : ExactOwnerOK(t, k)
        /\ Stored(db, k) /\ k \notin unrecorded =>
             /\ db[k].parts = <<>> => reached[k] = {}
             /\ Unposted(reached[k], db[k].parts, db[k].sent + 1)
             /\ ~AtMark(k) => Unposted(reached[k], db[k].parts, db[k].sent)

ChatInv ==
    /\ ClaimInv
    /\ \A k \in Keys : ChatOK(k) /\ ExactOK(k)
    /\ OnlyKnownDuplicates

LEMMA PostedFacts ==
    /\ \A g, h, p, n : Posted(g, p, n) /\ g \subseteq h => Posted(h, p, n)
    /\ \A g, p : Posted(g, p, 0)
    /\ \A g, n : Posted(g, <<>>, n)
    /\ \A g, p, n : Posted(g, p, n + 1) /\ n \in Nat => Posted(g, p, n)
  BY DEF Posted

\* When the parts of a rendering are in the chat, all of the event is.
LEMMA PostedIsAll ==
    ASSUME NEW p \in Renderings, NEW n \in Nat, n >= Len(p), NEW g \in SUBSET Alerts,
           Posted(g, p, n)
    PROVE  g = Alerts
<1>1. IsRendering(p)
  BY RenderingsAssumption
<1>2. Len(p) \in Nat /\ UNION {p[i] : i \in 1..Len(p)} = Alerts
  BY <1>1 DEF IsRendering
<1>3. \A i \in 1..Len(p) : p[i] \subseteq g
  BY <1>2 DEF Posted
<1> QED
  BY <1>2, <1>3

LEMMA RenderingFacts ==
    ASSUME NEW p \in Renderings
    PROVE  /\ Len(p) \in Nat /\ Len(p) > 0 /\ p # <<>>
           /\ \A i, j \in 1..Len(p) : i # j => p[i] \cap p[j] = {}
           /\ \A i \in 1..Len(p) : p[i] \subseteq Alerts
<1>1. IsRendering(p)
  BY RenderingsAssumption
<1> QED
  BY <1>1 DEF IsRendering

\* The owners of an event a step has nothing to do with.
LEMMA ApartOwners ==
    ASSUME NEW k, Apart(k)
    PROVE  Owners(k)' = Owners(k) /\ \A t \in Owners(k) : pc'[t] = pc[t] /\ job'[t] = job[t]
<1>1. /\ Writers(k)' = Writers(k)
      /\ \A t \in Writers(k) : pc'[t] = pc[t] /\ job'[t] = job[t]
  BY DEF Apart
<1>2. \A t : t \in Owners(k) <=> t \in Writers(k) /\ pc[t] \in ProcessPC
  BY DEF Owners, Writers
<1>3. \A t : t \in Owners(k)' <=> t \in Writers(k)' /\ pc'[t] \in ProcessPC
  BY DEF Owners, Writers
<1> QED
  BY <1>1, <1>2, <1>3

\* The other owners of the event a goroutine works on.
LEMMA WorksOwners ==
    ASSUME NEW t \in Threads, NEW k, WorksOn(t, k)
    PROVE  \A u \in Threads \ {t} : /\ u \in Owners(k)' <=> u \in Owners(k)
                                    /\ pc'[u] = pc[u] /\ job'[u] = job[u]
  BY DEF WorksOn, Others, Owners

LEMMA ChatApart ==
    ASSUME NEW k \in Keys, Apart(k), ChatOK(k), ExactOK(k)
    PROVE  ChatOK(k)' /\ ExactOK(k)'
<1>1. /\ Owners(k)' = Owners(k)
      /\ \A t \in Owners(k) : pc'[t] = pc[t] /\ job'[t] = job[t]
  BY ApartOwners
<1>2. /\ db'[k].status = db[k].status /\ db'[k].parts = db[k].parts
      /\ db'[k].sent = db[k].sent /\ reached'[k] = reached[k]
      /\ k \in unrecorded' <=> k \in unrecorded
      /\ k \in overwritten' <=> k \in overwritten
  BY DEF Apart, SameRow, RowBecomes, Columns, SameHistory
<1>3. \A t \in Owners(k) : /\ ChatOwnerOK(t, k) => ChatOwnerOK(t, k)'
                           /\ ExactOwnerOK(t, k) => ExactOwnerOK(t, k)'
  BY <1>1, <1>2 DEF ChatOwnerOK, ExactOwnerOK
<1>4. ChatOK(k)'
  BY <1>1, <1>2, <1>3 DEF ChatOK, Good, FixedRendering
<1>5. AtMark(k)' <=> AtMark(k)
  BY <1>1 DEF AtMark
<1>6. ExactOK(k)'
  BY <1>1, <1>2, <1>3, <1>5 DEF ExactOK, Stored
<1> QED
  BY <1>4, <1>6

\* What has to be shown of the row and the owner a step is about.
LEMMA ChatWork ==
    ASSUME NEW t \in Threads, NEW k \in Keys, WorksOn(t, k), ChatOK(k),
           Good(k)' =>
              /\ Good(k) /\ reached[k] \subseteq reached'[k]
              /\ db'[k].parts = <<>> => db'[k].sent = 0
              /\ Posted(reached'[k], db'[k].parts, db'[k].sent)
              /\ db'[k].status = "delivered" => reached'[k] = Alerts
              /\ \A u \in Owners(k) \ {t} : pc[u] \in SendLoop => db'[k].parts = job[u].parts
              /\ t \in Owners(k)' => ChatOwnerOK(t, k)'
    PROVE  ChatOK(k)'
<1> SUFFICES ASSUME Good(k)' PROVE \A u \in Owners(k)' : ChatOwnerOK(u, k)'
  BY DEF ChatOK
<1>1. ASSUME NEW u \in Owners(k)', u # t
      PROVE  ChatOwnerOK(u, k)'
  <2>1. u \in Threads
    BY DEF Owners
  <2>2. u \in Owners(k) /\ pc'[u] = pc[u] /\ job'[u] = job[u]
    BY <1>1, <2>1, WorksOwners
  <2>3. ChatOwnerOK(u, k)
    BY <2>2 DEF ChatOK
  <2> QED
    BY <1>1, <2>2, <2>3, PostedFacts DEF ChatOwnerOK, SendLoop
<1> QED
  BY <1>1

LEMMA ExactWork ==
    ASSUME NEW t \in Threads, NEW k \in Keys, WorksOn(t, k),
           k \notin overwritten' =>
              /\ Owners(k) \subseteq {t}
              /\ db'[k].sent <= Len(db'[k].parts)
              /\ t \in Owners(k)' => ExactOwnerOK(t, k)'
              /\ k \notin unrecorded' =>
                   /\ db'[k].parts = <<>> => reached'[k] = {}
                   /\ Unposted(reached'[k], db'[k].parts, db'[k].sent + 1)
                   /\ t \notin Owners(k)' \/ pc'[t] # "mark"
                        => Unposted(reached'[k], db'[k].parts, db'[k].sent)
    PROVE  ExactOK(k)'
<1> SUFFICES ASSUME k \notin overwritten'
             PROVE  /\ \A u \in Owners(k)' : ExactOwnerOK(u, k)'
                    /\ ~AtMark(k)' /\ k \notin unrecorded'
                         => Unposted(reached'[k], db'[k].parts, db'[k].sent)
  BY DEF ExactOK
<1>1. Owners(k)' \subseteq {t}
  BY WorksOwners DEF Owners
<1> QED
  BY <1>1 DEF AtMark

\* The chat has seen nothing of k twice without a known cause.
KnownOK(k) == k \in repeated => k \in unrecorded \/ k \in overwritten

\* A step of one attempt keeps row, chat and owners together.
LEMMA AttemptChat ==
    ASSUME ChatInv, NEW t \in Threads, NEW k \in Keys, WorksOn(t, k), Stored(db, k),
           AttemptStep(t, k), pc[t] \in {"claim"} \cup ProcessPC
    PROVE  ChatOK(k)' /\ ExactOK(k)' /\ KnownOK(k)'
<1>T. /\ job[t].ev = k /\ job[t].sent \in Nat /\ reached[k] \in SUBSET Alerts
      /\ db[k].parts \in Renderings \cup {<<>>} /\ db[k].sent \in Nat
      /\ job[t].to # "delivered" /\ LocalOK(t, pc[t], job[t])
  <2>1. TypeOK /\ LocalsOK
    BY DEF ChatInv, ClaimInv
  <2>2. db[k] \in Row /\ job[t] \in Job /\ reached[k] \in SUBSET Alerts
    BY <2>1 DEF TypeOK
  <2> QED
    BY <2>1, <2>2 DEF Row, Job, WorksOn, LocalsOK
<1>I. ChatOK(k) /\ ExactOK(k) /\ KnownOK(k) /\ ClaimInv
  BY DEF ChatInv, OnlyKnownDuplicates, KnownOK
<1>G. /\ k \in overwritten' <=> k \in overwritten
      /\ Good(k)' <=> Good(k)
      /\ k \notin overwritten => Good(k)
  <2>1. k \in overwritten' <=> k \in overwritten
    BY DEF AttemptStep, Claimed, ClaimMissed, Rendered, RenderStops, Accepted, SendStops, Marked,
           MarkStops, Delivered, DeliverStops, Settled, SameHistory
  <2> QED
    BY <2>1 DEF Good, FixedRendering
<1>A. ASSUME k \notin overwritten, pc[t] \in ProcessPC \/ db[k].status \in Pending
      PROVE  Owners(k) \subseteq {t}
  <2>1. CASE pc[t] \in ProcessPC
    <3>1. t \in Owners(k)
      BY <1>T, <2>1 DEF Owners
    <3> QED
      BY <1>A, <1>I, <3>1 DEF ClaimInv, OwnersOK
  <2>2. CASE db[k].status \in Pending
    BY <1>A, <1>I, <2>2, Unowned
  <2> QED
    BY <1>A, <2>1, <2>2
<1>O. ASSUME pc[t] \in ProcessPC
      PROVE  /\ Good(k) => ChatOwnerOK(t, k)
             /\ k \notin overwritten => ExactOwnerOK(t, k)
  <2>1. t \in Owners(k)
    BY <1>O, <1>T DEF Owners
  <2> QED
    BY <1>I, <2>1 DEF ChatOK, ExactOK
<1>M. k \notin overwritten /\ Owners(k) \subseteq {t} /\ pc[t] # "mark" => ~AtMark(k)
  BY DEF AtMark
<1>P. /\ \A l \in {"render", "send", "mark", "deliver", "settle"} : l \in ProcessPC
      /\ \A l \in {"next", "load"} : l \notin ProcessPC
  BY DEF ProcessPC
<1>F. ASSUME pc'[t] \in {"settle", "next", "load"}
      PROVE  ChatOwnerOK(t, k)' /\ ExactOwnerOK(t, k)' /\ pc'[t] # "mark"
  BY <1>F DEF ChatOwnerOK, ExactOwnerOK, SendLoop
<1>C. ASSUME Good(k)
      PROVE  /\ db[k].parts = <<>> => db[k].sent = 0
             /\ Posted(reached[k], db[k].parts, db[k].sent)
             /\ db[k].status = "delivered" => reached[k] = Alerts
             /\ \A u \in Owners(k) \ {t} : pc[u] \in SendLoop => db[k].parts = job[u].parts
  BY <1>C, <1>I DEF ChatOK, ChatOwnerOK
\* Steps that leave parts, sent_parts and the chat as they are.
<1>1. ASSUME db'[k].parts = db[k].parts, db'[k].sent = db[k].sent, reached'[k] = reached[k],
             db'[k].status = "delivered" => db[k].status = "delivered",
             k \in repeated' <=> k \in repeated, k \in unrecorded => k \in unrecorded',
             pc[t] \in ProcessPC \/ db[k].status \in Pending,
             pc[t] # "mark" \/ k \in unrecorded',
             Good(k) => ChatOwnerOK(t, k)', k \notin overwritten => ExactOwnerOK(t, k)'
      PROVE  ChatOK(k)' /\ ExactOK(k)' /\ KnownOK(k)'
  <2>1. ChatOK(k)'
    BY <1>1, <1>C, <1>G, <1>I, ChatWork
  <2>2. ASSUME k \notin overwritten'
        PROVE  /\ Owners(k) \subseteq {t}
               /\ db'[k].sent <= Len(db'[k].parts)
               /\ k \notin unrecorded' =>
                    /\ db'[k].parts = <<>> => reached'[k] = {}
                    /\ Unposted(reached'[k], db'[k].parts, db'[k].sent + 1)
                    /\ Unposted(reached'[k], db'[k].parts, db'[k].sent)
    <3>1. Owners(k) \subseteq {t}
      BY <1>1, <1>A, <1>G, <2>2
    <3>2. k \notin unrecorded' => ~AtMark(k)
      BY <1>1, <1>M, <1>G, <2>2, <3>1
    <3> QED
      BY <1>1, <1>G, <1>I, <2>2, <3>1, <3>2 DEF ExactOK
  <2>3. ExactOK(k)'
    BY <1>1, <1>G, <2>2, ExactWork
  <2> QED
    BY <1>1, <1>G, <1>I, <2>1, <2>3 DEF KnownOK
<1>2. CASE Claimed(t, k)
  <2>1. /\ db'[k].parts = db[k].parts /\ db'[k].sent = db[k].sent /\ db'[k].status = "sending"
        /\ db[k].status \in Pending /\ pc[t] = "claim"
        /\ reached'[k] = reached[k] /\ (k \in repeated' <=> k \in repeated)
        /\ k \in unrecorded' <=> k \in unrecorded
        /\ job'[t].parts = db[k].parts /\ job'[t].sent = db[k].sent
        /\ pc'[t] = IF db[k].parts = <<>> THEN "render" ELSE LoopPC(db[k].parts, db[k].sent)
    BY <1>2 DEF Claimed, RowBecomes, Columns, SameHistory, Locals
  <2>2. pc'[t] \in {"render", "send", "deliver"} /\ (pc'[t] = "render" => db[k].parts = <<>>)
    BY <2>1 DEF LoopPC
  <2>3. Good(k) => ChatOwnerOK(t, k)'
    BY <1>C, <2>1, <2>2 DEF ChatOwnerOK
  <2>4. ExactOwnerOK(t, k)'
    BY <2>1, <2>2 DEF ExactOwnerOK
  <2> QED
    BY <1>1, <2>1, <2>3, <2>4
<1>3. CASE ClaimMissed(t, k)
  <2>1. CASE SameRow(k)
    <3>1. pc[t] \notin WriterPC /\ pc'[t] \notin WriterPC
      BY <1>3 DEF ClaimMissed, WriterPC, ProcessPC
    <3>2. Others(t) /\ \A i \in Keys : SameRow(i) /\ SameHistory(i)
      BY <1>3, <2>1 DEF WorksOn, ClaimMissed
    <3>3. Apart(k)
      BY <3>1, <3>2, IdleApart
    <3> QED
      BY <1>I, <3>3, ChatApart DEF KnownOK, Apart, SameHistory
  <2>2. CASE ~SameRow(k)
    BY <1>1, <1>3, <1>F, <2>2 DEF ClaimMissed, RowBecomes, Columns, SameHistory
  <2> QED
    BY <2>1, <2>2
<1>4. CASE Settled(t, k)
  <2>1. /\ db'[k].parts = db[k].parts /\ db'[k].sent = db[k].sent
        /\ db'[k].status = "delivered" => db[k].status = "delivered"
        /\ reached'[k] = reached[k] /\ (k \in repeated' <=> k \in repeated)
        /\ k \in unrecorded' <=> k \in unrecorded
        /\ pc[t] = "settle" /\ pc'[t] \in {"next", "load"}
    BY <1>4, <1>T DEF Settled, SameRow, RowBecomes, Columns, SameHistory
  <2> QED
    BY <1>1, <1>F, <1>P, <2>1
\* The parts are saved: the row had none, or the same ones.
<1>5. ASSUME NEW p \in Renderings, PartsSaved(k, p), SameHistory(k), pc[t] = "render",
             \/ pc'[t] = "settle"
             \/ pc'[t] = LoopPC(p, job[t].sent) /\ Locals(job'[t], k, p, job[t].sent, job[t].attempts)
      PROVE  ChatOK(k)' /\ ExactOK(k)' /\ KnownOK(k)'
  <2>1. /\ db'[k].parts = p /\ db'[k].sent = db[k].sent /\ db'[k].status = db[k].status
        /\ reached'[k] = reached[k] /\ (k \in repeated' <=> k \in repeated)
        /\ k \in unrecorded' <=> k \in unrecorded
    BY <1>5 DEF PartsSaved, RowBecomes, Columns, SameHistory
  <2>2. p # <<>> /\ Len(p) \in Nat /\ pc[t] \in ProcessPC
    BY <1>5, <1>P, RenderingFacts
  <2>3. Good(k) => job[t].sent = 0 /\ (db[k].parts = <<>> \/ db[k].parts = p)
    BY <1>5, <1>O, <1>T, <2>2 DEF ChatOwnerOK, ExactOwnerOK, Good, FixedRendering
  <2>4. k \notin overwritten => Owners(k) \subseteq {t} /\ db[k].parts = <<>> /\ db[k].sent = 0
    BY <1>5, <1>A, <1>C, <1>G, <1>O, <2>2 DEF ExactOwnerOK
  <2>5. pc'[t] \in {"settle", "send", "deliver"}
    BY <1>5 DEF LoopPC
  <2>6. pc'[t] # "settle" => job'[t].parts = p /\ job'[t].sent = job[t].sent
    BY <1>5 DEF Locals
  <2>7. Good(k) => ChatOwnerOK(t, k)'
    BY <2>1, <2>3, <2>5, <2>6, PostedFacts DEF ChatOwnerOK, SendLoop
  <2>8. k \notin overwritten => ExactOwnerOK(t, k)'
    BY <1>G, <2>1, <2>3, <2>4, <2>5, <2>6 DEF ExactOwnerOK, SendLoop
  <2>9. Good(k) => Posted(reached[k], p, db[k].sent)
    BY <1>C, <2>3, PostedFacts
  <2>10. Good(k) => \A u \in Owners(k) \ {t} : pc[u] \in SendLoop => p = job[u].parts
    <3> SUFFICES ASSUME Good(k), NEW u \in Owners(k) \ {t}, pc[u] \in SendLoop
                 PROVE  p = job[u].parts
      OBVIOUS
    <3>1. job[u].parts \in Renderings
      <4>1. u \in Threads
        BY DEF Owners
      <4>2. LocalOK(u, pc[u], job[u])
        BY <1>I, <4>1 DEF ClaimInv, LocalsOK
      <4> QED
        BY <4>2 DEF LocalOK, SendLoop
    <3>2. FixedRendering
      BY <2>4 DEF Good
    <3> QED
      BY <3>1, <3>2 DEF FixedRendering
  <2>11. ChatOK(k)'
    BY <1>C, <1>G, <1>I, <2>1, <2>2, <2>7, <2>9, <2>10, ChatWork
  <2>12. k \notin overwritten /\ k \notin unrecorded => reached[k] = {}
    BY <1>I, <2>4 DEF ExactOK
  <2>13. ExactOK(k)'
    BY <1>G, <2>1, <2>2, <2>4, <2>8, <2>12, ExactWork DEF Unposted
  <2> QED
    BY <1>G, <1>I, <2>1, <2>11, <2>13 DEF KnownOK
<1>6. CASE Rendered(t, k) \/ RenderStops(t, k)
  <2>1. CASE Rendered(t, k)
    BY <1>5, <2>1 DEF Rendered
  <2>2. CASE RenderStops(t, k) /\ ~SameRow(k)
    BY <1>5, <2>2 DEF RenderStops, Stops
  <2>3. CASE RenderStops(t, k) /\ SameRow(k)
    <3>1. pc[t] = "render" /\ pc'[t] = "settle" /\ SameRow(k) /\ SameHistory(k)
      BY <2>3 DEF RenderStops, Stops
    <3> QED
      BY <1>1, <1>F, <1>P, <3>1 DEF SameRow, RowBecomes, Columns, SameHistory
  <2> QED
    BY <1>6, <2>1, <2>2, <2>3
\* The chat gets a part.
<1>7. ASSUME pc[t] = "send", SameRow(k), Accepts(t, k), k \in unrecorded => k \in unrecorded',
             \/ pc'[t] = "mark" /\ job'[t] = job[t] /\ (k \in unrecorded' => k \in unrecorded)
             \/ pc'[t] = "settle" /\ k \in unrecorded'
      PROVE  ChatOK(k)' /\ ExactOK(k)' /\ KnownOK(k)'
  <2> DEFINE p == job[t].parts
             n == job[t].sent
             part == p[n + 1]
  <2>1. /\ db'[k].parts = db[k].parts /\ db'[k].sent = db[k].sent /\ db'[k].status = db[k].status
        /\ reached'[k] = reached[k] \cup part
        /\ k \in repeated' <=> k \in repeated \/ part \cap reached[k] # {}
    BY <1>7 DEF SameRow, RowBecomes, Columns, Accepts
  <2>2. p \in Renderings /\ n < Len(p) /\ pc[t] \in ProcessPC
    BY <1>7, <1>P, <1>T DEF LocalOK
  <2>3. /\ Len(p) \in Nat /\ p # <<>> /\ n + 1 \in 1..Len(p)
        /\ \A i, j \in 1..Len(p) : i # j => p[i] \cap p[j] = {}
        /\ part \subseteq Alerts
    <3>1. n \in Nat
      BY <1>T
    <3>2. /\ Len(p) \in Nat /\ p # <<>>
          /\ \A i, j \in 1..Len(p) : i # j => p[i] \cap p[j] = {}
          /\ \A i \in 1..Len(p) : p[i] \subseteq Alerts
      BY <2>2, RenderingFacts
    <3>3. n + 1 \in 1..Len(p)
      BY <2>2, <3>1, <3>2
    <3> HIDE DEF p, n
    <3> QED
      BY <3>2, <3>3
  <2>4. Good(k) => p = db[k].parts /\ Posted(reached[k], p, n)
    BY <1>7, <1>O, <2>2 DEF ChatOwnerOK, SendLoop
  <2>5. k \notin overwritten => p = db[k].parts /\ n = db[k].sent /\ Owners(k) \subseteq {t}
    BY <1>7, <1>A, <1>O, <2>2 DEF ExactOwnerOK, SendLoop
  <2>6. k \notin overwritten /\ k \notin unrecorded => Unposted(reached[k], p, n)
    BY <1>7, <1>I, <1>M, <2>5 DEF ExactOK
  <2>7. Good(k) => ChatOwnerOK(t, k)'
    <3>1. CASE pc'[t] = "settle"
      BY <1>F, <3>1
    <3>2. CASE pc'[t] = "mark" /\ job'[t] = job[t]
      <4>1. Posted(reached[k], p, n) => Posted(reached'[k], p, n + 1)
        BY <1>T, <2>1, <2>3 DEF Posted
      <4> QED
        BY <2>1, <2>4, <3>2, <4>1, PostedFacts DEF ChatOwnerOK
    <3> QED
      BY <1>7, <3>1, <3>2
  <2>8. ChatOK(k)'
    <3>1. reached[k] \subseteq reached'[k]
      BY <2>1
    <3>2. Good(k) => /\ Posted(reached'[k], db'[k].parts, db'[k].sent)
                     /\ db'[k].status = "delivered" => reached'[k] = Alerts
      BY <1>C, <1>T, <2>1, <2>3, <3>1, PostedFacts
    <3> QED
      BY <1>C, <1>G, <1>I, <2>1, <2>7, <3>1, <3>2, ChatWork
  <2>9. k \notin overwritten => ExactOwnerOK(t, k)'
    BY <1>7, <1>F, <1>G, <2>1, <2>5 DEF ExactOwnerOK
  <2>10. k \notin overwritten /\ k \notin unrecorded => Unposted(reached'[k], p, n + 1)
    BY <1>T, <2>1, <2>3, <2>6 DEF Unposted
  <2>11. ExactOK(k)'
    <3>1. k \notin overwritten => db[k].sent <= Len(db[k].parts)
      BY <1>I DEF ExactOK
    <3>2. pc'[t] = "mark" /\ k \notin overwritten => t \in Owners(k)'
      BY <1>7, <1>P, <1>T DEF Owners
    <3> HIDE DEF p, n
    <3> QED
      BY <1>7, <1>G, <2>1, <2>3, <2>5, <2>9, <2>10, <3>1, <3>2, ExactWork
  <2>12. KnownOK(k)'
    <3>1. Unposted(reached[k], p, n) => part \cap reached[k] = {}
      BY <1>T, <2>3 DEF Unposted
    <3> QED
      BY <1>7, <1>G, <1>I, <2>1, <2>6, <3>1 DEF KnownOK
  <2> QED
    BY <2>8, <2>11, <2>12
<1>8. CASE Accepted(t, k)
  BY <1>7, <1>8 DEF Accepted
<1>9. CASE SendStops(t, k)
  <2>1. pc[t] = "send" /\ SameRow(k) /\ pc'[t] = "settle"
    BY <1>9 DEF SendStops, Stops
  <2>2. CASE Accepts(t, k) /\ k \in unrecorded'
    BY <1>7, <2>1, <2>2
  <2>3. CASE /\ reached'[k] = reached[k] /\ (k \in repeated' <=> k \in repeated)
             /\ k \in unrecorded' <=> k \in unrecorded
    BY <1>1, <1>F, <1>P, <2>1, <2>3 DEF SameRow, RowBecomes, Columns
  <2> QED
    BY <1>9, <2>2, <2>3 DEF SendStops
\* sent_parts counts the part the chat has just got.
<1>10. ASSUME pc[t] = "mark", ChunkMarked(t, k), SameHistory(k),
              \/ pc'[t] = "settle"
              \/ /\ pc'[t] = LoopPC(job[t].parts, job[t].sent + 1)
                 /\ Locals(job'[t], k, job[t].parts, job[t].sent + 1, job[t].attempts)
       PROVE  ChatOK(k)' /\ ExactOK(k)' /\ KnownOK(k)'
  <2> DEFINE p == job[t].parts
             n == job[t].sent
  <2>1. /\ db'[k].parts = db[k].parts /\ db'[k].sent = n + 1 /\ db'[k].status = db[k].status
        /\ reached'[k] = reached[k] /\ (k \in repeated' <=> k \in repeated)
        /\ k \in unrecorded' <=> k \in unrecorded
    BY <1>10 DEF ChunkMarked, RowBecomes, Columns, SameHistory
  <2>2. p \in Renderings /\ n < Len(p) /\ pc[t] \in ProcessPC
    BY <1>10, <1>P, <1>T DEF LocalOK
  <2>3. Len(p) \in Nat /\ p # <<>>
    BY <2>2, RenderingFacts
  <2>4. Good(k) => p = db[k].parts /\ Posted(reached[k], p, n + 1)
    BY <1>10, <1>O, <2>2 DEF ChatOwnerOK, SendLoop
  <2>5. k \notin overwritten => p = db[k].parts /\ n = db[k].sent /\ Owners(k) \subseteq {t}
    BY <1>10, <1>A, <1>O, <2>2 DEF ExactOwnerOK, SendLoop
  <2>6. pc'[t] \in {"settle", "send", "deliver"}
    BY <1>10 DEF LoopPC
  <2>7. pc'[t] # "settle" => job'[t].parts = p /\ job'[t].sent = n + 1
    BY <1>10 DEF Locals
  <2>8. Good(k) => ChatOwnerOK(t, k)'
    BY <2>1, <2>4, <2>6, <2>7 DEF ChatOwnerOK, SendLoop
  <2>9. k \notin overwritten => ExactOwnerOK(t, k)'
    BY <2>1, <2>5, <2>6, <2>7 DEF ExactOwnerOK, SendLoop
  <2>10. ChatOK(k)'
    <3> HIDE DEF p, n
    <3> QED
      BY <1>C, <1>G, <1>I, <2>1, <2>3, <2>4, <2>8, ChatWork
  <2>11. ExactOK(k)'
    <3>1. k \notin overwritten /\ k \notin unrecorded => Unposted(reached[k], p, n + 1)
      BY <1>I, <2>5 DEF ExactOK
    <3>2. Unposted(reached[k], p, n + 1) => Unposted(reached[k], p, n + 1 + 1)
      BY <1>T, <2>3 DEF Unposted
    <3>3. n + 1 <= Len(p)
      BY <1>T, <2>2, <2>3
    <3> HIDE DEF p, n
    <3> QED
      BY <1>G, <2>1, <2>3, <2>5, <2>9, <3>1, <3>2, <3>3, ExactWork
  <2> QED
    BY <1>G, <1>I, <2>1, <2>10, <2>11 DEF KnownOK
<1>11. CASE Marked(t, k)
  BY <1>10, <1>11 DEF Marked
<1>12. CASE MarkStops(t, k)
  <2>1. /\ pc[t] = "mark" /\ pc'[t] = "settle" /\ reached'[k] = reached[k]
        /\ k \in repeated' <=> k \in repeated
    BY <1>12 DEF MarkStops, Stops
  <2>2. CASE SameRow(k) /\ k \in unrecorded'
    BY <1>1, <1>F, <1>P, <2>1, <2>2 DEF SameRow, RowBecomes, Columns
  <2>3. CASE ChunkMarked(t, k) /\ (k \in unrecorded' <=> k \in unrecorded)
    <3>1. SameHistory(k)
      BY <1>12, <2>3 DEF MarkStops, SameHistory
    <3> QED
      BY <1>10, <2>1, <2>3, <3>1
  <2> QED
    BY <1>12, <2>2, <2>3 DEF MarkStops
\* The row says 'delivered'.
<1>13. ASSUME pc[t] = "deliver", RowDelivered(t, k), SameHistory(k),
              pc'[t] \in {"settle", "next", "load"}
       PROVE  ChatOK(k)' /\ ExactOK(k)' /\ KnownOK(k)'
  <2> DEFINE p == job[t].parts
             n == job[t].sent
  <2>1. /\ db'[k].parts = db[k].parts /\ db'[k].sent = Len(p) /\ db'[k].status = "delivered"
        /\ reached'[k] = reached[k] /\ (k \in repeated' <=> k \in repeated)
        /\ k \in unrecorded' <=> k \in unrecorded
    BY <1>13 DEF RowDelivered, RowBecomes, Columns, SameHistory
  <2>2. p \in Renderings /\ n >= Len(p) /\ pc[t] \in ProcessPC
    BY <1>13, <1>P, <1>T DEF LocalOK
  <2>3. Len(p) \in Nat /\ p # <<>>
    BY <2>2, RenderingFacts
  <2>4. Good(k) => p = db[k].parts /\ Posted(reached[k], p, n)
    BY <1>13, <1>O, <2>2 DEF ChatOwnerOK, SendLoop
  <2>5. Posted(reached[k], p, n) => reached[k] = Alerts /\ Posted(reached[k], p, Len(p))
    <3>1. Posted(reached[k], p, n) => Posted(reached[k], p, Len(p))
      BY <1>T, <2>2, <2>3 DEF Posted
    <3> QED
      BY <1>T, <2>2, <3>1, PostedIsAll
  <2>6. k \notin overwritten => p = db[k].parts /\ Owners(k) \subseteq {t}
    BY <1>13, <1>A, <1>O, <2>2 DEF ExactOwnerOK, SendLoop
  <2>7. ChatOK(k)'
    <3> HIDE DEF p, n
    <3> QED
      BY <1>13, <1>C, <1>F, <1>G, <1>I, <2>1, <2>3, <2>4, <2>5, ChatWork
  <2>8. ExactOK(k)'
    <3>1. Unposted(reached[k], p, Len(p)) /\ Unposted(reached[k], p, Len(p) + 1)
      BY <2>3 DEF Unposted
    <3>2. Len(p) <= Len(p)
      BY <2>3
    <3> HIDE DEF p, n
    <3> QED
      BY <1>13, <1>F, <1>G, <2>1, <2>3, <2>6, <3>1, <3>2, ExactWork
  <2> QED
    BY <1>G, <1>I, <2>1, <2>7, <2>8 DEF KnownOK
<1>14. CASE Delivered(t, k)
  BY <1>13, <1>14 DEF Delivered
<1>15. CASE DeliverStops(t, k)
  <2>1. pc[t] = "deliver" /\ pc'[t] = "settle" /\ SameHistory(k)
    BY <1>15 DEF DeliverStops, Stops
  <2>2. CASE SameRow(k)
    BY <1>1, <1>F, <1>P, <2>1, <2>2 DEF SameRow, RowBecomes, Columns, SameHistory
  <2> QED
    BY <1>13, <1>15, <2>1, <2>2 DEF DeliverStops
<1> QED
  BY <1>2, <1>3, <1>4, <1>6, <1>8, <1>9, <1>11, <1>12, <1>14, <1>15 DEF AttemptStep

\* The other steps.
LEMMA ChatKinds ==
    ASSUME ChatInv, NEW k \in Keys
    PROVE  /\ Apart(k) \/ Deleted(k) \/ Ended(k) \/ Requeued(k)
                => ChatOK(k)' /\ ExactOK(k)' /\ KnownOK(k)'
           /\ \A r \in Threads : WorksOn(r, k) /\ (Queued(r, k) \/ Created(r, k))
                => ChatOK(k)' /\ ExactOK(k)' /\ KnownOK(k)'
<1>I. ChatOK(k) /\ ExactOK(k) /\ KnownOK(k) /\ ClaimInv
  BY DEF ChatInv, OnlyKnownDuplicates, KnownOK
<1>W. Owners(k) \subseteq Writers(k) /\ Owners(k)' \subseteq Writers(k)'
  BY DEF Owners, Writers
\* No owner is left.
<1>N. ASSUME Owners(k)' = {}, reached'[k] = reached[k], db'[k].parts = db[k].parts,
             db'[k].sent = db[k].sent, db'[k].status = "delivered" => db[k].status = "delivered",
             Stored(db', k) => Stored(db, k),
             k \in overwritten' <=> k \in overwritten, k \in repeated' <=> k \in repeated,
             k \in unrecorded => k \in unrecorded', AtMark(k) => k \in unrecorded'
      PROVE  ChatOK(k)' /\ ExactOK(k)' /\ KnownOK(k)'
  <2>1. ChatOK(k)'
    BY <1>N, <1>I DEF ChatOK, Good, FixedRendering
  <2>2. ExactOK(k)'
    BY <1>N, <1>I DEF ExactOK
  <2> QED
    BY <1>N, <1>I, <2>1, <2>2 DEF KnownOK
<1>1. CASE Apart(k)
  BY <1>1, <1>I, ChatApart DEF Apart, SameHistory, KnownOK
<1>2. CASE Deleted(k)
  <2>1. /\ db'[k].parts = <<>> /\ db'[k].sent = 0 /\ db'[k].status = "absent"
        /\ Owners(k)' = {} /\ SameHistory(k)
    BY <1>2, <1>W DEF Deleted, RowBecomes, Columns
  <2> QED
    BY <1>I, <2>1, PostedFacts DEF ChatOK, ExactOK, KnownOK, SameHistory, Stored
<1>3. CASE Ended(k)
  <2>1. AtMark(k) => k \in unrecorded'
    BY <1>3 DEF Ended, AtMark
  <2> QED
    BY <1>3, <1>N, <1>W, <2>1 DEF Ended, SameRow, RowBecomes, Columns, Stored
<1>4. CASE Requeued(k)
  <2>1. ~AtMark(k) /\ Owners(k)' = {}
    BY <1>4, <1>W DEF Requeued, AtMark
  <2> QED
    BY <1>4, <1>N, <2>1 DEF Requeued, SameRow, RowBecomes, Columns, Stored, SameHistory
<1>5. ASSUME NEW r \in Threads, WorksOn(r, k), Queued(r, k)
      PROVE  ChatOK(k)' /\ ExactOK(k)' /\ KnownOK(k)'
  <2>1. /\ db'[k].parts = db[k].parts /\ db'[k].sent = db[k].sent
        /\ db'[k].status = "delivered" => db[k].status = "delivered"
        /\ k \in overwritten => k \in overwritten'
        /\ reached'[k] = reached[k] /\ (k \in repeated' <=> k \in repeated)
        /\ k \in unrecorded' <=> k \in unrecorded
    BY <1>5 DEF Queued, SameRow, RowBecomes, Columns
  <2>2. /\ Owners(k)' = Owners(k)
        /\ \A u \in Owners(k) : pc'[u] = pc[u] /\ job'[u] = job[u]
    <3>1. r \notin Owners(k) /\ r \notin Owners(k)'
      BY <1>5 DEF Queued, Owners, ProcessPC
    <3> QED
      BY <1>5, <3>1, WorksOwners DEF Owners
  <2>3. \A u \in Owners(k) : /\ ChatOwnerOK(u, k) => ChatOwnerOK(u, k)'
                             /\ ExactOwnerOK(u, k) => ExactOwnerOK(u, k)'
    BY <2>1, <2>2 DEF ChatOwnerOK, ExactOwnerOK
  <2>4. Good(k)' => Good(k)
    BY <2>1 DEF Good, FixedRendering
  <2>5. ChatOK(k)'
    BY <1>I, <2>1, <2>2, <2>3, <2>4 DEF ChatOK
  <2>6. Stored(db', k) => Stored(db, k)
    <3>1. pc[r] \in HeldPC /\ job[r].ev = k
      BY <1>5 DEF Queued, HeldPC, WorksOn
    <3> QED
      BY <1>I, <3>1, InHand
  <2>7. AtMark(k) <=> AtMark(k)'
    BY <2>2 DEF AtMark
  <2>8. ExactOK(k)'
    BY <1>I, <2>1, <2>2, <2>3, <2>6, <2>7 DEF ExactOK
  <2> QED
    BY <1>I, <2>1, <2>5, <2>8 DEF KnownOK
<1>6. ASSUME NEW r \in Threads, WorksOn(r, k), Created(r, k)
      PROVE  ChatOK(k)' /\ ExactOK(k)' /\ KnownOK(k)'
  <2>1. /\ db'[k].parts = <<>> /\ db'[k].sent = 0 /\ db'[k].status = "received"
        /\ reached'[k] = {} /\ k \notin repeated'
    BY <1>6 DEF Created, RowBecomes, Columns
  <2>2. Owners(k)' = {}
    <3>1. Owners(k) = {}
      BY <1>6, <1>I DEF Created, Owners, ClaimInv, HeldRowsOK, HoldsEvent
    <3>2. r \notin Owners(k)'
      BY <1>6 DEF Created, Owners, ProcessPC
    <3> QED
      BY <1>6, <3>1, <3>2, WorksOwners DEF Owners
  <2>3. ChatOK(k)'
    BY <2>1, <2>2, PostedFacts DEF ChatOK
  <2>4. ExactOK(k)'
    BY <2>1, <2>2 DEF ExactOK, Unposted
  <2> QED
    BY <2>1, <2>3, <2>4 DEF KnownOK
<1> QED
  BY <1>1, <1>2, <1>3, <1>4, <1>5, <1>6

LEMMA ChatInit == Init => ChatInv
<1> SUFFICES ASSUME Init PROVE ChatInv
  OBVIOUS
<1>1. ClaimInv
  BY ClaimInit
<1>2. ASSUME NEW k \in Keys PROVE ChatOK(k) /\ ExactOK(k)
  <2>1. db[k] = NoRow /\ reached[k] = {} /\ Owners(k) = {}
    BY DEF Init, Owners, ProcessPC
  <2>2. db[k].parts = <<>> /\ db[k].sent = 0 /\ db[k].status = "absent"
    BY <2>1 DEF NoRow
  <2> QED
    BY <2>1, <2>2, PostedFacts DEF ChatOK, ExactOK, Stored
<1>3. OnlyKnownDuplicates
  BY DEF Init, OnlyKnownDuplicates
<1> QED
  BY <1>1, <1>2, <1>3 DEF ChatInv

LEMMA ChatStep == ChatInv /\ [Next]_vars => ChatInv'
<1> SUFFICES ASSUME ChatInv, [Next]_vars PROVE ChatInv'
  OBVIOUS
<1>1. ClaimInv /\ ClaimInv'
  BY ClaimStep DEF ChatInv
<1>2. StepKinds /\ Requests \subseteq Threads
  BY <1>1, NextKinds DEF Threads
<1>3. ASSUME NEW k \in Keys PROVE ChatOK(k)' /\ ExactOK(k)' /\ KnownOK(k)'
  <2>1. ASSUME NEW t \in Threads, WorksOn(t, job[t].ev), k # job[t].ev
        PROVE  ChatOK(k)' /\ ExactOK(k)' /\ KnownOK(k)'
    BY <2>1, WorksApart, ChatKinds
  <2>2. ASSUME NEW t \in Threads, WorksOn(t, job[t].ev), Stored(db, job[t].ev),
               pc[t] \in {"claim"} \cup ProcessPC, AttemptStep(t, job[t].ev)
        PROVE  ChatOK(k)' /\ ExactOK(k)' /\ KnownOK(k)'
    BY <2>1, <2>2, AttemptChat
  <2>3. ASSUME NEW r \in Requests, WorksOn(r, job[r].ev),
               Queued(r, job[r].ev) \/ Created(r, job[r].ev)
        PROVE  ChatOK(k)' /\ ExactOK(k)' /\ KnownOK(k)'
    <3>1. r \in Threads
      BY <1>2
    <3> QED
      BY <2>1, <2>3, <3>1, ChatKinds
  <2> QED
    BY <1>2, <2>2, <2>3, ChatKinds DEF StepKinds
<1>4. OnlyKnownDuplicates'
  BY <1>1, <1>3 DEF OnlyKnownDuplicates, KnownOK, ClaimInv, TypeOK
<1> QED
  BY <1>1, <1>3, <1>4 DEF ChatInv

\* At-least-once (README.md:35), for every number of requests, events, faults and
\* renderings: a row says 'delivered' only when the chat has all of the event.
THEOREM DeliveredComplete == Spec => []DeliveredIsComplete
<1>1. ChatInv => DeliveredIsComplete
  BY DEF ChatInv, ChatOK, DeliveredIsComplete, Good
<1> QED
  BY <1>1, ChatInit, ChatStep, PTL DEF Spec

\* The chat sees a part twice only if an accepted part went unrecorded or two
\* goroutines held the row.
THEOREM KnownDuplicates == Spec => []OnlyKnownDuplicates
<1>1. ChatInv => OnlyKnownDuplicates
  BY DEF ChatInv
<1> QED
  BY <1>1, ChatInit, ChatStep, PTL DEF Spec

\* sent_parts (sqlite.go:384) never moves back while one goroutine at a time works
\* on the row.
THEOREM ProgressKept == Spec => ProgressIsKept
<1> DEFINE Keeps == \A k \in Keys \ overwritten' : Stored(db, k) /\ Stored(db', k)
                                                   => db[k].sent <= db'[k].sent
<1>1. ChatInv /\ [Next]_vars => [Keeps]_vars
  <2> SUFFICES ASSUME ChatInv, [Next]_vars, NEW k \in Keys \ overwritten',
                      Stored(db, k), Stored(db', k)
               PROVE  db[k].sent <= db'[k].sent
    OBVIOUS
  <2>T. db[k].sent \in Nat /\ db'[k].sent \in Nat
    <3>1. TypeOK /\ TypeOK'
      BY ChatStep DEF ChatInv, ClaimInv
    <3> QED
      BY <3>1 DEF TypeOK, Row
  <2>K. StepKinds /\ Requests \subseteq Threads
    BY NextKinds DEF ChatInv, Threads
  <2>1. ASSUME db'[k].sent = db[k].sent PROVE db[k].sent <= db'[k].sent
    BY <2>1, <2>T
  <2>2. CASE Apart(k) \/ Deleted(k) \/ Ended(k) \/ Requeued(k)
    BY <2>1, <2>2 DEF Apart, Deleted, Ended, Requeued, SameRow, RowBecomes, Columns, Stored
  <2>3. ASSUME NEW t \in Threads, WorksOn(t, job[t].ev), k # job[t].ev
        PROVE  db[k].sent <= db'[k].sent
    BY <2>2, <2>3, WorksApart
  <2>4. ASSUME NEW r \in Threads, Queued(r, k) \/ Created(r, k)
        PROVE  db[k].sent <= db'[k].sent
    BY <2>1, <2>4 DEF Queued, Created, SameRow, RowBecomes, Columns
  <2>5. ASSUME NEW t \in Threads, WorksOn(t, k), AttemptStep(t, k)
        PROVE  db[k].sent <= db'[k].sent
    <3>1. k \notin overwritten
      BY <2>5 DEF AttemptStep, Claimed, ClaimMissed, Rendered, RenderStops, Accepted, SendStops,
                  Marked, MarkStops, Delivered, DeliverStops, Settled, SameHistory
    <3>2. db[k].sent <= Len(db[k].parts) /\ \A u \in Owners(k) : ExactOwnerOK(u, k)
      BY <3>1 DEF ChatInv, ExactOK
    <3>3. CASE pc[t] = "mark" /\ ChunkMarked(t, k)
      <4>1. t \in Owners(k)
        BY <2>5, <3>3 DEF Owners, WorksOn, ProcessPC
      <4>2. db'[k].sent = db[k].sent + 1
        BY <3>2, <3>3, <4>1 DEF ExactOwnerOK, SendLoop, ChunkMarked, RowBecomes, Columns
      <4> QED
        BY <2>T, <4>2
    <3>4. CASE pc[t] = "deliver" /\ RowDelivered(t, k)
      <4>1. t \in Owners(k)
        BY <2>5, <3>4 DEF Owners, WorksOn, ProcessPC
      <4>2. db'[k].sent = Len(db[k].parts)
        BY <3>2, <3>4, <4>1 DEF ExactOwnerOK, SendLoop, RowDelivered, RowBecomes, Columns
      <4> QED
        BY <3>2, <4>2
    <3>5. CASE db'[k].sent = db[k].sent
      BY <2>1, <3>5
    <3> QED
      BY <2>5, <3>3, <3>4, <3>5
      DEF AttemptStep, Claimed, ClaimMissed, Rendered, RenderStops, Accepted, SendStops,
          Marked, MarkStops, Delivered, DeliverStops, Settled, SameRow, PartsSaved,
          RowBecomes, Columns
  <2>6. ASSUME NEW r \in Requests, WorksOn(r, job[r].ev),
               Queued(r, job[r].ev) \/ Created(r, job[r].ev)
        PROVE  db[k].sent <= db'[k].sent
    <3>1. r \in Threads
      BY <2>K
    <3> QED
      BY <2>3, <2>4, <2>6, <3>1
  <2> QED
    BY <2>K, <2>2, <2>3, <2>5, <2>6 DEF StepKinds
<1> QED
  BY <1>1, ChatInit, ChatStep, PTL DEF Spec, ProgressIsKept


-----------------------------------------------------------------------------
\* The pipeline implements the outbox.

OutboxOf == [k \in Keys |-> BoxOf(db[k].status)]

LEMMA BoxFacts ==
    /\ \A s \in Statuses : BoxOf(s) \in {"open", "delivered", "given_up"}
    /\ \A s \in Statuses : BoxOf(s) = "delivered" <=> s = "delivered"
    /\ \A s \in Terminal : BoxOf(s) \in {"delivered", "given_up"}
    /\ BoxOf("absent") = "none" /\ BoxOf("received") = "open"
    /\ BoxOf("sending") = "open" /\ BoxOf("queued") = "open"
  BY DEF BoxOf, Statuses, Pending, Terminal

\* A stored row has another status: the event is completed, given up or reopened,
\* or nothing the promise is about has happened.
LEMMA RowStep ==
    ASSUME NEW k \in Keys, db \in [Keys -> Row], db' \in [Keys -> Row],
           Stored(db, k), Stored(db', k), reached' = reached,
           \A i \in Keys \ {k} : db'[i].status = db[i].status,
           db'[k].status = "delivered" => reached[k] = Alerts
    PROVE  Promise!OutboxNext \/ UNCHANGED <<OutboxOf, reached>>
<1> DEFINE new == BoxOf(db'[k].status)
           old == BoxOf(db[k].status)
<1>1. db[k].status \in Statuses /\ db'[k].status \in Statuses
  BY DEF Row, Stored
<1>2. /\ OutboxOf' = [OutboxOf EXCEPT ![k] = new] /\ OutboxOf[k] = old
      /\ OutboxOf' = [i \in Keys |-> BoxOf(db'[i].status)]
  BY DEF OutboxOf
<1>3. /\ new \in {"open", "delivered", "given_up"} /\ old \in {"open", "delivered", "given_up"}
      /\ new = "delivered" => reached[k] = Alerts
  BY <1>1, BoxFacts
<1> HIDE DEF new, old
<1>4. CASE new = old
  BY <1>2, <1>4 DEF OutboxOf
<1>5. CASE new = "delivered"
  <2>1. Promise!Complete(k)
    BY <1>2, <1>3, <1>5 DEF Promise!Complete, OutboxOf
  <2> QED
    BY <2>1 DEF Promise!OutboxNext
<1>6. CASE new = "given_up"
  <2>1. Promise!GiveUp(k)
    BY <1>2, <1>3, <1>6 DEF Promise!GiveUp, OutboxOf
  <2> QED
    BY <2>1 DEF Promise!OutboxNext
<1>7. CASE new = "open" /\ new # old
  <2>1. Promise!Reopen(k)
    BY <1>2, <1>3, <1>7 DEF Promise!Reopen, Promise!Closed, OutboxOf
  <2> QED
    BY <2>1 DEF Promise!OutboxNext
<1> QED
  BY <1>3, <1>4, <1>5, <1>6, <1>7

\* The chat gets a part of a stored event.
LEMMA PostStep ==
    ASSUME NEW k \in Keys, TypeOK, TypeOK', Stored(db, k), NEW part \in SUBSET Alerts,
           \A i \in Keys : db'[i].status = db[i].status,
           \A i \in Keys \ {k} : reached'[i] = reached[i],
           reached'[k] = reached[k] \cup part
    PROVE  Promise!OutboxNext
<1>1. reached' = [reached EXCEPT ![k] = reached[k] \cup part]
  BY DEF TypeOK
<1>2. OutboxOf' = OutboxOf /\ OutboxOf[k] # "none"
  <2>1. db[k].status \in Statuses
    BY DEF TypeOK, Row, Stored
  <2> QED
    BY <2>1, BoxFacts DEF OutboxOf
<1>3. Promise!Post(k, part)
  BY <1>1, <1>2 DEF Promise!Post, OutboxOf
<1> QED
  BY <1>3 DEF Promise!OutboxNext

\* Every step of the pipeline is a step of the outbox or changes nothing it sees.
LEMMA PromiseStep ==
    ASSUME FixedRendering, ChatInv, [Next]_vars
    PROVE  Promise!OutboxNext \/ UNCHANGED <<OutboxOf, reached>>
<1>T. /\ ChatInv' /\ TypeOK /\ TypeOK' /\ ClaimInv
      /\ db \in [Keys -> Row] /\ db' \in [Keys -> Row] /\ Requests \subseteq Threads
  <2>1. ChatInv' /\ TypeOK /\ TypeOK' /\ ClaimInv
    BY ChatStep DEF ChatInv, ClaimInv
  <2> QED
    BY <2>1 DEF TypeOK, Threads
<1>D. ASSUME NEW k \in Keys, db'[k].status = "delivered" PROVE reached'[k] = Alerts
  BY <1>T, <1>D DEF ChatInv, ChatOK, Good, FixedRendering
<1>E. ASSUME \A i \in Keys : reached'[i] = reached[i] PROVE reached' = reached
  BY <1>E, <1>T DEF TypeOK
<1>S. ASSUME NEW i \in Keys, SameRow(i) PROVE db'[i].status = db[i].status
  BY <1>S DEF SameRow, RowBecomes, Columns
<1>H. ASSUME NEW i \in Keys, SameHistory(i) PROVE reached'[i] = reached[i]
  BY <1>H DEF SameHistory
\* Nothing the outbox sees.
<1>1. ASSUME \A i \in Keys : \/ db'[i].status = db[i].status
                             \/ db[i].status = "sending" /\ db'[i].status = "queued",
             \A i \in Keys : reached'[i] = reached[i]
      PROVE  UNCHANGED <<OutboxOf, reached>>
  <2>1. \A i \in Keys : BoxOf(db'[i].status) = BoxOf(db[i].status)
    BY <1>1, BoxFacts
  <2> QED
    BY <1>1, <1>E, <2>1 DEF OutboxOf
\* The row of one event.
<1>2. ASSUME NEW t \in Threads, NEW k \in Keys, WorksOn(t, k), Stored(db, k), Stored(db', k),
             reached'[k] = reached[k]
      PROVE  Promise!OutboxNext \/ UNCHANGED <<OutboxOf, reached>>
  <2>1. \A i \in Keys \ {k} : db'[i].status = db[i].status /\ reached'[i] = reached[i]
    BY <1>2, <1>S, <1>H DEF WorksOn
  <2>2. reached' = reached
    BY <1>2, <1>E, <2>1
  <2> QED
    BY <1>2, <1>D, <1>T, <2>1, <2>2, RowStep
<1>3. ASSUME NEW t \in Threads, WorksOn(t, job[t].ev), Stored(db, job[t].ev),
             pc[t] \in {"claim"} \cup ProcessPC, AttemptStep(t, job[t].ev)
      PROVE  Promise!OutboxNext \/ UNCHANGED <<OutboxOf, reached>>
  <2> DEFINE k == job[t].ev
  <2>1. k \in Keys
    BY <1>3 DEF WorksOn
  <2>2. Stored(db', k)
    <3>1. k \notin victims
      <4>1. pc[t] \in HeldPC
        BY <1>3 DEF HeldPC
      <4>2. HoldsEvent(t, k)
        BY <4>1 DEF HoldsEvent, HeldPC
      <4> QED
        BY <1>T, <2>1, <4>2 DEF ClaimInv, HeldRowsOK
    <3> QED
      BY <1>3, <1>T, <2>1, <3>1, ClaimStep DEF Kept
  <2>3. CASE pc[t] = "send" /\ SameRow(k) /\ Accepts(t, k)
    <3> DEFINE part == job[t].parts[job[t].sent + 1]
    <3>1. part \in SUBSET Alerts /\ reached'[k] = reached[k] \cup part
      <4>1. LocalOK(t, "send", job[t]) /\ job[t].sent \in Nat
        BY <1>T, <2>3 DEF ClaimInv, LocalsOK, TypeOK, Job
      <4>2. job[t].parts \in Renderings /\ job[t].sent < Len(job[t].parts)
        BY <4>1 DEF LocalOK
      <4>3. job[t].sent + 1 \in 1..Len(job[t].parts)
        BY <4>1, <4>2, RenderingFacts
      <4> QED
        BY <2>3, <4>2, <4>3, RenderingFacts DEF Accepts
    <3>2. /\ \A i \in Keys \ {k} : db'[i].status = db[i].status /\ reached'[i] = reached[i]
          /\ db'[k].status = db[k].status
      BY <1>3, <1>S, <1>H, <2>1, <2>3 DEF WorksOn
    <3> HIDE DEF part
    <3> QED
      BY <1>3, <1>T, <2>1, <3>1, <3>2, PostStep
  <2>4. CASE reached'[k] = reached[k]
    BY <1>2, <1>3, <2>1, <2>2, <2>4
  <2> QED
    BY <1>3, <2>3, <2>4
    DEF AttemptStep, Claimed, ClaimMissed, Rendered, RenderStops, Accepted, SendStops,
        Marked, MarkStops, Delivered, DeliverStops, Settled, SameHistory
<1>4. ASSUME NEW r \in Requests, WorksOn(r, job[r].ev), Queued(r, job[r].ev)
      PROVE  Promise!OutboxNext \/ UNCHANGED <<OutboxOf, reached>>
  <2>1. r \in Threads /\ job[r].ev \in Keys /\ reached'[job[r].ev] = reached[job[r].ev]
    BY <1>4, <1>T DEF WorksOn, Queued
  <2>2. Stored(db, job[r].ev)
    <3>1. pc[r] \in HeldPC
      BY <1>4 DEF Queued, HeldPC
    <3> QED
      BY <1>T, <2>1, <3>1, InHand
  <2>3. Stored(db', job[r].ev)
    BY <1>4, <1>S, <2>1, <2>2 DEF Queued, RowBecomes, Columns, Stored
  <2> QED
    BY <1>2, <1>4, <2>1, <2>2, <2>3
<1>5. ASSUME NEW r \in Requests, WorksOn(r, job[r].ev), Created(r, job[r].ev)
      PROVE  Promise!OutboxNext
  <2> DEFINE k == job[r].ev
  <2>1. k \in Keys /\ db[k].status = "absent" /\ db'[k].status = "received" /\ reached'[k] = {}
    BY <1>5 DEF WorksOn, Created, Stored, RowBecomes, Columns
  <2>2. \A i \in Keys \ {k} : db'[i].status = db[i].status /\ reached'[i] = reached[i]
    BY <1>5, <1>S, <1>H DEF WorksOn
  <2> HIDE DEF k
  <2>3. reached' = [reached EXCEPT ![k] = {}]
    BY <1>T, <2>1, <2>2 DEF TypeOK
  <2>4. OutboxOf[k] = "none" /\ OutboxOf' = [OutboxOf EXCEPT ![k] = "open"]
    BY <2>1, <2>2, BoxFacts DEF OutboxOf
  <2>5. Promise!Store(k)
    BY <2>3, <2>4 DEF Promise!Store, OutboxOf
  <2> QED
    BY <2>1, <2>5 DEF Promise!OutboxNext
<1>6. ASSUME \A i \in Keys : Apart(i) \/ Deleted(i)
      PROVE  Promise!OutboxNext
  <2> DEFINE ks == {i \in Keys : Deleted(i)}
  <2>1. \A i \in Keys : reached'[i] = reached[i]
    BY <1>6, <1>H DEF Apart, Deleted
  <2>2. /\ \A i \in ks : db[i].status \in Terminal /\ db'[i].status = "absent"
        /\ \A i \in Keys \ ks : db'[i].status = db[i].status
    BY <1>6, <1>S DEF Apart, Deleted, RowBecomes, Columns
  <2>3. ks \in SUBSET Keys
    OBVIOUS
  <2> HIDE DEF ks
  <2>4. /\ \A i \in ks : OutboxOf[i] \in {"delivered", "given_up"}
        /\ OutboxOf' = [i \in Keys |-> IF i \in ks THEN "none" ELSE OutboxOf[i]]
    BY <2>2, <2>3, BoxFacts DEF OutboxOf
  <2>5. Promise!Retire(ks)
    BY <1>E, <2>1, <2>4 DEF Promise!Retire, Promise!Closed, OutboxOf
  <2> QED
    BY <2>3, <2>5 DEF Promise!OutboxNext
<1>7. ASSUME \/ \A i \in Keys : Apart(i)
             \/ \A i \in Keys : Ended(i)
             \/ \A i \in Keys : Requeued(i)
      PROVE  UNCHANGED <<OutboxOf, reached>>
  BY <1>1, <1>7, <1>S, <1>H DEF Apart, Ended, Requeued, RowBecomes, Columns
<1>8. StepKinds
  BY <1>T, NextKinds
<1> QED
  BY <1>3, <1>4, <1>5, <1>6, <1>7, <1>8 DEF StepKinds

\* The pipeline implements the at-least-once outbox when every rendering of an event
\* is the same: nothing is marked delivered before the chat has all of it, and
\* nothing open is ever forgotten.
THEOREM AtLeastOnce == ASSUME FixedRendering PROVE Spec => ImplementsOutbox
<1>1. Init => Promise!OutboxInit
  BY DEF Init, NoRow, Promise!OutboxInit, BoxOf
<1>2. ChatInv /\ [Next]_vars => [Promise!OutboxNext]_(Promise!outboxVars)
  <2> SUFFICES ASSUME ChatInv, [Next]_vars
               PROVE  Promise!OutboxNext \/ UNCHANGED Promise!outboxVars
    OBVIOUS
  <2>1. UNCHANGED <<OutboxOf, reached>> => UNCHANGED Promise!outboxVars
    BY DEF OutboxOf, Promise!outboxVars
  <2> QED
    BY <2>1, PromiseStep
<1> QED
  BY <1>1, <1>2, ChatInit, ChatStep, PTL DEF Spec, ImplementsOutbox, Promise!OutboxSpec
=============================================================================
