--------------------------- MODULE DeliveryProofs ---------------------------
(***************************************************************************)
(* Machine-checked proofs about the delivery pipeline, for every number of *)
(* requests, events, renderings, attempts and faults: type correctness,    *)
(* and who may own a row.                                                  *)
(***************************************************************************)
EXTENDS Delivery, TLAPS

-----------------------------------------------------------------------------
\* Type correctness.

\* Assigning columns of a row, the way the statements of the store do.
LEMMA RowUpdates ==
    ASSUME NEW r \in Row
    PROVE  /\ r.attempts \in Nat /\ r.elders \in SUBSET Keys
           /\ \A w \in BOOLEAN : [r EXCEPT !.waiting = w] \in Row
           /\ \A s \in Statuses, w \in BOOLEAN :
                 [r EXCEPT !.status = s, !.waiting = w] \in Row
           /\ \A s \in Statuses, w \in BOOLEAN, n \in Nat :
                 [r EXCEPT !.status = s, !.waiting = w, !.attempts = n] \in Row
           /\ \A s \in Statuses, w \in BOOLEAN, n \in Nat :
                 [r EXCEPT !.status = s, !.sent = n, !.waiting = w] \in Row
           /\ \A p \in Renderings : [r EXCEPT !.parts = p] \in Row
           /\ \A n \in Nat : [r EXCEPT !.sent = n] \in Row
           /\ \A e \in SUBSET Keys : [r EXCEPT !.elders = e] \in Row
           /\ \A s \in Statuses, e \in SUBSET Keys :
                 [r EXCEPT !.status = s, !.elders = e] \in Row
  BY DEF Row

LEMMA NoRowType == NoRow \in Row
  BY DEF Row, NoRow

\* UPDATE ... WHERE event_id = k with a well-formed row.
LEMMA UpdateType ==
    ASSUME NEW d \in [Keys -> Row], NEW k \in Keys, NEW r \in Row
    PROVE  /\ Update(d, k, r) \in [Keys -> Row]
           /\ [d EXCEPT ![k] = r] \in [Keys -> Row]
  BY DEF Update

\* Every statement of the store maps a table to a table.
LEMMA StatementTypes ==
    ASSUME NEW d \in [Keys -> Row], NEW k \in Keys
    PROVE  /\ CreateReceived(d, k) \in [Keys -> Row]
           /\ MarkQueued(d, k) \in [Keys -> Row]
           /\ ClaimForSend(d, k) \in [Keys -> Row]
           /\ \A p \in Renderings : SaveRenderedParts(d, k, p) \in [Keys -> Row]
           /\ \A n \in Nat : MarkChunkSent(d, k, n) \in [Keys -> Row]
           /\ \A n \in Nat : MarkDelivered(d, k, n) \in [Keys -> Row]
           /\ \A w \in BOOLEAN : ScheduleRetry(d, k, w) \in [Keys -> Row]
           /\ \A s \in Terminal : MarkTerminal(d, k, s) \in [Keys -> Row]
<1>1. /\ Terminal \subseteq Statuses
      /\ {"received", "queued", "sending", "retry_scheduled", "delivered"}
             \subseteq Statuses
  BY DEF Statuses, Pending, Terminal
<1>2. d[k] \in Row /\ \A j \in Keys : d[j] \in Row
  OBVIOUS
<1>3. CreateReceived(d, k) \in [Keys -> Row]
  <2>1. [NoRow EXCEPT !.status = "received",
                      !.elders = {i \in Keys \ {k} : Stored(d, i)}] \in Row
    BY <1>1, NoRowType, RowUpdates, {i \in Keys \ {k} : Stored(d, i)} \in SUBSET Keys
  <2>2. ASSUME NEW j \in Keys
        PROVE  [d[j] EXCEPT !.elders = d[j].elders \ {k}] \in Row
    <3>1. d[j].elders \ {k} \in SUBSET Keys
      BY <1>2 DEF Row
    <3> QED
      BY <1>1, <1>2, <3>1, RowUpdates
  <2> QED
    BY <2>1, <2>2, Zenon DEF CreateReceived
<1>4. MarkQueued(d, k) \in [Keys -> Row]
  BY <1>1, <1>2, RowUpdates, UpdateType DEF MarkQueued
<1>5. ClaimForSend(d, k) \in [Keys -> Row]
  <2>1. d[k].attempts + 1 \in Nat
    BY <1>2 DEF Row
  <2> QED
    BY <1>1, <1>2, <2>1, RowUpdates, UpdateType DEF ClaimForSend
<1>6. ASSUME NEW p \in Renderings PROVE SaveRenderedParts(d, k, p) \in [Keys -> Row]
  BY <1>1, <1>2, RowUpdates, UpdateType DEF SaveRenderedParts
<1>7. ASSUME NEW n \in Nat
      PROVE  MarkChunkSent(d, k, n) \in [Keys -> Row] /\ MarkDelivered(d, k, n) \in [Keys -> Row]
  <2>1. [d[k] EXCEPT !.sent = n] \in Row
    BY <1>2 DEF Row
  <2>2. [d[k] EXCEPT !.status = "delivered", !.sent = n, !.waiting = FALSE] \in Row
    BY <1>2 DEF Row, Statuses, Terminal
  <2> QED
    BY <2>1, <2>2, UpdateType DEF MarkChunkSent, MarkDelivered
<1>8. ASSUME NEW w \in BOOLEAN PROVE ScheduleRetry(d, k, w) \in [Keys -> Row]
  <2>1. [d[k] EXCEPT !.status = "retry_scheduled", !.waiting = w] \in Row
    BY <1>2 DEF Row, Statuses, Pending
  <2> QED
    BY <2>1, UpdateType DEF ScheduleRetry
<1>9. ASSUME NEW s \in Terminal PROVE MarkTerminal(d, k, s) \in [Keys -> Row]
  <2>1. [d[k] EXCEPT !.status = s, !.waiting = FALSE] \in Row
    BY <1>1, <1>2 DEF Row
  <2> QED
    BY <2>1, UpdateType DEF MarkTerminal
<1> QED
  BY <1>3, <1>4, <1>5, <1>6, <1>7, <1>8, <1>9

\* So do the two that touch many rows.
LEMMA SweepTypes ==
    ASSUME NEW d \in [Keys -> Row], NEW ks
    PROVE  RequeueSending(d) \in [Keys -> Row] /\ DeleteByEventIDs(d, ks) \in [Keys -> Row]
<1>1. \A j \in Keys : d[j] \in Row
  OBVIOUS
<1>2. ASSUME NEW j \in Keys
      PROVE  [d[j] EXCEPT !.status = "queued", !.waiting = FALSE] \in Row
  BY <1>1, RowUpdates DEF Statuses, Pending
<1>3. RequeueSending(d) \in [Keys -> Row]
  BY <1>1, <1>2, Zenon DEF RequeueSending
<1>4. DeleteByEventIDs(d, ks) \in [Keys -> Row]
  BY <1>1, NoRowType DEF DeleteByEventIDs
<1> QED
  BY <1>3, <1>4

\* A statement that runs, or fails, leaves a table behind.
LEMMA ExecType ==
    ASSUME db \in [Keys -> Row], storeErrors \in Nat,
           NEW new \in [Keys -> Row], NEW t,
           ExecOK(t, new) \/ ExecFails(t, new) \/ Succeeds(new) \/ StoreFault
    PROVE  db' \in [Keys -> Row] /\ storeErrors' \in Nat
  BY DEF ExecOK, ExecFails, Succeeds, StoreFault

LEMMA GotoType ==
    ASSUME pc \in [Threads -> PC], NEW t \in Threads, NEW l \in PC, Goto(t, l)
    PROVE  pc' \in [Threads -> PC]
  BY DEF Goto

\* Assigning locals of a goroutine, the way the steps do.
LEMMA JobUpdates ==
    ASSUME NEW j \in Job, NEW k \in Keys, NEW p \in Renderings \cup {<<>>},
           NEW n \in Nat, NEW m \in Nat,
           NEW to \in {"none", "retry_scheduled", "failed", "dead_letter"},
           NEW w \in BOOLEAN, NEW b \in BOOLEAN
    PROVE  /\ [j EXCEPT !.ev = k] \in Job
           /\ [j EXCEPT !.parts = p] \in Job
           /\ [j EXCEPT !.sent = n] \in Job
           /\ [j EXCEPT !.parts = p, !.sent = n, !.attempts = m] \in Job
           /\ [j EXCEPT !.to = to, !.wait = w, !.bg = b] \in Job
           /\ NoJob \in Job
           /\ [NoJob EXCEPT !.ev = k] \in Job
<1>1. /\ [j EXCEPT !.ev = k] \in Job
      /\ [j EXCEPT !.parts = p] \in Job
      /\ [j EXCEPT !.sent = n] \in Job
  BY DEF Job
<1>2. [j EXCEPT !.parts = p, !.sent = n, !.attempts = m] \in Job
  BY DEF Job
<1>3. [j EXCEPT !.to = to, !.wait = w, !.bg = b] \in Job
  BY DEF Job
<1>4. NoJob \in Job /\ [NoJob EXCEPT !.ev = k] \in Job
  BY DEF Job, NoJob
<1> QED
  BY <1>1, <1>2, <1>3, <1>4

LEMMA TypeInit == Init => TypeOK /\ LocalsOK
<1> SUFFICES ASSUME Init PROVE TypeOK /\ LocalsOK
  OBVIOUS
<1>1. NoJob \in Job
  BY DEF Job, NoJob
<1>2. TypeOK
  BY <1>1, NoRowType DEF Init, TypeOK, PC, NoThread
<1>3. LocalsOK
  BY DEF Init, LocalsOK, LocalOK
<1> QED
  BY <1>2, <1>3

\* A goroutine moves to a label with the locals that label needs.
LEMMA LocalStep ==
    ASSUME TypeOK, LocalsOK, NEW t \in Threads, NEW l \in PC, NEW j \in Job,
           LocalOK(t, l, j),
           Goto(t, l), job' = [job EXCEPT ![t] = j]
    PROVE  pc' \in [Threads -> PC] /\ job' \in [Threads -> Job] /\ LocalsOK'
<1>1. pc' \in [Threads -> PC] /\ job' \in [Threads -> Job]
  BY DEF Goto, TypeOK
<1>2. ASSUME NEW u \in Threads PROVE LocalOK(u, pc'[u], job'[u])
  BY DEF Goto, TypeOK, LocalsOK
<1> QED
  BY <1>1, <1>2 DEF LocalsOK, LocalOK

LEMMA LocalGoto ==
    ASSUME TypeOK, LocalsOK, NEW t \in Threads, NEW l \in PC,
           LocalOK(t, l, job[t]), Goto(t, l), UNCHANGED job
    PROVE  pc' \in [Threads -> PC] /\ job' \in [Threads -> Job] /\ LocalsOK'
<1>1. job[t] \in Job /\ job' = [job EXCEPT ![t] = job[t]]
  BY DEF TypeOK
<1> QED
  BY <1>1, LocalStep

LEMMA ReplyStep ==
    ASSUME TypeOK, LocalsOK, NEW r \in Requests, Reply(r)
    PROVE  /\ pc' \in [Threads -> PC] /\ job' \in [Threads -> Job] /\ LocalsOK'
           /\ gone' \subseteq Requests /\ phase' = phase
           /\ restarts' = restarts /\ disconnects' = disconnects
<1>1. r \in Threads /\ "idle" \in PC /\ NoJob \in Job
  BY DEF Threads, PC, Job, NoJob
<1>2. LocalOK(r, "idle", NoJob)
  BY DEF LocalOK
<1> QED
  BY <1>1, <1>2, LocalStep DEF Reply, TypeOK

LEMMA ReturnStep ==
    ASSUME TypeOK, LocalsOK, NEW t \in Threads, Return(t), job[t].ev \in Keys
    PROVE  pc' \in [Threads -> PC] /\ job' \in [Threads -> Job] /\ LocalsOK'
<1>1. "next" \in PC /\ "load" \in PC /\ NoJob \in Job
      /\ [NoJob EXCEPT !.ev = job[t].ev] \in Job
  BY DEF PC, RequestPC, Job, NoJob
<1>2. LocalOK(t, "next", NoJob) /\ LocalOK(t, "load", [NoJob EXCEPT !.ev = job[t].ev])
  BY DEF LocalOK, NoJob
<1> QED
  BY <1>1, <1>2, LocalStep DEF Return

LEMMA PlanStep ==
    ASSUME TypeOK, LocalsOK, NEW t \in Threads, job[t].ev \in Keys,
           NEW to \in {"retry_scheduled", "failed", "dead_letter"},
           NEW w \in BOOLEAN, NEW b \in BOOLEAN, Plan(t, to, w, b)
    PROVE  pc' \in [Threads -> PC] /\ job' \in [Threads -> Job] /\ LocalsOK'
<1> DEFINE j == [job[t] EXCEPT !.to = to, !.wait = w, !.bg = b]
<1>1. j \in Job /\ "settle" \in PC
  <2>1. job[t] \in Job /\ "settle" \in PC
    BY DEF PC, ProcessPC, TypeOK
  <2>2. j \in Job
    BY <2>1 DEF Job
  <2> QED
    BY <2>1, <2>2
<1>2. LocalOK(t, "settle", j)
  <2>1. j.ev = job[t].ev /\ j.to = to
    BY DEF TypeOK, Job
  <2> QED
    BY <2>1 DEF LocalOK
<1>3. Goto(t, "settle") /\ job' = [job EXCEPT ![t] = j]
  BY DEF Plan
<1> QED
  BY <1>1, <1>2, <1>3, LocalStep

\* The send loop goes on with the next part or ends.
LEMMA LoopStep ==
    ASSUME NEW t \in Threads, NEW j \in Job, j.ev \in Keys, j.parts \in Renderings
    PROVE  /\ LoopPC(j.parts, j.sent) \in PC
           /\ LocalOK(t, LoopPC(j.parts, j.sent), j)
<1>1. Len(j.parts) \in Nat /\ j.sent \in Nat
  BY RenderingsAssumption DEF IsRendering, Job
<1> QED
  BY <1>1 DEF LoopPC, LocalOK, PC, ProcessPC, RotationPC

\* Every step keeps the types and the locals.
LEMMA TypeStep == TypeOK /\ LocalsOK /\ [Next]_vars => TypeOK' /\ LocalsOK'
<1> SUFFICES ASSUME TypeOK, LocalsOK, [Next]_vars PROVE TypeOK' /\ LocalsOK'
  OBVIOUS
<1> USE DeliveryAssumption DEF storeVars, rotationVars, processVars, chatVars, ghostVars
<1>0. /\ Requests \subseteq Threads /\ Worker \in Threads
      /\ \A t \in Threads : job[t] \in Job /\ pc[t] \in PC
      /\ \A k \in Keys : db[k] \in Row
  BY DEF Threads, TypeOK
<1>pc. {"idle", "next", "claim", "rotate", "delete", "render", "send", "mark", "deliver",
        "settle", "capacity", "lookup", "create", "queue", "load"} \subseteq PC
  BY DEF PC, RotationPC, ProcessPC, RequestPC
<1>ev. \A t \in Threads : pc[t] \notin {"idle", "next", "rotate", "delete"}
                          => job[t].ev \in Keys
  BY DEF LocalsOK, LocalOK, RotationPC
<1>1. ASSUME NEW r \in Requests, NEW k \in Keys, Receive(r, k)
      PROVE  TypeOK' /\ LocalsOK'
  <2> DEFINE j == [job[r] EXCEPT !.ev = k]
  <2>1. j \in Job /\ LocalOK(r, "capacity", j)
    BY <1>0 DEF Job, LocalOK
  <2>2. Goto(r, "capacity") /\ job' = [job EXCEPT ![r] = j]
    BY <1>1 DEF Receive
  <2>3. pc' \in [Threads -> PC] /\ job' \in [Threads -> Job] /\ LocalsOK'
    BY <1>0, <1>pc, <2>1, <2>2, LocalStep
  <2> QED
    BY <1>1, <2>3 DEF Receive, TypeOK
<1>2. ASSUME NEW r \in Requests, EnsureCapacity(r)
      PROVE  TypeOK' /\ LocalsOK'
  <2>1. LocalOK(r, "lookup", job[r]) /\ LocalOK(r, "rotate", job[r])
    BY <1>0, <1>2, <1>ev DEF EnsureCapacity, LocalOK
  <2>2. /\ pc' \in [Threads -> PC] /\ job' \in [Threads -> Job] /\ LocalsOK'
        /\ gone' \subseteq Requests /\ UNCHANGED <<phase, restarts, disconnects>>
    BY <1>2, <1>0, <1>pc, <2>1, LocalGoto, ReplyStep DEF EnsureCapacity, TypeOK
  <2> QED
    BY <1>2, <2>2 DEF EnsureCapacity, TypeOK
<1>3. ASSUME NEW r \in Requests, Lookup(r)
      PROVE  TypeOK' /\ LocalsOK'
  <2>1. LocalOK(r, "create", job[r]) /\ LocalOK(r, "claim", job[r])
    BY <1>0, <1>3, <1>ev DEF Lookup, LocalOK
  <2>2. /\ pc' \in [Threads -> PC] /\ job' \in [Threads -> Job] /\ LocalsOK'
        /\ gone' \subseteq Requests /\ UNCHANGED <<phase, restarts, disconnects>>
    BY <1>3, <1>0, <1>pc, <2>1, LocalGoto, ReplyStep DEF Lookup, TypeOK
  <2>3. db' \in [Keys -> Row] /\ storeErrors' \in Nat
    BY <1>3, ExecType DEF Lookup, TypeOK
  <2> QED
    BY <1>3, <2>2, <2>3 DEF Lookup, TypeOK
<1>4. ASSUME NEW r \in Requests, Create(r)
      PROVE  TypeOK' /\ LocalsOK'
  <2>1. job[r].ev \in Keys
    BY <1>0, <1>4, <1>ev DEF Create
  <2>2. LocalOK(r, "queue", job[r]) /\ LocalOK(r, "capacity", job[r])
    BY <2>1 DEF LocalOK
  <2>3. /\ pc' \in [Threads -> PC] /\ job' \in [Threads -> Job] /\ LocalsOK'
        /\ gone' \subseteq Requests /\ UNCHANGED <<phase, restarts, disconnects>>
    BY <1>4, <1>0, <1>pc, <2>2, LocalGoto, ReplyStep DEF Create, TypeOK
  <2>4. CreateReceived(db, job[r].ev) \in [Keys -> Row]
    BY <2>1, StatementTypes DEF TypeOK
  <2>5. db' \in [Keys -> Row] /\ storeErrors' \in Nat
    BY <1>4, <2>4, ExecType DEF Create, TypeOK
  <2>6. /\ reached' \in [Keys -> SUBSET Alerts] /\ tries' \in [Keys -> Nat]
        /\ repeated' \subseteq Keys /\ unrecorded' \subseteq Keys
        /\ overwritten' \subseteq Keys
    BY <1>4, <2>1 DEF Create, NewEvent, TypeOK
  <2> QED
    BY <1>4, <2>3, <2>5, <2>6 DEF Create, TypeOK
<1>5. ASSUME NEW r \in Requests, Queue(r)
      PROVE  TypeOK' /\ LocalsOK'
  <2>1. job[r].ev \in Keys
    BY <1>0, <1>5, <1>ev DEF Queue
  <2>2. LocalOK(r, "claim", job[r])
    BY <2>1 DEF LocalOK
  <2>3. /\ pc' \in [Threads -> PC] /\ job' \in [Threads -> Job] /\ LocalsOK'
        /\ gone' \subseteq Requests /\ UNCHANGED <<phase, restarts, disconnects>>
    BY <1>5, <1>0, <1>pc, <2>2, LocalGoto, ReplyStep DEF Queue, TypeOK
  <2>4. MarkQueued(db, job[r].ev) \in [Keys -> Row]
    BY <2>1, StatementTypes DEF TypeOK
  <2>5. db' \in [Keys -> Row] /\ storeErrors' \in Nat
    BY <1>5, <2>4, ExecType DEF Queue, TypeOK
  <2> QED
    BY <1>5, <2>1, <2>3, <2>5 DEF Queue, TypeOK
<1>6. ASSUME NEW r \in Requests, Load(r)
      PROVE  TypeOK' /\ LocalsOK'
  <2>1. /\ pc' \in [Threads -> PC] /\ job' \in [Threads -> Job] /\ LocalsOK'
        /\ gone' \subseteq Requests /\ UNCHANGED <<phase, restarts, disconnects>>
    BY <1>6, ReplyStep DEF Load
  <2>2. db' \in [Keys -> Row] /\ storeErrors' \in Nat
    BY <1>6, ExecType DEF Load, TypeOK
  <2> QED
    BY <1>6, <2>1, <2>2 DEF Load, TypeOK
<1>7. ASSUME NEW t \in Threads, Claim(t)
      PROVE  TypeOK' /\ LocalsOK'
  <2> DEFINE k == job[t].ev
             j == [job[t] EXCEPT !.parts = db[k].parts, !.sent = db[k].sent,
                                 !.attempts = db[k].attempts + 1]
             l == IF db[k].parts = <<>> THEN "render"
                  ELSE LoopPC(db[k].parts, db[k].sent)
  <2>1. k \in Keys /\ db[k] \in Row
    BY <1>0, <1>7, <1>ev DEF Claim
  <2>2. db[k].attempts + 1 \in Nat /\ db[k].parts \in Renderings \cup {<<>>}
        /\ db[k].sent \in Nat
    BY <2>1 DEF Row
  <2>3. j \in Job /\ j.ev = k /\ j.parts = db[k].parts /\ j.sent = db[k].sent
    <3>1. j \in Job
      BY <2>1, <2>2, <1>0, JobUpdates
    <3> QED
      BY <3>1, <1>0 DEF Job
  <2>4. l \in PC /\ LocalOK(t, l, j)
    <3>1. CASE db[k].parts = <<>>
      BY <2>1, <2>3, <3>1, <1>pc DEF LocalOK
    <3>2. CASE db[k].parts # <<>>
      BY <2>1, <2>2, <2>3, <3>2, LoopStep
    <3> QED
      BY <3>1, <3>2
  <2>5. pc' \in [Threads -> PC] /\ job' \in [Threads -> Job] /\ LocalsOK'
    <3>1. CASE Return(t)
      BY <2>1, <3>1, ReturnStep
    <3>2. CASE Goto(t, l) /\ job' = [job EXCEPT ![t] = j]
      BY <2>3, <2>4, <3>2, LocalStep
    <3> HIDE DEF j, l
    <3> QED
      BY <1>7, <3>1, <3>2 DEF Claim, j, l
  <2>6. ClaimForSend(db, k) \in [Keys -> Row]
    BY <2>1, StatementTypes DEF TypeOK
  <2>7. db' \in [Keys -> Row] /\ storeErrors' \in Nat
    BY <1>7, <2>6, ExecType DEF Claim, TypeOK
  <2> QED
    BY <1>7, <2>5, <2>7 DEF Claim, TypeOK
<1>8. ASSUME NEW t \in Threads, Render(t)
      PROVE  TypeOK' /\ LocalsOK'
  <2>1. job[t].ev \in Keys /\ Cancelled(t) \in BOOLEAN
    BY <1>8, <1>ev DEF Render, Cancelled
  <2>2. ASSUME NEW p \in Renderings, job' = [job EXCEPT ![t] = [@ EXCEPT !.parts = p]],
               Goto(t, LoopPC(p, job[t].sent))
        PROVE  pc' \in [Threads -> PC] /\ job' \in [Threads -> Job] /\ LocalsOK'
    <3> DEFINE j == [job[t] EXCEPT !.parts = p]
    <3>1. j \in Job /\ j.ev = job[t].ev /\ j.parts = p /\ j.sent = job[t].sent
      BY <1>0 DEF Job
    <3>2. LoopPC(p, job[t].sent) \in PC /\ LocalOK(t, LoopPC(p, job[t].sent), j)
      BY <2>1, <3>1, LoopStep
    <3> QED
      BY <2>2, <3>1, <3>2, LocalStep
  <2>3. pc' \in [Threads -> PC] /\ job' \in [Threads -> Job] /\ LocalsOK'
    BY <1>8, <2>1, <2>2, PlanStep DEF Render
  <2>4. db' \in [Keys -> Row] /\ storeErrors' \in Nat
    <3>1. \A p \in Renderings : SaveRenderedParts(db, job[t].ev, p) \in [Keys -> Row]
      BY <2>1, StatementTypes DEF TypeOK
    <3> QED
      BY <1>8, <3>1, ExecType DEF Render, TypeOK
  <2> QED
    BY <1>8, <2>3, <2>4 DEF Render, TypeOK
<1>chat. ASSUME NEW t \in Threads, pc[t] = "send"
         PROVE  /\ job[t].ev \in Keys
                /\ Accept(t) => reached' \in [Keys -> SUBSET Alerts] /\ repeated' \subseteq Keys
  <2>1. job[t].ev \in Keys /\ job[t].parts \in Renderings /\ job[t].sent \in Nat
        /\ job[t].sent < Len(job[t].parts)
    BY <1>chat, <1>0, <1>ev DEF LocalsOK, LocalOK, Job
  <2>2. job[t].parts \in Seq((SUBSET Alerts) \ {{}})
    BY <2>1, RenderingsAssumption DEF IsRendering
  <2>3. job[t].parts[job[t].sent + 1] \in SUBSET Alerts
    BY <2>1, <2>2
  <2> QED
    BY <2>1, <2>3 DEF Accept, TypeOK
<1>9. ASSUME NEW t \in Threads, SendAccepted(t)
      PROVE  TypeOK' /\ LocalsOK'
  <2>1. LocalOK(t, "mark", job[t])
    BY <1>9, <1>0 DEF SendAccepted, LocalsOK, LocalOK, RotationPC
  <2>2. pc' \in [Threads -> PC] /\ job' \in [Threads -> Job] /\ LocalsOK'
    BY <1>9, <1>pc, <2>1, LocalGoto DEF SendAccepted
  <2> QED
    BY <1>9, <1>chat, <2>2 DEF SendAccepted, TypeOK
<1>10. ASSUME NEW t \in Threads, SendRefused(t)
       PROVE  TypeOK' /\ LocalsOK'
  <2>1. pc' \in [Threads -> PC] /\ job' \in [Threads -> Job] /\ LocalsOK'
    BY <1>10, <1>ev, PlanStep DEF SendRefused
  <2> QED
    BY <1>10, <2>1 DEF SendRefused, TypeOK
<1>11. ASSUME NEW t \in Threads, SendTransient(t)
       PROVE  TypeOK' /\ LocalsOK'
  <2>1. pc' \in [Threads -> PC] /\ job' \in [Threads -> Job] /\ LocalsOK'
    BY <1>11, <1>ev, PlanStep DEF SendTransient
  <2>2. /\ reached' \in [Keys -> SUBSET Alerts] /\ repeated' \subseteq Keys
        /\ unrecorded' \subseteq Keys
    BY <1>11, <1>chat DEF SendTransient, SendLost, TypeOK
  <2>3. tries' \in [Keys -> Nat]
    BY <1>11, <1>ev DEF SendTransient, TypeOK
  <2> QED
    BY <1>11, <2>1, <2>2, <2>3 DEF SendTransient, TypeOK
<1>12. ASSUME NEW t \in Threads, SendAborted(t)
       PROVE  TypeOK' /\ LocalsOK'
  <2>1. pc' \in [Threads -> PC] /\ job' \in [Threads -> Job] /\ LocalsOK'
    BY <1>12, <1>ev, PlanStep DEF SendAborted
  <2>2. /\ reached' \in [Keys -> SUBSET Alerts] /\ repeated' \subseteq Keys
        /\ unrecorded' \subseteq Keys
    BY <1>12, <1>chat DEF SendAborted, SendLost, TypeOK
  <2> QED
    BY <1>12, <2>1, <2>2 DEF SendAborted, TypeOK
<1>13. ASSUME NEW t \in Threads, MarkChunk(t)
       PROVE  TypeOK' /\ LocalsOK'
  <2>1. /\ job[t].ev \in Keys /\ Cancelled(t) \in BOOLEAN
        /\ job[t].parts \in Renderings /\ job[t].sent + 1 \in Nat
    BY <1>13, <1>0, <1>ev DEF MarkChunk, Cancelled, LocalsOK, LocalOK, Job
  <2>2. ASSUME job' = [job EXCEPT ![t] = [@ EXCEPT !.sent = job[t].sent + 1]],
               Goto(t, LoopPC(job[t].parts, job[t].sent + 1))
        PROVE  pc' \in [Threads -> PC] /\ job' \in [Threads -> Job] /\ LocalsOK'
    <3> DEFINE j == [job[t] EXCEPT !.sent = job[t].sent + 1]
    <3>1. j \in Job /\ j.ev = job[t].ev /\ j.parts = job[t].parts
          /\ j.sent = job[t].sent + 1
      BY <1>0, <2>1 DEF Job
    <3>2. /\ LoopPC(job[t].parts, job[t].sent + 1) \in PC
          /\ LocalOK(t, LoopPC(job[t].parts, job[t].sent + 1), j)
      BY <2>1, <3>1, LoopStep
    <3> QED
      BY <2>2, <3>1, <3>2, LocalStep
  <2>3. pc' \in [Threads -> PC] /\ job' \in [Threads -> Job] /\ LocalsOK'
    BY <1>13, <2>1, <2>2, PlanStep DEF MarkChunk
  <2>4. MarkChunkSent(db, job[t].ev, job[t].sent + 1) \in [Keys -> Row]
    BY <2>1, StatementTypes DEF TypeOK
  <2>5. db' \in [Keys -> Row] /\ storeErrors' \in Nat
    BY <1>13, <2>4, ExecType DEF MarkChunk, TypeOK
  <2> QED
    BY <1>13, <2>1, <2>3, <2>5 DEF MarkChunk, TypeOK
<1>14. ASSUME NEW t \in Threads, Deliver(t)
       PROVE  TypeOK' /\ LocalsOK'
  <2>1. /\ job[t].ev \in Keys /\ Cancelled(t) \in BOOLEAN
        /\ job[t].parts \in Renderings
    BY <1>14, <1>0, <1>ev DEF Deliver, Cancelled, LocalsOK, LocalOK, Job
  <2>2. pc' \in [Threads -> PC] /\ job' \in [Threads -> Job] /\ LocalsOK'
    BY <1>14, <2>1, PlanStep, ReturnStep DEF Deliver
  <2>3. Len(job[t].parts) \in Nat
    BY <2>1, RenderingsAssumption DEF IsRendering
  <2>4. MarkDelivered(db, job[t].ev, Len(job[t].parts)) \in [Keys -> Row]
    BY <2>1, <2>3, StatementTypes DEF TypeOK
  <2>5. db' \in [Keys -> Row] /\ storeErrors' \in Nat
    BY <1>14, <2>4, ExecType DEF Deliver, TypeOK
  <2> QED
    BY <1>14, <2>2, <2>5 DEF Deliver, TypeOK
<1>15. ASSUME NEW t \in Threads, Settle(t)
       PROVE  TypeOK' /\ LocalsOK'
  <2>1. /\ job[t].ev \in Keys /\ job[t].wait \in BOOLEAN
        /\ job[t].to \in {"retry_scheduled", "failed", "dead_letter"}
    BY <1>15, <1>0, <1>ev DEF Settle, LocalsOK, LocalOK, Job
  <2>2. pc' \in [Threads -> PC] /\ job' \in [Threads -> Job] /\ LocalsOK'
    BY <1>15, <2>1, ReturnStep DEF Settle
  <2> DEFINE new == IF job[t].to = "retry_scheduled"
                    THEN ScheduleRetry(db, job[t].ev, job[t].wait)
                    ELSE MarkTerminal(db, job[t].ev, job[t].to)
  <2>3. new \in [Keys -> Row]
    BY <2>1, StatementTypes DEF TypeOK, Terminal
  <2>4. ExecOK(t, new) \/ ExecFails(t, new) \/ Succeeds(new) \/ StoreFault
    BY <1>15 DEF Settle
  <2>5. db' \in [Keys -> Row] /\ storeErrors' \in Nat
    <3> HIDE DEF new
    <3> QED
      BY <2>3, <2>4, ExecType DEF TypeOK
  <2> QED
    BY <1>15, <2>2, <2>5 DEF Settle, TypeOK
<1>16. ASSUME RecoveryTick
       PROVE  TypeOK' /\ LocalsOK'
  <2>1. LocalOK(Worker, "next", job[Worker])
    BY DEF LocalOK
  <2>2. pc' \in [Threads -> PC] /\ job' \in [Threads -> Job] /\ LocalsOK'
    BY <1>16, <1>0, <1>pc, <2>1, LocalGoto DEF RecoveryTick
  <2> QED
    BY <1>16, <2>2 DEF RecoveryTick, TypeOK, ListDueEventIDs, DueEventIDs
<1>17. ASSUME NextInBatch
       PROVE  TypeOK' /\ LocalsOK'
  <2>1. CASE Goto(Worker, "idle") /\ UNCHANGED job
    <3>1. LocalOK(Worker, "idle", job[Worker])
      BY DEF LocalOK
    <3> QED
      BY <1>17, <1>0, <1>pc, <2>1, <3>1, LocalGoto DEF NextInBatch, TypeOK
  <2>2. ASSUME NEW k \in batch, Goto(Worker, "claim"),
               job' = [job EXCEPT ![Worker] = [@ EXCEPT !.ev = k]]
        PROVE  TypeOK' /\ LocalsOK'
    <3> DEFINE j == [job[Worker] EXCEPT !.ev = k]
    <3>0. job[Worker] \in Job /\ k \in Keys
      BY <1>0 DEF TypeOK
    <3>1. j \in Job /\ j.ev = k
      BY <3>0 DEF Job
    <3>2. LocalOK(Worker, "claim", j)
      BY <3>0, <3>1 DEF LocalOK
    <3>3. pc' \in [Threads -> PC] /\ job' \in [Threads -> Job] /\ LocalsOK'
      BY <2>2, <1>0, <1>pc, <3>1, <3>2, LocalStep
    <3> QED
      BY <1>17, <3>3 DEF NextInBatch, TypeOK
  <2> QED
    BY <1>17, <2>1, <2>2 DEF NextInBatch
<1>18. ASSUME RotationTick
       PROVE  TypeOK' /\ LocalsOK'
  <2>1. LocalOK(Worker, "rotate", job[Worker])
    BY DEF LocalOK, RotationPC
  <2>2. pc' \in [Threads -> PC] /\ job' \in [Threads -> Job] /\ LocalsOK'
    BY <1>18, <1>0, <1>pc, <2>1, LocalGoto DEF RotationTick
  <2> QED
    BY <1>18, <2>2 DEF RotationTick, TypeOK
<1>rot. ASSUME NEW t \in Threads, NEW e, pc[t] \in RotationPC, EndRotation(t, e)
        PROVE  /\ pc' \in [Threads -> PC] /\ job' \in [Threads -> Job] /\ LocalsOK'
               /\ gone' \subseteq Requests
               /\ UNCHANGED <<phase, restarts, disconnects>>
               /\ victims' \subseteq Keys /\ rotateMu' \in Threads \cup {NoThread}
  <2>1. CASE t = Worker /\ Goto(t, "idle") /\ UNCHANGED <<job, processVars>>
    <3>1. LocalOK(Worker, "idle", job[Worker])
      BY DEF LocalOK
    <3> QED
      BY <1>rot, <1>0, <1>pc, <2>1, <3>1, LocalGoto DEF EndRotation, TypeOK
  <2>2. CASE t # Worker /\ Goto(t, "lookup") /\ UNCHANGED <<job, processVars>>
    <3>1. LocalOK(t, "lookup", job[t])
      BY <1>rot, <2>2 DEF LocalsOK, LocalOK, RotationPC
    <3> QED
      BY <1>rot, <1>0, <1>pc, <2>2, <3>1, LocalGoto DEF EndRotation, TypeOK
  <2>3. CASE t # Worker /\ Reply(t)
    BY <1>rot, <2>3, ReplyStep DEF EndRotation, TypeOK, Threads
  <2> QED
    BY <1>rot, <2>1, <2>2, <2>3 DEF EndRotation
<1>19. ASSUME NEW t \in Threads, SelectVictims(t)
       PROVE  TypeOK' /\ LocalsOK'
  <2>1. db' \in [Keys -> Row] /\ storeErrors' \in Nat
    BY <1>19, ExecType DEF SelectVictims, TypeOK
  <2>2. ASSUME NEW e \in BOOLEAN, EndRotation(t, e)
        PROVE  TypeOK' /\ LocalsOK'
    <3>1. UNCHANGED <<batch, chatVars, ghostVars>> /\ pc[t] \in RotationPC
      BY <1>19 DEF SelectVictims, RotationPC
    <3> QED
      BY <1>rot, <2>1, <2>2, <3>1 DEF TypeOK
  <2>3. ASSUME NEW ks \in SUBSET RotatableEventIDs(db), victims' = ks, rotateMu' = t,
               Goto(t, "delete"), UNCHANGED <<job, processVars>>
        PROVE  TypeOK' /\ LocalsOK'
    <3>1. LocalOK(t, "delete", job[t])
      BY <1>19 DEF SelectVictims, LocalsOK, LocalOK, RotationPC
    <3>2. pc' \in [Threads -> PC] /\ job' \in [Threads -> Job] /\ LocalsOK'
      BY <1>pc, <2>3, <3>1, LocalGoto
    <3>3. victims' \subseteq Keys /\ rotateMu' \in Threads \cup {NoThread}
      BY <2>3 DEF RotatableEventIDs
    <3>4. UNCHANGED <<batch, chatVars, ghostVars>>
      BY <1>19 DEF SelectVictims
    <3> QED
      BY <2>1, <2>3, <3>2, <3>3, <3>4 DEF TypeOK
  <2> QED
    BY <1>19, <2>2, <2>3 DEF SelectVictims
<1>20. ASSUME NEW t \in Threads, DeleteVictims(t)
       PROVE  TypeOK' /\ LocalsOK'
  <2>1. DeleteByEventIDs(db, victims) \in [Keys -> Row]
    BY SweepTypes DEF TypeOK
  <2>2. db' \in [Keys -> Row] /\ storeErrors' \in Nat
    BY <1>20, <2>1, ExecType DEF DeleteVictims, TypeOK
  <2>3. CASE EndRotation(t, TRUE)
    <3>1. UNCHANGED <<batch, chatVars, ghostVars>> /\ pc[t] \in RotationPC
      BY <1>20 DEF DeleteVictims, RotationPC
    <3> QED
      BY <1>rot, <2>2, <2>3, <3>1 DEF TypeOK
  <2>4. CASE /\ victims' = {} /\ Goto(t, "rotate")
             /\ UNCHANGED <<job, rotateMu, processVars>>
    <3>1. LocalOK(t, "rotate", job[t])
      BY <1>20 DEF DeleteVictims, LocalsOK, LocalOK, RotationPC
    <3>2. pc' \in [Threads -> PC] /\ job' \in [Threads -> Job] /\ LocalsOK'
      BY <1>pc, <2>4, <3>1, LocalGoto
    <3> QED
      BY <1>20, <2>2, <2>4, <3>2 DEF DeleteVictims, TypeOK
  <2> QED
    BY <1>20, <2>3, <2>4 DEF DeleteVictims
<1>21. ASSUME NEW r \in Requests, Disconnect(r)
       PROVE  TypeOK' /\ LocalsOK'
  BY <1>21 DEF Disconnect, TypeOK, LocalsOK
<1>22. ASSUME Sigterm
       PROVE  TypeOK' /\ LocalsOK'
  BY <1>22 DEF Sigterm, TypeOK, LocalsOK
<1>23. ASSUME Down, restarts' \in Nat
       PROVE  TypeOK' /\ LocalsOK'
  <2>1. NoJob \in Job /\ \A t : LocalOK(t, "idle", NoJob)
    BY DEF Job, NoJob, LocalOK
  <2>2. unrecorded' \subseteq Keys
    BY <1>23, <1>ev DEF Down, TypeOK
  <2>3. LocalsOK'
    BY <1>23, <2>1 DEF Down, LocalsOK
  <2> QED
    BY <1>23, <1>pc, <2>1, <2>2, <2>3 DEF Down, TypeOK
<1>24. ASSUME Restart
       PROVE  TypeOK' /\ LocalsOK'
  <2>1. RequeueSending(db) \in [Keys -> Row]
    BY SweepTypes DEF TypeOK
  <2>2. db' \in [Keys -> Row] /\ storeErrors' \in Nat
    BY <1>24, <2>1, ExecType DEF Restart, TypeOK
  <2> QED
    BY <1>24, <2>2 DEF Restart, TypeOK, LocalsOK
<1>25. ASSUME NEW k \in Keys, BackoffElapses(k)
       PROVE  TypeOK' /\ LocalsOK'
  <2>1. [db[k] EXCEPT !.waiting = FALSE] \in Row
    BY <1>0, RowUpdates
  <2>2. db' \in [Keys -> Row]
    BY <1>25, <2>1 DEF BackoffElapses, TypeOK
  <2> QED
    BY <1>25, <2>2 DEF BackoffElapses, TypeOK, LocalsOK
<1>26. CASE UNCHANGED vars
  BY <1>26 DEF vars, TypeOK, LocalsOK
<1>27. ASSUME Exit \/ Crash
       PROVE  TypeOK' /\ LocalsOK'
  BY <1>23, <1>27 DEF Exit, Crash, TypeOK
<1> QED
  BY <1>1, <1>2, <1>3, <1>4, <1>5, <1>6, <1>7, <1>8, <1>9, <1>10, <1>11, <1>12, <1>13,
     <1>14, <1>15, <1>16, <1>17, <1>18, <1>19, <1>20, <1>21, <1>22, <1>24, <1>25, <1>26,
     <1>27
  DEF Next, AcceptWebhook, Process, Rotate, Environment

\* The type invariant of the delivery pipeline, for all constants.
THEOREM TypeCorrect == Spec => []TypeOK
<1>1. TypeOK /\ LocalsOK /\ [Next]_vars => (TypeOK /\ LocalsOK)'
  BY TypeStep
<1> QED
  BY <1>1, TypeInit, PTL DEF Spec

-----------------------------------------------------------------------------
\* Claim exclusion: a row has at most one owner unless its MarkQueued came after its
\* first claim.  The inductive invariant adds to this that event ids in hand name
\* rows, that rotation is about to delete only closed rows nobody has in hand, and
\* that an owned row is not open to claims.

ClaimInv == TypeOK /\ LocalsOK /\ HeldRowsOK /\ OwnersOK

-----------------------------------------------------------------------------
\* What statements do to the status of rows.

\* The statements of one attempt change at most the row of their event.
LEMMA StatementEffects ==
    ASSUME NEW d \in [Keys -> Row], NEW k \in Keys, Stored(d, k)
    PROVE  /\ \A i \in Keys \ {k} :
                 /\ MarkQueued(d, k)[i].status = d[i].status
                 /\ ClaimForSend(d, k)[i].status = d[i].status
                 /\ \A p : SaveRenderedParts(d, k, p)[i].status = d[i].status
                 /\ \A n : MarkChunkSent(d, k, n)[i].status = d[i].status
                 /\ \A n : MarkDelivered(d, k, n)[i].status = d[i].status
                 /\ \A w : ScheduleRetry(d, k, w)[i].status = d[i].status
                 /\ \A s : MarkTerminal(d, k, s)[i].status = d[i].status
           /\ MarkQueued(d, k)[k].status = "queued"
           /\ ClaimForSend(d, k)[k].status = "sending"
           /\ \A p : SaveRenderedParts(d, k, p)[k].status = d[k].status
           /\ \A n : MarkChunkSent(d, k, n)[k].status = d[k].status
           /\ \A n : MarkDelivered(d, k, n)[k].status = "delivered"
           /\ \A w : ScheduleRetry(d, k, w)[k].status = "retry_scheduled"
           /\ \A s : MarkTerminal(d, k, s)[k].status = s
<1>1. d[k] \in Row
  OBVIOUS
<1>2. \A r : Update(d, k, r) = [d EXCEPT ![k] = r]
  BY DEF Update
<1>3. \A r : [d EXCEPT ![k] = r][k] = r /\ \A i \in Keys \ {k} : [d EXCEPT ![k] = r][i] = d[i]
  OBVIOUS
<1>4. /\ \A s, w : [d[k] EXCEPT !.status = s, !.waiting = w].status = s
      /\ \A s, w, n : [d[k] EXCEPT !.status = s, !.waiting = w, !.attempts = n].status = s
      /\ \A s, w, n : [d[k] EXCEPT !.status = s, !.sent = n, !.waiting = w].status = s
      /\ \A p : [d[k] EXCEPT !.parts = p].status = d[k].status
      /\ \A n : [d[k] EXCEPT !.sent = n].status = d[k].status
  BY <1>1 DEF Row
<1>5. /\ \A i \in Keys \ {k} : MarkQueued(d, k)[i].status = d[i].status
      /\ MarkQueued(d, k)[k].status = "queued"
  <2>1. [d[k] EXCEPT !.status = "queued", !.waiting = FALSE].status = "queued"
    BY <1>4, Zenon
  <2>2. MarkQueued(d, k) =
          [d EXCEPT ![k] = [d[k] EXCEPT !.status = "queued", !.waiting = FALSE]]
    BY <1>2, Zenon DEF MarkQueued
  <2> QED
    BY <1>3, <2>1, <2>2, Zenon
<1>6. /\ \A i \in Keys \ {k} : ClaimForSend(d, k)[i].status = d[i].status
      /\ ClaimForSend(d, k)[k].status = "sending"
  <2>1. [d[k] EXCEPT !.status = "sending", !.waiting = FALSE,
                     !.attempts = d[k].attempts + 1].status = "sending"
    BY <1>1 DEF Row
  <2>2. ClaimForSend(d, k) =
          [d EXCEPT ![k] = [d[k] EXCEPT !.status = "sending", !.waiting = FALSE, !.attempts = d[k].attempts + 1]]
    BY Zenon DEF ClaimForSend
  <2> QED
    BY <1>3, <2>1, <2>2, Zenon
<1>7. ASSUME NEW p
      PROVE  /\ \A i \in Keys \ {k} : SaveRenderedParts(d, k, p)[i].status = d[i].status
             /\ SaveRenderedParts(d, k, p)[k].status = d[k].status
  <2>1. [d[k] EXCEPT !.parts = p].status = d[k].status
    BY <1>4, Zenon
  <2>2. SaveRenderedParts(d, k, p) = [d EXCEPT ![k] = [d[k] EXCEPT !.parts = p]]
    BY <1>2, Zenon DEF SaveRenderedParts
  <2> QED
    BY <1>3, <2>1, <2>2, Zenon
<1>8. ASSUME NEW n
      PROVE  /\ \A i \in Keys \ {k} : MarkChunkSent(d, k, n)[i].status = d[i].status
             /\ MarkChunkSent(d, k, n)[k].status = d[k].status
  <2>1. [d[k] EXCEPT !.sent = n].status = d[k].status
    BY <1>4, Zenon
  <2>2. MarkChunkSent(d, k, n) = [d EXCEPT ![k] = [d[k] EXCEPT !.sent = n]]
    BY <1>2, Zenon DEF MarkChunkSent
  <2> QED
    BY <1>3, <2>1, <2>2, Zenon
<1>9. ASSUME NEW n
      PROVE  /\ \A i \in Keys \ {k} : MarkDelivered(d, k, n)[i].status = d[i].status
             /\ MarkDelivered(d, k, n)[k].status = "delivered"
  <2>1. [d[k] EXCEPT !.status = "delivered", !.sent = n, !.waiting = FALSE].status = "delivered"
    BY <1>1 DEF Row
  <2>2. MarkDelivered(d, k, n) =
          [d EXCEPT ![k] = [d[k] EXCEPT !.status = "delivered", !.sent = n, !.waiting = FALSE]]
    BY <1>2, Zenon DEF MarkDelivered
  <2> QED
    BY <1>3, <2>1, <2>2, Zenon
<1>10. ASSUME NEW w
      PROVE  /\ \A i \in Keys \ {k} : ScheduleRetry(d, k, w)[i].status = d[i].status
             /\ ScheduleRetry(d, k, w)[k].status = "retry_scheduled"
  <2>1. [d[k] EXCEPT !.status = "retry_scheduled", !.waiting = w].status = "retry_scheduled"
    BY <1>4, Zenon
  <2>2. ScheduleRetry(d, k, w) =
          [d EXCEPT ![k] = [d[k] EXCEPT !.status = "retry_scheduled", !.waiting = w]]
    BY <1>2, Zenon DEF ScheduleRetry
  <2> QED
    BY <1>3, <2>1, <2>2, Zenon
<1>11. ASSUME NEW s
      PROVE  /\ \A i \in Keys \ {k} : MarkTerminal(d, k, s)[i].status = d[i].status
             /\ MarkTerminal(d, k, s)[k].status = s
  <2>1. [d[k] EXCEPT !.status = s, !.waiting = FALSE].status = s
    BY <1>4, Zenon
  <2>2. MarkTerminal(d, k, s) = [d EXCEPT ![k] = [d[k] EXCEPT !.status = s, !.waiting = FALSE]]
    BY <1>2, Zenon DEF MarkTerminal
  <2> QED
    BY <1>3, <2>1, <2>2, Zenon
<1> QED
  BY <1>5, <1>6, <1>7, <1>8, <1>9, <1>10, <1>11

\* A statement takes effect or not.
LEMMA ExecEffect ==
    ASSUME NEW t, NEW new
    PROVE  /\ ExecOK(t, new) => db' = new
           /\ ExecFails(t, new) => db' \in {db, new}
           /\ Succeeds(new) => db' = new
           /\ StoreFault => db' = db
           /\ ExecOK(t, db) \/ ExecFails(t, db) => db' = db
  BY DEF ExecOK, ExecFails, Succeeds, StoreFault

-----------------------------------------------------------------------------
\* What a step of a goroutine leaves alone.

\* Only goroutine t moves.
Others(t) == \A u \in Threads \ {t} : pc'[u] = pc[u] /\ job'[u] = job[u]

LEMMA GotoEffect ==
    ASSUME TypeOK, NEW t \in Threads, NEW l, Goto(t, l)
    PROVE  /\ pc'[t] = l
           /\ \A u \in Threads \ {t} : pc'[u] = pc[u]
           /\ UNCHANGED job => Others(t) /\ job'[t] = job[t]
           /\ \A j : job' = [job EXCEPT ![t] = j] => Others(t) /\ job'[t] = j
  BY DEF Goto, TypeOK, Others

LEMMA ReplyEffect ==
    ASSUME TypeOK, NEW r \in Requests, Reply(r)
    PROVE  /\ Others(r) /\ pc'[r] = "idle" /\ job'[r].ev = NoKey
           /\ phase' = phase
<1>1. r \in Threads
  BY DEF Threads
<1>2. NoJob.ev = NoKey
  BY DEF NoJob
<1>3. Goto(r, "idle") /\ job' = [job EXCEPT ![r] = NoJob] /\ phase' = phase
  BY DEF Reply
<1>4. Others(r) /\ pc'[r] = "idle" /\ job'[r] = NoJob
  BY <1>1, <1>3, GotoEffect
<1> QED
  BY <1>2, <1>3, <1>4

LEMMA ReturnEffect ==
    ASSUME TypeOK, NEW t \in Threads, Return(t)
    PROVE  Others(t) /\ pc'[t] \in {"next", "load"} /\ job'[t].ev \in {job[t].ev, NoKey}
<1>1. /\ [NoJob EXCEPT !.ev = job[t].ev].ev = job[t].ev
      /\ NoJob.ev = NoKey
  BY DEF NoJob
<1> QED
  BY <1>1, GotoEffect DEF Return

LEMMA PlanEffect ==
    ASSUME TypeOK, NEW t \in Threads, NEW to, NEW w, NEW b, Plan(t, to, w, b)
    PROVE  Others(t) /\ pc'[t] = "settle" /\ job'[t].ev = job[t].ev
<1>1. job[t] \in Job
  BY DEF TypeOK
<1>2. [job[t] EXCEPT !.to = to, !.wait = w, !.bg = b].ev = job[t].ev
  BY <1>1 DEF Job
<1> QED
  BY <1>2, GotoEffect DEF Plan

-----------------------------------------------------------------------------
\* Kinds of steps.

\* Only rows rotation has selected are deleted.
Kept == \A i \in Keys \ victims : Stored(db, i) => Stored(db', i)

\* A goroutine that has event k in hand works on its row.
LEMMA HeldStep ==
    ASSUME ClaimInv, NEW t \in Threads, NEW k \in Keys,
           job[t].ev = k, pc[t] \in {"queue", "claim"} \cup ProcessPC,
           Others(t), job'[t].ev \in {k, NoKey},
           UNCHANGED <<batch, victims, phase>>,
           \A i \in Keys \ {k} : db'[i].status = db[i].status,
           Stored(db', k),
           overwritten \subseteq overwritten', overwritten' \subseteq overwritten \cup {k},
           k \notin overwritten' =>
              \/ /\ pc'[t] \in ProcessPC /\ Owners(k) \subseteq {t}
                 /\ db'[k].status \in {"sending", "delivered"}
              \/ pc'[t] \notin ProcessPC /\ Owners(k) \subseteq {t}
              \/ pc'[t] \notin ProcessPC /\ db'[k].status = db[k].status
    PROVE  HeldRowsOK' /\ OwnersOK' /\ Kept
<1> USE DeliveryAssumption
<1>1. HoldsEvent(t, k) /\ phase # "down"
  BY DEF HoldsEvent, ClaimInv, HeldRowsOK, ProcessPC
<1>2. \A u \in Threads, i \in Keys \ {k} : HoldsEvent(u, i)' => HoldsEvent(u, i)
  BY DEF HoldsEvent, Others
<1>3. \A i \in Keys \ {k} : Owners(i)' = Owners(i)
  <2> SUFFICES ASSUME NEW i \in Keys \ {k} PROVE Owners(i)' = Owners(i)
    OBVIOUS
  <2>1. ASSUME NEW u \in Threads \ {t}
        PROVE  job'[u].ev = i /\ pc'[u] \in ProcessPC <=> job[u].ev = i /\ pc[u] \in ProcessPC
    BY DEF Others
  <2>2. job[t].ev # i /\ job'[t].ev # i
    OBVIOUS
  <2> QED
    BY <2>1, <2>2 DEF Owners
<1>4. \A u \in Owners(k)' : u = t \/ u \in Owners(k)
  BY DEF Owners, Others
<1>5. HeldRowsOK'
  <2>1. \A u \in Threads, i \in Keys : HoldsEvent(u, i)' => Stored(db', i)
    BY <1>2 DEF ClaimInv, HeldRowsOK, Stored
  <2>2. k \notin victims
    BY <1>1 DEF ClaimInv, HeldRowsOK
  <2>3. ASSUME NEW i \in victims
        PROVE  db'[i].status \in Terminal /\ \A u \in Threads : ~HoldsEvent(u, i)'
    <3>1. i \in Keys \ {k}
      BY <2>2 DEF ClaimInv, TypeOK
    <3> QED
      BY <1>2, <3>1 DEF ClaimInv, HeldRowsOK
  <2> QED
    BY <1>1, <2>1, <2>3 DEF HeldRowsOK
<1>6. OwnersOK'
  <2>1. ASSUME NEW i \in Keys \ {k}, i \notin overwritten'
        PROVE  /\ \A u, v \in Owners(i)' : u = v
               /\ Owners(i)' # {} => db'[i].status \in {"sending", "delivered"}
    BY <1>3, <2>1 DEF ClaimInv, OwnersOK
  <2>2. ASSUME k \notin overwritten'
        PROVE  /\ \A u, v \in Owners(k)' : u = v
               /\ Owners(k)' # {} => db'[k].status \in {"sending", "delivered"}
    <3>1. CASE /\ pc'[t] \in ProcessPC /\ Owners(k) \subseteq {t}
               /\ db'[k].status \in {"sending", "delivered"}
      BY <1>4, <3>1
    <3>2. CASE pc'[t] \notin ProcessPC /\ Owners(k) \subseteq {t}
      BY <1>4, <3>2 DEF Owners
    <3>3. CASE pc'[t] \notin ProcessPC /\ db'[k].status = db[k].status
      <4>1. Owners(k)' \subseteq Owners(k)
        BY <1>4, <3>3 DEF Owners
      <4> QED
        BY <2>2, <3>3, <4>1 DEF ClaimInv, OwnersOK
    <3> QED
      BY <2>2, <3>1, <3>2, <3>3
  <2> QED
    BY <2>1, <2>2 DEF OwnersOK
<1>7. Kept
  BY DEF Kept, Stored
<1> QED
  BY <1>5, <1>6, <1>7

\* The same for a goroutine that owns the row: its status may become 'delivered'
\* while the attempt goes on, and anything once the attempt is over.
LEMMA OwnedStep ==
    ASSUME ClaimInv, NEW t \in Threads, NEW k \in Keys,
           job[t].ev = k, pc[t] \in ProcessPC,
           Others(t), job'[t].ev \in {k, NoKey},
           UNCHANGED <<batch, victims, phase, overwritten>>,
           \A i \in Keys \ {k} : db'[i].status = db[i].status,
           Stored(db', k),
           pc'[t] \in ProcessPC => db'[k].status \in {db[k].status, "delivered"}
    PROVE  HeldRowsOK' /\ OwnersOK' /\ Kept
<1>1. t \in Owners(k)
  BY DEF Owners
<1>2. k \notin overwritten
      => Owners(k) \subseteq {t} /\ db[k].status \in {"sending", "delivered"}
  BY <1>1 DEF ClaimInv, OwnersOK
<1> QED
  BY <1>2, HeldStep

\* Outside the rows rotation deletes no status changes, no row gets an owner, and
\* rows that come into somebody's hands are open.
LEMMA LooseStep ==
    ASSUME ClaimInv,
           \A i \in Keys \ victims : db'[i].status = db[i].status,
           \A u \in Threads, i \in Keys :
              HoldsEvent(u, i)' => HoldsEvent(u, i) \/ db'[i].status \in Pending \cup {"sending"},
           \A i \in Keys : Owners(i)' \subseteq Owners(i),
           \A i \in victims' : /\ i \in Keys /\ db'[i].status \in Terminal
                               /\ \A u \in Threads : ~HoldsEvent(u, i),
           phase' # "down" \/ \A u \in Threads : pc'[u] = "idle",
           UNCHANGED overwritten
    PROVE  HeldRowsOK' /\ OwnersOK' /\ Kept
<1>1. \A s \in Terminal : s \notin Pending \cup {"sending"}
  BY DEF Terminal, Pending
<1>2. "absent" \notin Pending \cup {"sending"}
  BY DEF Pending
<1>3. ASSUME NEW u \in Threads, NEW i \in Keys, HoldsEvent(u, i)
      PROVE  db'[i].status = db[i].status /\ Stored(db, i)
  BY <1>3 DEF ClaimInv, HeldRowsOK
<1>4. HeldRowsOK'
  <2>1. \A u \in Threads, i \in Keys : HoldsEvent(u, i)' => Stored(db', i)
    BY <1>2, <1>3 DEF Stored
  <2>2. \A i \in victims' : db'[i].status \in Terminal /\ \A u \in Threads : ~HoldsEvent(u, i)'
    BY <1>1
  <2> QED
    BY <2>1, <2>2 DEF HeldRowsOK
<1>5. OwnersOK'
  <2>1. ASSUME NEW i \in Keys, Owners(i)' # {}
        PROVE  db'[i].status = db[i].status
    <3>1. PICK u \in Threads : u \in Owners(i)
      BY <2>1 DEF Owners
    <3>2. HoldsEvent(u, i)
      BY <3>1 DEF Owners, HoldsEvent
    <3> QED
      BY <1>3, <3>2
  <2> QED
    BY <2>1 DEF ClaimInv, OwnersOK
<1>6. Kept
  BY DEF Kept, Stored
<1> QED
  BY <1>4, <1>5, <1>6

\* A goroutine moves to a place where it has no event in hand.
HeldPC == {"queue", "claim", "load"} \cup ProcessPC

LEMMA DropStep ==
    ASSUME NEW t \in Threads, Others(t), UNCHANGED batch, pc'[t] \notin HeldPC
    PROVE  /\ \A u \in Threads, i \in Keys : HoldsEvent(u, i)' => HoldsEvent(u, i)
           /\ \A i \in Keys : Owners(i)' \subseteq Owners(i)
<1>1. \A u \in Threads, i \in Keys : HoldsEvent(u, i)' => HoldsEvent(u, i)
  BY DEF HoldsEvent, Others, HeldPC
<1>2. \A i \in Keys : Owners(i)' \subseteq Owners(i)
  BY DEF Owners, Others, HeldPC
<1> QED
  BY <1>1, <1>2

\* Such a step, when it leaves rows and rotation alone.
LEMMA IdleStep ==
    ASSUME ClaimInv, NEW t \in Threads, Others(t), pc'[t] \notin HeldPC,
           UNCHANGED <<db, batch, overwritten>>, victims' \in {victims, {}}, phase' # "down"
    PROVE  HeldRowsOK' /\ OwnersOK' /\ Kept
<1>1. \A i \in victims' : /\ i \in Keys /\ db'[i].status \in Terminal
                          /\ \A u \in Threads : ~HoldsEvent(u, i)
  BY DEF ClaimInv, HeldRowsOK, TypeOK
<1>2. /\ \A u \in Threads, i \in Keys : HoldsEvent(u, i)' => HoldsEvent(u, i)
      /\ \A i \in Keys : Owners(i)' \subseteq Owners(i)
  BY DropStep
<1> QED
  BY <1>1, <1>2, LooseStep

-----------------------------------------------------------------------------
\* The events goroutines have in hand.

\* A goroutine past its lookup has the id of a stored row in hand, and the process
\* is not down.
LEMMA InHand ==
    ASSUME ClaimInv, NEW t \in Threads, pc[t] \in HeldPC
    PROVE  job[t].ev \in Keys /\ Stored(db, job[t].ev) /\ phase # "down"
<1>1. pc[t] \notin {"idle", "next"} \cup RotationPC
  BY DEF HeldPC, ProcessPC, RotationPC
<1>2. job[t].ev \in Keys
  BY <1>1 DEF ClaimInv, LocalsOK, LocalOK
<1>3. HoldsEvent(t, job[t].ev)
  BY DEF HoldsEvent, HeldPC
<1> QED
  BY <1>1, <1>2, <1>3 DEF ClaimInv, HeldRowsOK

\* A goroutine that is not idle runs in a process that is not down.
LEMMA Running ==
    ASSUME ClaimInv, NEW t \in Threads, pc[t] # "idle"
    PROVE  phase # "down"
  BY DEF ClaimInv, HeldRowsOK

\* No owner, unless the row was overwritten, while the row is open to claims.
LEMMA Unowned ==
    ASSUME ClaimInv, NEW k \in Keys \ overwritten, db[k].status \in Pending
    PROVE  Owners(k) = {}
<1>1. db[k].status \notin {"sending", "delivered"}
  BY DEF Pending
<1> QED
  BY <1>1 DEF ClaimInv, OwnersOK

\* The steps of one attempt.
LEMMA ProcessSteps ==
    ASSUME ClaimInv, NEW t \in Threads, Process(t)
    PROVE  HeldRowsOK' /\ OwnersOK' /\ Kept
<1> DEFINE k == job[t].ev
<1>0. ASSUME pc[t] \in HeldPC
      PROVE  k \in Keys /\ Stored(db, k) /\ phase # "down"
  BY <1>0, InHand
<1>T. TypeOK /\ db \in [Keys -> Row]
  BY DEF ClaimInv, TypeOK
<1>P. {"render", "send", "mark", "deliver", "settle"} = ProcessPC
  BY DEF ProcessPC
<1>N. "next" \notin ProcessPC /\ "load" \notin ProcessPC
  BY DEF ProcessPC
<1>1. CASE Claim(t)
  <2>1. pc[t] = "claim" /\ pc[t] \in HeldPC
    BY <1>1 DEF Claim, HeldPC
  <2>2. k \in Keys /\ Stored(db, k)
    BY <1>0, <2>1
  <2>3. UNCHANGED <<batch, victims, phase, overwritten>>
    BY <1>1 DEF Claim, rotationVars, processVars, ghostVars
  <2>4. /\ \A i \in Keys \ {k} : ClaimForSend(db, k)[i].status = db[i].status
        /\ ClaimForSend(db, k)[k].status = "sending"
    BY <1>T, <2>2, StatementEffects
  <2>5. CASE /\ Claimable(db, k) /\ ExecOK(t, ClaimForSend(db, k))
             /\ job' = [job EXCEPT ![t] = [@ EXCEPT !.parts = db[k].parts,
                                  !.sent = db[k].sent, !.attempts = db[k].attempts + 1]]
             /\ Goto(t, IF db[k].parts = <<>> THEN "render"
                        ELSE LoopPC(db[k].parts, db[k].sent))
    <3>1. db' = ClaimForSend(db, k)
      BY <2>5, ExecEffect
    <3>2. job[t] \in Job
      BY DEF ClaimInv, TypeOK
    <3>3. \A p, s, a : [job[t] EXCEPT !.parts = p, !.sent = s, !.attempts = a].ev = k
      BY <3>2 DEF Job
    <3>4. \A l : l \in {"send", "deliver", "render"} => l \in ProcessPC
      BY DEF ProcessPC
    <3> DEFINE l == IF db[k].parts = <<>> THEN "render" ELSE LoopPC(db[k].parts, db[k].sent)
               j == [job[t] EXCEPT !.parts = db[k].parts, !.sent = db[k].sent,
                                   !.attempts = db[k].attempts + 1]
    <3>l. l \in ProcessPC /\ j.ev = k
      BY <3>3, <3>4 DEF LoopPC
    <3>g. Goto(t, l) /\ job' = [job EXCEPT ![t] = j]
      BY <2>5
    <3>5. Others(t) /\ job'[t].ev = k /\ pc'[t] \in ProcessPC
      <4> HIDE DEF l, j, k
      <4>1. pc'[t] = l /\ Others(t) /\ job'[t] = j
        BY <1>T, <3>g, GotoEffect
      <4> QED
        BY <3>l, <4>1
    <3>6. k \notin overwritten => Owners(k) = {}
      BY <2>2, <2>5, Unowned DEF Claimable
    <3>7. Stored(db', k)
      BY <2>4, <3>1 DEF Stored
    <3> QED
      BY <2>1, <2>2, <2>3, <2>4, <3>1, <3>5, <3>6, <3>7, HeldStep
  <2>6. CASE Claimable(db, k) /\ ExecFails(t, ClaimForSend(db, k)) /\ Return(t)
    <3>1. db' \in {db, ClaimForSend(db, k)}
      BY <2>6, ExecEffect
    <3>2. Others(t) /\ pc'[t] \notin ProcessPC /\ job'[t].ev \in {k, NoKey}
      BY <1>T, <1>N, <2>6, ReturnEffect
    <3>3. k \notin overwritten => Owners(k) = {}
      BY <2>2, <2>6, Unowned DEF Claimable
    <3>4. Stored(db', k)
      BY <2>2, <2>4, <3>1 DEF Stored
    <3> QED
      BY <2>1, <2>2, <2>3, <2>4, <3>1, <3>2, <3>3, <3>4, HeldStep
  <2>7. CASE (ExecOK(t, db) \/ ExecFails(t, db)) /\ Return(t)
    <3>1. db' = db
      BY <2>7, ExecEffect
    <3>2. Others(t) /\ pc'[t] \notin ProcessPC /\ job'[t].ev \in {k, NoKey}
      BY <1>T, <1>N, <2>7, ReturnEffect
    <3> QED
      BY <2>1, <2>2, <2>3, <3>1, <3>2, HeldStep
  <2> QED
    BY <1>1, <2>5, <2>6, <2>7 DEF Claim
<1>2. CASE Render(t)
  <2>1. pc[t] \in ProcessPC /\ pc[t] \in HeldPC
    BY <1>2, <1>P DEF Render, HeldPC
  <2>2. k \in Keys /\ Stored(db, k)
    BY <1>0, <2>1
  <2>3. UNCHANGED <<batch, victims, phase, overwritten>>
    BY <1>2 DEF Render, rotationVars, processVars, ghostVars
  <2>4. \A p : \A i \in Keys : SaveRenderedParts(db, k, p)[i].status = db[i].status
    BY <1>T, <2>2, StatementEffects
  <2>5. \A i \in Keys : db'[i].status = db[i].status
    <3>1. \/ db' = db
          \/ \E p : \/ ExecOK(t, SaveRenderedParts(db, k, p))
                   \/ ExecFails(t, SaveRenderedParts(db, k, p))
      BY <1>2 DEF Render, storeVars
    <3>2. db' = db \/ \E p : db' = SaveRenderedParts(db, k, p)
      BY <3>1, ExecEffect
    <3> QED
      BY <2>4, <3>2
  <2>6. Others(t) /\ job'[t].ev = k
    <3>1. ASSUME NEW to, NEW w, NEW b, Plan(t, to, w, b)
          PROVE  Others(t) /\ job'[t].ev = k
      BY <1>T, <3>1, PlanEffect
    <3>2. ASSUME NEW p, NEW l, job' = [job EXCEPT ![t] = [@ EXCEPT !.parts = p]], Goto(t, l)
          PROVE  Others(t) /\ job'[t].ev = k
      <4>1. job[t] \in Job
        BY DEF ClaimInv, TypeOK
      <4>2. [job[t] EXCEPT !.parts = p].ev = k
        BY <4>1 DEF Job
      <4> QED
        BY <1>T, <3>2, <4>2, GotoEffect
    <3> QED
      BY <1>2, <3>1, <3>2 DEF Render
  <2> QED
    BY <2>1, <2>2, <2>3, <2>5, <2>6, OwnedStep DEF Stored
<1>3. CASE SendAccepted(t) \/ SendRefused(t) \/ SendTransient(t) \/ SendAborted(t)
  <2>1. pc[t] \in ProcessPC /\ pc[t] \in HeldPC
    BY <1>3, <1>P DEF SendAccepted, SendRefused, SendTransient, SendAborted, HeldPC
  <2>2. k \in Keys /\ Stored(db, k)
    BY <1>0, <2>1
  <2>3. UNCHANGED <<db, batch, victims, phase, overwritten>>
    BY <1>3 DEF SendAccepted, SendRefused, SendTransient, SendAborted, storeVars,
                rotationVars, processVars, ghostVars
  <2>4. Others(t) /\ job'[t].ev = k
    <3>1. ASSUME NEW to, NEW w, NEW b, Plan(t, to, w, b)
          PROVE  Others(t) /\ job'[t].ev = k
      BY <1>T, <3>1, PlanEffect
    <3>2. SendAccepted(t) => Others(t) /\ job'[t].ev = k
      BY <1>T, GotoEffect DEF SendAccepted
    <3> QED
      BY <1>3, <3>1, <3>2 DEF SendRefused, SendTransient, SendAborted
  <2> QED
    BY <2>1, <2>2, <2>3, <2>4, OwnedStep
<1>4. CASE MarkChunk(t)
  <2>1. pc[t] \in ProcessPC /\ pc[t] \in HeldPC
    BY <1>4, <1>P DEF MarkChunk, HeldPC
  <2>2. k \in Keys /\ Stored(db, k)
    BY <1>0, <2>1
  <2>3. UNCHANGED <<batch, victims, phase, overwritten>>
    BY <1>4 DEF MarkChunk, rotationVars, processVars
  <2>4. \A n : \A i \in Keys : MarkChunkSent(db, k, n)[i].status = db[i].status
    BY <1>T, <2>2, StatementEffects
  <2>5. \A i \in Keys : db'[i].status = db[i].status
    <3>1. \E n : ExecOK(t, MarkChunkSent(db, k, n)) \/ ExecFails(t, MarkChunkSent(db, k, n))
      BY <1>4 DEF MarkChunk
    <3>2. db' = db \/ \E n : db' = MarkChunkSent(db, k, n)
      BY <3>1, ExecEffect
    <3> QED
      BY <2>4, <3>2
  <2>6. Others(t) /\ job'[t].ev = k
    <3>1. ASSUME NEW to, NEW w, NEW b, Plan(t, to, w, b)
          PROVE  Others(t) /\ job'[t].ev = k
      BY <1>T, <3>1, PlanEffect
    <3>2. ASSUME NEW n, NEW l, job' = [job EXCEPT ![t] = [@ EXCEPT !.sent = n]], Goto(t, l)
          PROVE  Others(t) /\ job'[t].ev = k
      <4>1. job[t] \in Job
        BY DEF ClaimInv, TypeOK
      <4>2. [job[t] EXCEPT !.sent = n].ev = k
        BY <4>1 DEF Job
      <4> QED
        BY <1>T, <3>2, <4>2, GotoEffect
    <3> QED
      BY <1>4, <3>1, <3>2 DEF MarkChunk
  <2> QED
    BY <2>1, <2>2, <2>3, <2>5, <2>6, OwnedStep DEF Stored
<1>5. CASE Deliver(t)
  <2>1. pc[t] \in ProcessPC /\ pc[t] \in HeldPC
    BY <1>5, <1>P DEF Deliver, HeldPC
  <2>2. k \in Keys /\ Stored(db, k)
    BY <1>0, <2>1
  <2>3. UNCHANGED <<batch, victims, phase, overwritten>>
    BY <1>5 DEF Deliver, rotationVars, processVars, ghostVars
  <2>4. \A n : /\ \A i \in Keys \ {k} : MarkDelivered(db, k, n)[i].status = db[i].status
               /\ MarkDelivered(db, k, n)[k].status = "delivered"
    BY <1>T, <2>2, StatementEffects
  <2>5. /\ \A i \in Keys \ {k} : db'[i].status = db[i].status
        /\ db'[k].status \in {db[k].status, "delivered"}
    <3>1. \E n : ExecOK(t, MarkDelivered(db, k, n)) \/ ExecFails(t, MarkDelivered(db, k, n))
      BY <1>5 DEF Deliver
    <3>2. db' = db \/ \E n : db' = MarkDelivered(db, k, n)
      BY <3>1, ExecEffect
    <3> QED
      BY <2>4, <3>2
  <2>6. Others(t) /\ job'[t].ev \in {k, NoKey}
    BY <1>5, <1>T, PlanEffect, ReturnEffect DEF Deliver
  <2> QED
    BY <2>1, <2>2, <2>3, <2>5, <2>6, OwnedStep DEF Stored
<1>6. CASE Settle(t)
  <2>1. pc[t] \in ProcessPC /\ pc[t] \in HeldPC
    BY <1>6, <1>P DEF Settle, HeldPC
  <2>2. k \in Keys /\ Stored(db, k)
    BY <1>0, <2>1
  <2>3. UNCHANGED <<batch, victims, phase, overwritten>>
    BY <1>6 DEF Settle, rotationVars, processVars, ghostVars
  <2>4. job[t].to \in {"retry_scheduled", "failed", "dead_letter"}
    <3>1. job[t] \in Job /\ LocalOK(t, pc[t], job[t]) /\ pc[t] = "settle"
      BY <1>6 DEF ClaimInv, TypeOK, LocalsOK, Settle
    <3> QED
      BY <3>1 DEF Job, LocalOK
  <2> DEFINE new == IF job[t].to = "retry_scheduled" THEN ScheduleRetry(db, k, job[t].wait)
                    ELSE MarkTerminal(db, k, job[t].to)
  <2>5. /\ \A i \in Keys \ {k} : new[i].status = db[i].status
        /\ new[k].status = job[t].to
    BY <1>T, <2>2, StatementEffects
  <2>6. db' \in {db, new}
    <3> HIDE DEF new
    <3>1. (ExecOK(t, new) \/ ExecFails(t, new) \/ Succeeds(new) \/ StoreFault) => db' \in {db, new}
      BY ExecEffect
    <3>2. ExecOK(t, new) \/ ExecFails(t, new) \/ Succeeds(new) \/ StoreFault
      BY <1>6 DEF Settle, new
    <3> QED
      BY <3>1, <3>2
  <2>7. Others(t) /\ pc'[t] \notin ProcessPC /\ job'[t].ev \in {k, NoKey}
    BY <1>6, <1>T, <1>N, ReturnEffect DEF Settle
  <2>8. Stored(db', k) /\ \A i \in Keys \ {k} : db'[i].status = db[i].status
    <3> HIDE DEF new
    <3> QED
      BY <2>2, <2>4, <2>5, <2>6 DEF Stored
  <2> QED
    BY <2>1, <2>2, <2>3, <2>7, <2>8, OwnedStep
<1> QED
  BY <1>1, <1>2, <1>3, <1>4, <1>5, <1>6 DEF Process

\* The steps of a request before its attempt, and the reply.
LEMMA AcceptSteps ==
    ASSUME ClaimInv, NEW r \in Requests, AcceptWebhook(r)
    PROVE  HeldRowsOK' /\ OwnersOK' /\ Kept
<1> DEFINE k == job[r].ev
<1>T. /\ TypeOK /\ db \in [Keys -> Row] /\ r \in Threads
      /\ pc[r] \notin {"idle", "next"} \cup RotationPC => k \in Keys
  <2>1. TypeOK /\ db \in [Keys -> Row] /\ r \in Threads
    BY DEF ClaimInv, TypeOK, Threads
  <2>2. LocalOK(r, pc[r], job[r])
    BY <2>1 DEF ClaimInv, LocalsOK
  <2> QED
    BY <2>1, <2>2 DEF LocalOK
<1>P. /\ \A l \in {"idle", "capacity", "lookup", "create", "rotate"} : l \notin HeldPC
      /\ \A l \in {"idle", "capacity", "lookup", "create", "queue", "claim"} : l \notin ProcessPC
  BY DEF HeldPC, ProcessPC
<1>R. ASSUME Reply(r)
      PROVE  /\ Others(r) /\ pc'[r] = "idle" /\ pc'[r] \notin HeldPC
             /\ job'[r].ev = NoKey /\ phase' = phase
  BY <1>T, <1>R, <1>P, ReplyEffect
<1>G. ASSUME NEW l, Goto(r, l), UNCHANGED <<job, processVars>>
      PROVE  Others(r) /\ pc'[r] = l /\ job'[r].ev = k /\ phase' = phase
  BY <1>G, <1>T, GotoEffect DEF processVars
<1>1. CASE EnsureCapacity(r)
  <2>1. UNCHANGED <<db, batch, overwritten, victims>> /\ phase # "down"
    BY <1>1, <1>T, Running DEF EnsureCapacity, storeVars, rotationVars, ghostVars
  <2>2. Others(r) /\ pc'[r] \notin HeldPC /\ phase' = phase
    BY <1>1, <1>R, <1>G, <1>P DEF EnsureCapacity
  <2> QED
    BY <1>T, <2>1, <2>2, IdleStep
<1>2. CASE Lookup(r)
  <2>1. UNCHANGED <<db, batch, overwritten, victims>> /\ phase # "down" /\ k \in Keys
    BY <1>2, <1>T, Running, ExecEffect DEF Lookup, rotationVars, ghostVars, RotationPC
  <2>2. CASE Reply(r)
    BY <1>T, <1>R, <2>1, <2>2, IdleStep
  <2>3. CASE /\ db[k].status \notin Terminal
             /\ Goto(r, IF db[k].status = "absent" THEN "create" ELSE "claim")
             /\ UNCHANGED <<job, processVars>>
    <3>1. /\ Others(r) /\ phase' = phase /\ job'[r].ev = k
          /\ pc'[r] = IF db[k].status = "absent" THEN "create" ELSE "claim"
      BY <1>G, <2>3
    <3>2. CASE db[k].status = "absent"
      BY <1>T, <1>P, <2>1, <3>1, <3>2, IdleStep
    <3>3. CASE db[k].status # "absent"
      <4>1. db[k].status \in Pending \cup {"sending"}
        BY <1>T, <2>1, <2>3, <3>3 DEF Row, Statuses
      <4>2. \A u \in Threads, i \in Keys :
              HoldsEvent(u, i)' => HoldsEvent(u, i) \/ db'[i].status \in Pending \cup {"sending"}
        BY <2>1, <3>1, <4>1 DEF HoldsEvent, Others
      <4>3. \A i \in Keys : Owners(i)' \subseteq Owners(i)
        BY <1>P, <3>1, <3>3 DEF Owners, Others
      <4>4. \A i \in victims' : /\ i \in Keys /\ db'[i].status \in Terminal
                                /\ \A u \in Threads : ~HoldsEvent(u, i)
        BY <2>1 DEF ClaimInv, HeldRowsOK, TypeOK
      <4> QED
        BY <2>1, <3>1, <4>2, <4>3, <4>4, LooseStep
    <3> QED
      BY <3>2, <3>3
  <2> QED
    BY <1>2, <2>2, <2>3 DEF Lookup
<1>3. CASE Create(r)
  <2>1. UNCHANGED <<batch, victims>> /\ phase # "down" /\ k \in Keys /\ pc[r] = "create"
    BY <1>3, <1>T, Running DEF Create, rotationVars, RotationPC
  <2>2. CASE db' = db
    <3>1. UNCHANGED overwritten
      BY <1>3, <2>2 DEF Create
    <3>2. Others(r) /\ phase' = phase /\ pc'[r] \notin HeldPC
      <4>1. db' # CreateReceived(db, k) \/ Stored(db, k)
        <5>1. CreateReceived(db, k)[k].status = "received"
          BY <2>1 DEF CreateReceived, NoRow
        <5> QED
          BY <2>2, <5>1 DEF Stored
      <4>2. ~(~Stored(db, k) /\ ExecOK(r, CreateReceived(db, k)))
        BY <4>1, ExecEffect
      <4> QED
        BY <1>3, <1>R, <1>G, <1>P, <4>2 DEF Create
    <3> QED
      BY <1>T, <2>1, <2>2, <3>1, <3>2, IdleStep
  <2>3. CASE db' # db
    <3>1. ~Stored(db, k) /\ NewEvent(k)
      BY <1>3, <2>3, ExecEffect DEF Create
    <3>2. db' = CreateReceived(db, k)
      BY <1>3, <2>3, <3>1, ExecEffect DEF Create
    <3>3. /\ Others(r) /\ phase' = phase /\ pc'[r] \in {"queue", "idle"}
          /\ job'[r].ev \in {k, NoKey}
      BY <1>3, <1>R, <1>G, <3>1 DEF Create
    <3>4. db'[k].status = "received"
      BY <2>1, <3>2 DEF CreateReceived, NoRow
    <3>5. \A i \in Keys \ {k} : db'[i].status = db[i].status
      <4>1. \A d \in Row : \A e : [d EXCEPT !.elders = e].status = d.status
        BY DEF Row
      <4> QED
        BY <1>T, <3>2, <4>1 DEF CreateReceived
    <3>6. \A u \in Threads : ~HoldsEvent(u, k)
      BY <2>1, <3>1 DEF ClaimInv, HeldRowsOK
    <3>7. k \notin victims
      BY <3>1 DEF ClaimInv, HeldRowsOK, Stored, Terminal
    <3>8. \A u \in Threads, i \in Keys \ {k} : HoldsEvent(u, i)' => HoldsEvent(u, i)
      BY <2>1, <3>3, DeliveryAssumption DEF HoldsEvent, Others
    <3>9. HeldRowsOK'
      <4>1. \A u \in Threads, i \in Keys : HoldsEvent(u, i)' => Stored(db', i)
        BY <3>4, <3>5, <3>8 DEF ClaimInv, HeldRowsOK, Stored
      <4>2. ASSUME NEW i \in victims
            PROVE  db'[i].status \in Terminal /\ \A u \in Threads : ~HoldsEvent(u, i)'
        <5>1. i \in Keys \ {k}
          BY <3>7 DEF ClaimInv, TypeOK
        <5> QED
          BY <3>5, <3>8, <5>1 DEF ClaimInv, HeldRowsOK
      <4> QED
        BY <2>1, <3>3, <4>1, <4>2 DEF HeldRowsOK
    <3>10. OwnersOK'
      <4>1. pc[r] \notin ProcessPC /\ pc'[r] \notin ProcessPC
        BY <1>P, <2>1, <3>3
      <4>2. \A i \in Keys : Owners(i)' = Owners(i)
        BY <3>3, <4>1 DEF Owners, Others
      <4>3. Owners(k) = {}
        BY <3>6 DEF Owners, HoldsEvent
      <4>4. \A i \in Keys \ {k} : i \notin overwritten' => i \notin overwritten
        BY <3>1 DEF NewEvent
      <4> QED
        BY <3>5, <4>2, <4>3, <4>4 DEF ClaimInv, OwnersOK
    <3>11. Kept
      BY <3>4, <3>5 DEF Kept, Stored
    <3> QED
      BY <3>9, <3>10, <3>11
  <2> QED
    BY <2>2, <2>3
<1>4. CASE Queue(r)
  <2>1. pc[r] = "queue" /\ pc[r] \in HeldPC
    BY <1>4 DEF Queue, HeldPC
  <2>2. k \in Keys /\ Stored(db, k)
    BY <1>T, <2>1, InHand
  <2>3. UNCHANGED <<batch, victims>>
    BY <1>4 DEF Queue, rotationVars
  <2>4. /\ \A i \in Keys \ {k} : MarkQueued(db, k)[i].status = db[i].status
        /\ MarkQueued(db, k)[k].status = "queued"
    BY <1>T, <2>2, StatementEffects
  <2>5. db' \in {db, MarkQueued(db, k)}
    BY <1>4, ExecEffect DEF Queue
  <2>6. /\ Others(r) /\ phase' = phase /\ pc'[r] \notin ProcessPC
        /\ job'[r].ev \in {k, NoKey}
    BY <1>4, <1>R, <1>G, <1>P DEF Queue
  <2>7. /\ \A i \in Keys \ {k} : db'[i].status = db[i].status
        /\ Stored(db', k)
    BY <2>2, <2>4, <2>5 DEF Stored
  <2>8. /\ overwritten \subseteq overwritten' /\ overwritten' \subseteq overwritten \cup {k}
        /\ k \notin overwritten' => db' = db \/ db[k].status = "received"
    BY <1>4 DEF Queue
  <2>9. k \notin overwritten' => db' = db \/ Owners(k) = {}
    BY <2>2, <2>8, Unowned DEF Pending
  <2> QED
    BY <1>T, <2>1, <2>2, <2>3, <2>6, <2>7, <2>8, <2>9, HeldStep
<1>5. CASE Load(r)
  <2>1. UNCHANGED <<db, batch, overwritten, victims>> /\ phase # "down"
    BY <1>5, <1>T, Running, ExecEffect DEF Load, rotationVars, ghostVars
  <2>2. Reply(r)
    BY <1>5 DEF Load
  <2> QED
    BY <1>T, <1>R, <2>1, <2>2, IdleStep
<1> QED
  BY <1>1, <1>2, <1>3, <1>4, <1>5 DEF AcceptWebhook

\* The steps of rotation.
LEMMA RotateSteps ==
    ASSUME ClaimInv, NEW t \in Threads, Rotate(t)
    PROVE  HeldRowsOK' /\ OwnersOK' /\ Kept
<1>T. TypeOK /\ pc[t] \in RotationPC /\ UNCHANGED <<batch, overwritten>>
  BY DEF ClaimInv, Rotate, SelectVictims, DeleteVictims, RotationPC, ghostVars
<1>D. phase # "down"
  BY <1>T, Running DEF RotationPC
<1>P. \A l \in {"idle", "lookup", "rotate", "delete"} : l \notin HeldPC
  BY DEF HeldPC, ProcessPC
<1>G. ASSUME NEW l, Goto(t, l), UNCHANGED <<job, processVars>>
      PROVE  Others(t) /\ pc'[t] = l /\ phase' = phase
  BY <1>G, <1>T, GotoEffect DEF processVars
<1>E. ASSUME NEW err, EndRotation(t, err)
      PROVE  Others(t) /\ pc'[t] \notin HeldPC /\ phase' = phase /\ victims' = {}
  <2>1. CASE t # Worker /\ Reply(t)
    <3>1. t \in Requests
      BY <2>1 DEF Threads
    <3> QED
      BY <1>E, <1>T, <1>P, <2>1, <3>1, ReplyEffect DEF EndRotation
  <2> QED
    BY <1>E, <1>G, <1>P, <2>1 DEF EndRotation
<1>1. CASE SelectVictims(t)
  <2>1. db' = db
    BY <1>1, ExecEffect DEF SelectVictims
  <2>2. /\ Others(t) /\ pc'[t] \notin HeldPC /\ phase' = phase
        /\ \/ victims' = {}
           \/ /\ victims' \subseteq RotatableEventIDs(db)
              /\ \A i \in victims', u \in Threads : ~HoldsEvent(u, i)
    BY <1>1, <1>G, <1>E, <1>P DEF SelectVictims
  <2>3. \A i \in victims' : /\ i \in Keys /\ db'[i].status \in Terminal
                            /\ \A u \in Threads : ~HoldsEvent(u, i)
    BY <2>1, <2>2 DEF RotatableEventIDs
  <2>4. /\ \A u \in Threads, i \in Keys : HoldsEvent(u, i)' => HoldsEvent(u, i)
        /\ \A i \in Keys : Owners(i)' \subseteq Owners(i)
    BY <1>T, <2>2, DropStep
  <2> QED
    BY <1>D, <1>T, <2>1, <2>2, <2>3, <2>4, LooseStep
<1>2. CASE DeleteVictims(t)
  <2>1. \A i \in Keys \ victims : db'[i].status = db[i].status
    <3>1. db' \in {db, DeleteByEventIDs(db, victims)}
      BY <1>2, ExecEffect DEF DeleteVictims
    <3> QED
      BY <3>1 DEF DeleteByEventIDs
  <2>2. Others(t) /\ pc'[t] \notin HeldPC /\ phase' = phase /\ victims' = {}
    BY <1>2, <1>G, <1>E, <1>P DEF DeleteVictims
  <2>3. /\ \A u \in Threads, i \in Keys : HoldsEvent(u, i)' => HoldsEvent(u, i)
        /\ \A i \in Keys : Owners(i)' \subseteq Owners(i)
    BY <1>T, <2>2, DropStep
  <2> QED
    BY <1>D, <1>T, <2>1, <2>2, <2>3, LooseStep
<1> QED
  BY <1>1, <1>2 DEF Rotate

\* The steps of the worker between attempts.
LEMMA WorkerSteps ==
    ASSUME ClaimInv, RecoveryTick \/ NextInBatch \/ RotationTick
    PROVE  HeldRowsOK' /\ OwnersOK' /\ Kept
<1>T. TypeOK /\ Worker \in Threads
  BY DEF ClaimInv, Threads
<1>P. /\ \A l \in {"idle", "next", "rotate"} : l \notin HeldPC
      /\ "next" \notin ProcessPC /\ "claim" \notin ProcessPC
  BY DEF HeldPC, ProcessPC
<1>U. UNCHANGED <<db, victims, phase, overwritten>> /\ phase # "down"
  <2>1. UNCHANGED <<db, victims, phase, overwritten>>
    BY DEF RecoveryTick, NextInBatch, RotationTick, storeVars, rotationVars, processVars,
           ghostVars
  <2>2. phase = "up" \/ pc[Worker] = "next"
    BY DEF RecoveryTick, NextInBatch, RotationTick
  <2> QED
    BY <1>T, <2>1, <2>2, Running
<1>V. \A i \in victims' : /\ i \in Keys /\ db'[i].status \in Terminal
                          /\ \A u \in Threads : ~HoldsEvent(u, i)
  BY <1>U DEF ClaimInv, HeldRowsOK, TypeOK
<1>1. CASE RecoveryTick
  <2>1. Others(Worker) /\ pc'[Worker] = "next"
    BY <1>1, <1>T, GotoEffect DEF RecoveryTick
  <2>2. batch' \subseteq DueEventIDs(db)
    BY <1>1 DEF RecoveryTick, ListDueEventIDs
  <2>3. \A u \in Threads, i \in Keys :
          HoldsEvent(u, i)' => HoldsEvent(u, i) \/ db'[i].status \in Pending \cup {"sending"}
    BY <1>U, <1>P, <2>1, <2>2 DEF HoldsEvent, Others, DueEventIDs, HeldPC
  <2>4. \A i \in Keys : Owners(i)' \subseteq Owners(i)
    BY <1>P, <2>1 DEF Owners, Others
  <2> QED
    BY <1>U, <1>V, <2>3, <2>4, LooseStep
<1>2. CASE NextInBatch
  <2>1. CASE batch' = {} /\ Goto(Worker, "idle") /\ UNCHANGED job
    <3>1. Others(Worker) /\ pc'[Worker] = "idle"
      BY <1>T, <2>1, GotoEffect
    <3>2. \A u \in Threads, i \in Keys : HoldsEvent(u, i)' => HoldsEvent(u, i)
      BY <1>P, <2>1, <3>1 DEF HoldsEvent, Others, HeldPC
    <3>3. \A i \in Keys : Owners(i)' \subseteq Owners(i)
      BY <1>P, <3>1 DEF Owners, Others, HeldPC
    <3> QED
      BY <1>U, <1>V, <3>2, <3>3, LooseStep
  <2>2. ASSUME NEW k \in batch, batch' = batch \ {k},
               job' = [job EXCEPT ![Worker] = [@ EXCEPT !.ev = k]], Goto(Worker, "claim")
        PROVE  HeldRowsOK' /\ OwnersOK' /\ Kept
    <3>1. [job[Worker] EXCEPT !.ev = k].ev = k
      <4>1. job[Worker] \in Job
        BY <1>T DEF TypeOK
      <4> QED
        BY <4>1 DEF Job
    <3>2. Others(Worker) /\ pc'[Worker] = "claim" /\ job'[Worker].ev = k
      BY <1>T, <2>2, <3>1, GotoEffect
    <3>3. \A u \in Threads, i \in Keys : HoldsEvent(u, i)' => HoldsEvent(u, i)
      BY <2>2, <3>2 DEF HoldsEvent, Others
    <3>4. \A i \in Keys : Owners(i)' \subseteq Owners(i)
      BY <1>P, <3>2 DEF Owners, Others
    <3> QED
      BY <1>U, <1>V, <3>3, <3>4, LooseStep
  <2> QED
    BY <1>2, <2>1, <2>2 DEF NextInBatch
<1>3. CASE RotationTick
  <2>1. Others(Worker) /\ pc'[Worker] = "rotate" /\ UNCHANGED batch
    BY <1>3, <1>T, GotoEffect DEF RotationTick
  <2> QED
    BY <1>T, <1>U, <1>P, <2>1, IdleStep
<1> QED
  BY <1>1, <1>2, <1>3

\* Clients, the process and time.
LEMMA EnvironmentSteps ==
    ASSUME ClaimInv, Environment
    PROVE  HeldRowsOK' /\ OwnersOK' /\ Kept
<1>1. ASSUME UNCHANGED <<pc, job, batch, victims, overwritten>>,
             \A i \in Keys : db'[i].status = db[i].status,
             phase' \in {phase, "stopping"}
      PROVE  HeldRowsOK' /\ OwnersOK' /\ Kept
  BY <1>1 DEF ClaimInv, HeldRowsOK, OwnersOK, HoldsEvent, Owners, Stored, TypeOK, Kept
<1>2. ASSUME NEW r \in Requests, Disconnect(r)
      PROVE  HeldRowsOK' /\ OwnersOK' /\ Kept
  BY <1>1, <1>2 DEF Disconnect, storeVars, rotationVars, ghostVars
<1>3. CASE Sigterm
  BY <1>1, <1>3 DEF Sigterm, storeVars, rotationVars, ghostVars
<1>4. ASSUME NEW k \in Keys, BackoffElapses(k)
      PROVE  HeldRowsOK' /\ OwnersOK' /\ Kept
  <2>1. db \in [Keys -> Row]
    BY DEF ClaimInv, TypeOK
  <2>2. \A w : [db[k] EXCEPT !.waiting = w].status = db[k].status
    BY <2>1 DEF Row
  <2>3. [db[k] EXCEPT !.waiting = FALSE].status = db[k].status
    BY <2>2, Zenon
  <2>4. db' = [db EXCEPT ![k] = [db[k] EXCEPT !.waiting = FALSE]]
    BY <1>4 DEF BackoffElapses
  <2>5. \A row : [db EXCEPT ![k] = row][k] = row
                 /\ \A i \in Keys \ {k} : [db EXCEPT ![k] = row][i] = db[i]
    BY <2>1
  <2>6. /\ db'[k].status = db[k].status
        /\ \A i \in Keys \ {k} : db'[i].status = db[i].status
    BY <2>3, <2>4, <2>5, Zenon
  <2>7. \A i \in Keys : db'[i].status = db[i].status
    BY <2>6
  <2> QED
    BY <1>1, <1>4, <2>7 DEF BackoffElapses, rotationVars, processVars, ghostVars
<1>5. CASE Exit \/ Crash
  <2>1. Down
    BY <1>5 DEF Exit, Crash
  <2>2. \A u \in Threads : pc'[u] = "idle"
    BY <2>1 DEF Down
  <2>3. \A u \in Threads, i \in Keys : ~HoldsEvent(u, i)'
    BY <2>1, <2>2 DEF Down, HoldsEvent, ProcessPC
  <2>4. \A i \in Keys : Owners(i)' = {}
    BY <2>2 DEF Owners, ProcessPC
  <2> QED
    BY <2>1, <2>2, <2>3, <2>4, LooseStep DEF Down, storeVars
<1>6. CASE Restart
  <2>1. UNCHANGED <<pc, job, batch, victims, overwritten>> /\ phase' = "up"
    BY <1>6 DEF Restart, rotationVars, ghostVars
  <2>2. \A u \in Threads : pc[u] = "idle"
    BY <1>6 DEF Restart, ClaimInv, HeldRowsOK
  <2>3. db' = RequeueSending(db) /\ db \in [Keys -> Row]
    BY <1>6, ExecEffect DEF Restart, ClaimInv, TypeOK
  <2>4. \A d \in Row : \A s, w : [d EXCEPT !.status = s, !.waiting = w].status = s
    BY DEF Row
  <2>5. ASSUME NEW i \in Keys
        PROVE  \/ db[i].status = "sending" /\ db'[i].status = "queued"
               \/ db[i].status # "sending" /\ db'[i].status = db[i].status
    <3>1. db[i] \in Row
      BY <2>3
    <3>2. [db[i] EXCEPT !.status = "queued", !.waiting = FALSE].status = "queued"
      BY <2>4, <3>1, Zenon
    <3>3. db'[i] = IF db[i].status = "sending"
                   THEN [db[i] EXCEPT !.status = "queued", !.waiting = FALSE] ELSE db[i]
      BY <2>3, Zenon DEF RequeueSending
    <3> QED
      BY <3>2, <3>3, Zenon
  <2>6. \A u \in Threads, i \in Keys : HoldsEvent(u, i)' <=> HoldsEvent(u, i)
    BY <2>1 DEF HoldsEvent
  <2>7. HeldRowsOK'
    <3>1. \A i \in Keys : Stored(db, i) => Stored(db', i)
      BY <2>5 DEF Stored
    <3>2. \A i \in Keys : db[i].status \in Terminal => db'[i].status \in Terminal
      BY <2>5 DEF Terminal
    <3> QED
      BY <2>1, <2>2, <2>6, <3>1, <3>2 DEF ClaimInv, HeldRowsOK, TypeOK
  <2>8. OwnersOK'
    <3>1. \A i \in Keys : Owners(i)' = {}
      BY <2>1, <2>2 DEF Owners, ProcessPC
    <3> QED
      BY <3>1 DEF OwnersOK
  <2>9. Kept
    BY <2>5 DEF Kept, Stored
  <2> QED
    BY <2>7, <2>8, <2>9
<1> QED
  BY <1>2, <1>3, <1>4, <1>5, <1>6 DEF Environment

-----------------------------------------------------------------------------
LEMMA ClaimInit == Init => ClaimInv
<1> SUFFICES ASSUME Init PROVE ClaimInv
  OBVIOUS
<1>1. TypeOK /\ LocalsOK
  BY TypeInit
<1>2. \A t \in Threads : pc[t] = "idle"
  BY DEF Init
<1>3. HeldRowsOK
  BY <1>2 DEF Init, HeldRowsOK, HoldsEvent, ProcessPC
<1>4. OwnersOK
  BY <1>2 DEF OwnersOK, Owners, ProcessPC
<1> QED
  BY <1>1, <1>3, <1>4 DEF ClaimInv

LEMMA ClaimStep == ClaimInv /\ [Next]_vars => ClaimInv' /\ Kept
<1> SUFFICES ASSUME ClaimInv, [Next]_vars PROVE ClaimInv' /\ Kept
  OBVIOUS
<1>1. TypeOK' /\ LocalsOK'
  BY TypeStep DEF ClaimInv
<1>2. ASSUME NEW r \in Requests, NEW k \in Keys, Receive(r, k)
      PROVE  HeldRowsOK' /\ OwnersOK' /\ Kept
  <2>1. TypeOK /\ r \in Threads
    BY DEF ClaimInv, Threads
  <2>2. UNCHANGED <<db, batch, overwritten, victims>> /\ phase' # "down"
    BY <1>2 DEF Receive, storeVars, rotationVars, processVars, ghostVars
  <2>3. Goto(r, "capacity") /\ \E j : job' = [job EXCEPT ![r] = j]
    BY <1>2 DEF Receive
  <2>4. Others(r) /\ pc'[r] = "capacity"
    BY <2>1, <2>3, GotoEffect
  <2>5. "capacity" \notin HeldPC
    BY DEF HeldPC, ProcessPC
  <2> QED
    BY <2>1, <2>2, <2>4, <2>5, IdleStep
<1>3. CASE UNCHANGED vars
  BY <1>3 DEF vars, ClaimInv, HeldRowsOK, OwnersOK, HoldsEvent, Owners, Stored, TypeOK,
              LocalsOK, Kept
<1>4. CASE Next
  BY <1>1, <1>2, <1>4, AcceptSteps, ProcessSteps, RotateSteps, WorkerSteps, EnvironmentSteps
  DEF Next, ClaimInv
<1> QED
  BY <1>3, <1>4

\* Claim exclusion (sqlite.go:308), for any number of requests and events and any
\* number of faults: at most one goroutine works on a row whose MarkQueued did not
\* come after its first claim.
THEOREM ClaimExclusive == Spec => []ClaimIsExclusive
<1>1. ClaimInv => ClaimIsExclusive
  BY DEF ClaimInv, OwnersOK, ClaimIsExclusive
<1>2. ClaimInv /\ [Next]_vars => ClaimInv'
  BY ClaimStep
<1> QED
  BY <1>1, <1>2, ClaimInit, PTL DEF Spec

\* Rotation (delivery_service.go:292) deletes only rows in a terminal status that
\* no goroutine works on.
THEOREM RotationIsSafe == Spec => RetiresOnlyTerminal
<1> DEFINE Safe == \A k \in Keys : Stored(db, k) /\ ~Stored(db', k)
                                   => db[k].status \in Terminal /\ Owners(k) = {}
<1>1. ClaimInv /\ [Next]_vars => [Safe]_vars
  <2> SUFFICES ASSUME ClaimInv, Next, NEW k \in Keys, Stored(db, k), ~Stored(db', k)
               PROVE  db[k].status \in Terminal /\ Owners(k) = {}
    OBVIOUS
  <2>1. k \in victims
    BY ClaimStep DEF Kept
  <2>2. db[k].status \in Terminal /\ \A t \in Threads : ~HoldsEvent(t, k)
    BY <2>1 DEF ClaimInv, HeldRowsOK
  <2> QED
    BY <2>2 DEF Owners, HoldsEvent
<1>2. ClaimInv /\ [Next]_vars => ClaimInv'
  BY ClaimStep
<1> QED
  BY <1>1, <1>2, ClaimInit, PTL DEF Spec, RetiresOnlyTerminal
==============================================================================
