--------------------------- MODULE IngressProofs ---------------------------
(***************************************************************************)
(* What the clients are told stays true.  The invariant of ChatProofs is   *)
(* carried over to the pipeline with its clients, where a handler may also *)
(* panic and the machine may lose power, and is completed by what the      *)
(* answers rely on: a row that some client was told is closed has nothing  *)
(* left to send, and a 502 belongs to the one request that inserted the    *)
(* row.                                                                    *)
(***************************************************************************)
EXTENDS Ingress, ChatProofs

\* The row of k is closed: nobody works on it, and nobody will.
Closed(k) == db[k].status \in Terminal /\ Owners(k) = {}

\* All parts of k are counted in the row: whoever claims it only closes it again.
Spent(k) ==
    /\ db[k].parts \in Renderings /\ db[k].sent >= Len(db[k].parts)
    /\ \A t \in Owners(k) : pc[t] \in {"deliver", "settle"}

\* The row of k has nothing left to send, or two goroutines have held it.
Shut(k) == k \in overwritten \/ Closed(k) \/ Spent(k)

\* A MarkDelivered that took effect although it reported an error leaves an owner
\* that will reschedule the row, but nothing to send.
RowOK(k) == db[k].status = "delivered" => Shut(k)

ToldOK(k) == k \in told => Stored(db, k) /\ Shut(k)

\* Request r inserted the row of k and has not been answered yet.
Fresh(r, k) == job[r].ev = k /\ pc[r] \in HeldPC /\ ~call[r].dup

\* A row has one creator at most, and none any more once it was answered 502.
CreatorOK(k) ==
    /\ \A r, s \in Requests : Fresh(r, k) /\ Fresh(s, k) => r = s
    /\ k \in bounced => \A r \in Requests : ~Fresh(r, k)

\* The answer is forgotten with the row, at the latest when the process starts.
BouncedOK(k) == k \in bounced => phase = "down" \/ Stored(db, k)

GoneOK == gone # {} => disconnects > 0

\* The table a power loss brings back did not run ahead of the chat either.
SnapshotOK ==
    synced # NoSnapshot =>
        /\ synced.db \in [Keys -> Row] /\ synced.reached \in [Keys -> SUBSET Alerts]
        /\ synced.overwritten \subseteq Keys
        /\ \A k \in Keys :
             LET row == synced.db[k] IN
             /\ FixedRendering \/ k \notin synced.overwritten =>
                  /\ row.parts = <<>> => row.sent = 0
                  /\ Posted(synced.reached[k], row.parts, row.sent)
                  /\ row.status = "delivered" => synced.reached[k] = Alerts
             /\ k \notin synced.overwritten => row.sent <= Len(row.parts)

Call == [dup : BOOLEAN, err : BOOLEAN]

ClientTypes ==
    /\ call \in [Requests -> Call]
    /\ told \subseteq Keys /\ bounced \subseteq Keys
    /\ panics \in Nat

IngressInv ==
    /\ ChatInv /\ SnapshotOK /\ GoneOK /\ ClientTypes
    /\ \A k \in Keys : RowOK(k) /\ ToldOK(k) /\ CreatorOK(k) /\ BouncedOK(k)
    /\ OneBadGateway /\ ServerErrorHasCause

-----------------------------------------------------------------------------
\* A row with nothing left to send stays so.

\* Goroutines leave the row alone, or leave it.
Abandoned(k) ==
    /\ SameRow(k) /\ Owners(k)' \subseteq Owners(k)
    /\ \A t \in Owners(k)' : pc'[t] = pc[t] /\ job'[t] = job[t]
    /\ reached'[k] = reached[k]
    /\ k \in repeated' <=> k \in repeated
    /\ k \in overwritten' <=> k \in overwritten
    /\ k \in unrecorded => k \in unrecorded'
    /\ \A t \in Owners(k) : pc[t] = "mark" => t \in Owners(k)' \/ k \in unrecorded'

LEMMA ShutAbandoned ==
    ASSUME NEW k, Abandoned(k)
    PROVE  (Shut(k) => Shut(k)') /\ (RowOK(k) => RowOK(k)')
<1>1. Shut(k) => Shut(k)'
  BY DEF Abandoned, Shut, Closed, Spent, SameRow, RowBecomes, Columns
<1> QED
  BY <1>1 DEF Abandoned, RowOK, SameRow, RowBecomes, Columns

LEMMA AbandonedKinds ==
    ASSUME NEW k, Apart(k) \/ Ended(k)
    PROVE  Abandoned(k)
<1>1. CASE Apart(k)
  BY <1>1, ApartOwners DEF Apart, Abandoned, SameHistory
<1>2. CASE Ended(k)
  <2>1. Owners(k)' = {}
    BY <1>2 DEF Ended, Owners, Writers
  <2> QED
    BY <1>2, <2>1 DEF Ended, Abandoned
<1> QED
  BY <1>1, <1>2

\* A row in a terminal status is shut.
LEMMA TerminalShut ==
    ASSUME ClaimInv, NEW k \in Keys, RowOK(k), db[k].status \in Terminal
    PROVE  Shut(k)
<1>1. CASE db[k].status = "delivered"
  BY <1>1 DEF RowOK
<1>2. CASE db[k].status # "delivered" /\ k \notin overwritten
  <2>1. db[k].status # "sending"
    BY DEF Terminal
  <2>2. Owners(k) = {}
    BY <1>2, <2>1 DEF ClaimInv, OwnersOK
  <2> QED
    BY <2>2 DEF Shut, Closed
<1> QED
  BY <1>1, <1>2 DEF Shut

\* Among the steps of an attempt on a shut row there is none that sends.
LEMMA ShutAttempt ==
    ASSUME ChatInv, NEW t \in Threads, NEW k \in Keys, WorksOn(t, k), AttemptStep(t, k),
           Shut(k), k \notin overwritten, k \notin overwritten'
    PROVE  Shut(k)'
<1>T. job[t].ev = k /\ db[k] \in Row /\ ExactOK(k)
  BY DEF WorksOn, ChatInv, ClaimInv, TypeOK
<1>1. Closed(k) \/ Spent(k)
  BY DEF Shut
<1>2. \A u \in Threads \ {t} : /\ u \in Owners(k)' <=> u \in Owners(k)
                               /\ pc'[u] = pc[u]
  BY WorksOwners
<1>3. pc[t] \in ProcessPC => t \in Owners(k)
  BY <1>T DEF Owners
<1>4. pc'[t] \in {"next", "load"} => t \notin Owners(k)'
  BY DEF Owners, ProcessPC
\* Once the row is spent it stays so.
<1>S. ASSUME Spent(k), db'[k].parts = db[k].parts, db'[k].sent >= Len(db[k].parts),
             t \in Owners(k)' => pc'[t] \in {"deliver", "settle"}
      PROVE  Shut(k)'
  BY <1>S, <1>2 DEF Shut, Spent, Owners
<1>5. CASE Claimed(t, k)
  <2>1. Spent(k)
    BY <1>1, <1>5 DEF Claimed, Closed, Pending, Terminal
  <2>2. db[k].parts \in Renderings /\ db[k].sent >= Len(db[k].parts)
    BY <2>1 DEF Spent
  <2>3. db[k].parts # <<>> /\ Len(db[k].parts) \in Nat
    BY <2>2, RenderingFacts
  <2>4. pc'[t] = "deliver"
    BY <1>5, <1>T, <2>2, <2>3 DEF Claimed, LoopPC, Row
  <2> QED
    BY <1>5, <1>S, <2>1, <2>2, <2>4 DEF Claimed, RowBecomes, Columns
<1>6. CASE ClaimMissed(t, k)
  <2>1. t \notin Owners(k) /\ t \notin Owners(k)'
    BY <1>6 DEF ClaimMissed, Owners, ProcessPC
  <2>2. CASE SameRow(k)
    <3>1. Owners(k)' = Owners(k)
      BY <1>2, <2>1 DEF Owners
    <3>2. \A u \in Owners(k) : pc'[u] = pc[u]
      BY <1>2, <2>1 DEF Owners
    <3> QED
      BY <1>1, <2>2, <3>1, <3>2 DEF Shut, Closed, Spent, SameRow, RowBecomes, Columns
  <2>3. CASE db[k].status \in Pending
             /\ RowBecomes(k, "sending", db[k].parts, db[k].sent, db[k].attempts + 1)
    <3>1. Spent(k)
      BY <1>1, <2>3 DEF Closed, Pending, Terminal
    <3> QED
      BY <1>S, <2>1, <2>3, <3>1 DEF RowBecomes, Columns, Spent
  <2> QED
    BY <1>6, <2>2, <2>3 DEF ClaimMissed
<1>7. CASE pc[t] \in {"render", "send", "mark"}
  <2>1. t \in Owners(k)
    BY <1>3, <1>7 DEF ProcessPC
  <2> QED
    BY <1>1, <1>7, <2>1 DEF Closed, Spent
<1>8. CASE pc[t] = "deliver" /\ (Delivered(t, k) \/ DeliverStops(t, k))
  <2>1. t \in Owners(k) /\ Spent(k)
    BY <1>1, <1>3, <1>8 DEF ProcessPC, Closed
  <2>2. job[t].parts = db[k].parts
    BY <1>T, <1>8, <2>1 DEF ExactOK, ExactOwnerOK, SendLoop
  <2>3. db[k].parts \in Renderings /\ db[k].sent >= Len(db[k].parts)
    BY <2>1 DEF Spent
  <2>4. Len(db[k].parts) \in Nat
    BY <2>3, RenderingFacts
  <2>5. db'[k].parts = db[k].parts /\ db'[k].sent >= Len(db[k].parts)
    BY <1>8, <2>2, <2>3, <2>4
    DEF Delivered, DeliverStops, RowDelivered, SameRow, RowBecomes, Columns
  <2>6. t \in Owners(k)' => pc'[t] = "settle"
    BY <1>4, <1>8 DEF Delivered, DeliverStops, Stops
  <2> QED
    BY <1>S, <2>1, <2>5, <2>6
<1>9. CASE Settled(t, k)
  <2>1. t \in Owners(k) /\ Spent(k)
    BY <1>1, <1>3, <1>9 DEF Settled, ProcessPC, Closed
  <2>2. t \notin Owners(k)'
    BY <1>4, <1>9 DEF Settled
  <2> QED
    BY <1>9, <1>S, <2>1, <2>2 DEF Settled, SameRow, RowBecomes, Columns, Spent
<1> QED
  BY <1>5, <1>6, <1>7, <1>8, <1>9
  DEF AttemptStep, Rendered, RenderStops, Accepted, SendStops, Marked, MarkStops,
      Delivered, DeliverStops

\* A step of the pipeline that keeps the row keeps it shut.
LEMMA ShutStep ==
    ASSUME ChatInv, StepKinds, NEW k \in Keys, Shut(k), Stored(db, k), Stored(db', k)
    PROVE  Shut(k)'
<1>T. Requests \subseteq Threads
  BY DEF Threads
<1>1. CASE Abandoned(k)
  BY <1>1, ShutAbandoned
<1>2. ASSUME Deleted(k) PROVE FALSE
  BY <1>2 DEF Deleted, RowBecomes, Columns, Stored
<1>3. CASE Requeued(k)
  <2>1. Owners(k)' = {} /\ db'[k].parts = db[k].parts /\ db'[k].sent = db[k].sent
        /\ (k \in overwritten => k \in overwritten')
        /\ (db[k].status \in Terminal => db'[k].status = db[k].status)
    BY <1>3 DEF Requeued, Owners, Writers, SameRow, RowBecomes, Columns, SameHistory, Terminal
  <2> QED
    BY <2>1 DEF Shut, Closed, Spent
<1>4. ASSUME NEW t \in Threads, WorksOn(t, job[t].ev), job[t].ev # k
      PROVE  Shut(k)'
  BY <1>1, <1>4, WorksApart, AbandonedKinds
<1>5. ASSUME NEW t \in Threads, WorksOn(t, k), AttemptStep(t, k)
      PROVE  Shut(k)'
  <2>1. k \in overwritten' <=> k \in overwritten
    BY <1>5
    DEF AttemptStep, Claimed, ClaimMissed, Rendered, RenderStops, Accepted, SendStops,
        Marked, MarkStops, Delivered, DeliverStops, Settled, SameHistory
  <2> QED
    BY <1>5, <2>1, ShutAttempt DEF Shut
<1>6. ASSUME NEW r \in Threads, WorksOn(r, k), Queued(r, k)
      PROVE  Shut(k)'
  <2>1. r \notin Owners(k) /\ r \notin Owners(k)'
    BY <1>6 DEF Queued, Owners, ProcessPC
  <2>2. Owners(k)' = Owners(k) /\ \A u \in Owners(k) : pc'[u] = pc[u]
    BY <1>6, <2>1, WorksOwners DEF Owners
  <2>3. CASE k \in overwritten'
    BY <2>3 DEF Shut
  <2>4. CASE k \notin overwritten'
    <3>1. /\ k \notin overwritten
          /\ db'[k].parts = db[k].parts /\ db'[k].sent = db[k].sent
          /\ db'[k].status = db[k].status \/ db[k].status = "received"
      BY <1>6, <2>4 DEF Queued, SameRow, RowBecomes, Columns
    <3> QED
      BY <2>2, <3>1 DEF Shut, Closed, Spent, Terminal
  <2> QED
    BY <2>3, <2>4
<1>7. ASSUME NEW r \in Threads, Created(r, k) PROVE FALSE
  BY <1>7 DEF Created
<1>8. CASE \E t \in Threads : /\ WorksOn(t, job[t].ev) /\ Stored(db, job[t].ev) /\ Calm
                              /\ pc[t] \in {"claim"} \cup ProcessPC
                              /\ AttemptStep(t, job[t].ev)
  BY <1>4, <1>5, <1>8
<1>9. CASE \E r \in Requests : /\ WorksOn(r, job[r].ev) /\ Calm
                               /\ Queued(r, job[r].ev) \/ Created(r, job[r].ev)
  BY <1>T, <1>4, <1>6, <1>7, <1>9
<1> QED
  BY <1>1, <1>2, <1>3, <1>8, <1>9, AbandonedKinds DEF StepKinds

\* The step that closes the row leaves nothing to send.
LEMMA ClosingAttempt ==
    ASSUME ChatInv, NEW t \in Threads, NEW k \in Keys, WorksOn(t, k), AttemptStep(t, k),
           db[k].status # "delivered", db'[k].status = "delivered", k \notin overwritten
    PROVE  Shut(k)'
<1>T. job[t].ev = k /\ job[t] \in Job /\ ExactOK(k) /\ ClaimInv
  BY DEF WorksOn, ChatInv, ClaimInv, TypeOK
<1>1. Delivered(t, k) \/ (DeliverStops(t, k) /\ RowDelivered(t, k))
  BY <1>T DEF AttemptStep, Claimed, ClaimMissed, Rendered, RenderStops, Accepted, SendStops,
     Marked, MarkStops, DeliverStops, Settled, SameRow, RowBecomes, Columns, PartsSaved,
     ChunkMarked, Job
<1>2. pc[t] = "deliver" /\ RowDelivered(t, k)
  BY <1>1 DEF Delivered, DeliverStops
<1>3. t \in Owners(k)
  BY <1>T, <1>2 DEF Owners, ProcessPC
<1>4. \A u \in Owners(k) : u = t
  BY <1>T, <1>3 DEF ClaimInv, OwnersOK
<1>5. \A u \in Owners(k)' : u = t
  BY <1>4, WorksOwners DEF Owners
<1>6. CASE Delivered(t, k)
  <2>1. t \notin Owners(k)'
    BY <1>6 DEF Delivered, Owners, ProcessPC
  <2> QED
    BY <1>5, <2>1 DEF Shut, Closed, Terminal
<1>7. CASE DeliverStops(t, k)
  <2>1. job[t].parts = db[k].parts
    BY <1>T, <1>2, <1>3 DEF ExactOK, ExactOwnerOK, SendLoop
  <2>2. job[t].parts \in Renderings
    BY <1>2, <1>T DEF ClaimInv, LocalsOK, LocalOK
  <2>3. Len(job[t].parts) \in Nat
    BY <2>2, RenderingFacts
  <2>4. db'[k].parts = db[k].parts /\ db'[k].sent = Len(job[t].parts)
    BY <1>2 DEF RowDelivered, RowBecomes, Columns
  <2>5. pc'[t] = "settle"
    BY <1>7 DEF DeliverStops, Stops
  <2>6. Spent(k)'
    BY <1>5, <2>1, <2>2, <2>3, <2>4, <2>5 DEF Spent
  <2> QED
    BY <2>6 DEF Shut
<1> QED
  BY <1>1, <1>6, <1>7

LEMMA RowOKStep ==
    ASSUME ChatInv, StepKinds, NEW k \in Keys, RowOK(k)
    PROVE  RowOK(k)'
<1> SUFFICES ASSUME db'[k].status = "delivered" PROVE Shut(k)'
  BY DEF RowOK
<1>T. Requests \subseteq Threads /\ Stored(db', k)
  BY DEF Threads, Stored
<1>1. CASE db[k].status = "delivered"
  <2>1. Shut(k) /\ Stored(db, k)
    BY <1>1 DEF RowOK, Stored
  <2> QED
    BY <1>T, <2>1, ShutStep
<1>2. CASE db[k].status # "delivered"
  <2>1. ASSUME Apart(k) \/ Deleted(k) \/ Ended(k) \/ Requeued(k) PROVE FALSE
    BY <1>2, <2>1 DEF Apart, Deleted, Ended, Requeued, SameRow, RowBecomes, Columns
  <2>2. ASSUME NEW t \in Threads, WorksOn(t, job[t].ev), job[t].ev # k PROVE FALSE
    BY <2>1, <2>2, WorksApart
  <2>3. ASSUME NEW r, Queued(r, k) \/ Created(r, k) PROVE FALSE
    BY <1>2, <2>3 DEF Queued, Created, SameRow, RowBecomes, Columns
  <2>4. PICK t \in Threads : WorksOn(t, k) /\ AttemptStep(t, k)
    <3>1. CASE \E t \in Threads : /\ WorksOn(t, job[t].ev) /\ Stored(db, job[t].ev) /\ Calm
                                  /\ pc[t] \in {"claim"} \cup ProcessPC
                                  /\ AttemptStep(t, job[t].ev)
      BY <2>2, <3>1
    <3>2. CASE \E r \in Requests : /\ WorksOn(r, job[r].ev) /\ Calm
                                   /\ Queued(r, job[r].ev) \/ Created(r, job[r].ev)
      BY <1>T, <2>2, <2>3, <3>2
    <3> QED
      BY <2>1, <3>1, <3>2 DEF StepKinds
  <2>5. k \in overwritten => k \in overwritten'
    BY <2>4
    DEF AttemptStep, Claimed, ClaimMissed, Rendered, RenderStops, Accepted, SendStops,
        Marked, MarkStops, Delivered, DeliverStops, Settled, SameHistory
  <2> QED
    BY <1>2, <2>4, <2>5, ClosingAttempt DEF Shut
<1> QED
  BY <1>1, <1>2

-----------------------------------------------------------------------------
\* The two steps that are none of Delivery's: a panic and a power loss.

LEMMA ChatAbandoned ==
    ASSUME ChatInv, NEW k \in Keys, Abandoned(k)
    PROVE  ChatOK(k)' /\ ExactOK(k)' /\ KnownOK(k)'
<1>I. ChatOK(k) /\ ExactOK(k) /\ KnownOK(k)
  BY DEF ChatInv, OnlyKnownDuplicates, KnownOK
<1>1. /\ db'[k].parts = db[k].parts /\ db'[k].sent = db[k].sent
      /\ db'[k].status = db[k].status /\ reached'[k] = reached[k]
      /\ k \in repeated' <=> k \in repeated
      /\ k \in overwritten' <=> k \in overwritten
      /\ k \in unrecorded => k \in unrecorded'
      /\ Owners(k)' \subseteq Owners(k)
  BY DEF Abandoned, SameRow, RowBecomes, Columns
<1>2. \A t \in Owners(k)' : /\ ChatOwnerOK(t, k) => ChatOwnerOK(t, k)'
                            /\ ExactOwnerOK(t, k) => ExactOwnerOK(t, k)'
  BY <1>1 DEF Abandoned, ChatOwnerOK, ExactOwnerOK
<1>3. Good(k)' <=> Good(k)
  BY <1>1 DEF Good, FixedRendering
<1>4. AtMark(k) => AtMark(k)' \/ k \in unrecorded'
  BY DEF Abandoned, AtMark
<1>5. ChatOK(k)'
  BY <1>I, <1>1, <1>2, <1>3 DEF ChatOK
<1>6. ExactOK(k)'
  BY <1>I, <1>1, <1>2, <1>4 DEF ExactOK, Stored
<1> QED
  BY <1>I, <1>1, <1>5, <1>6 DEF KnownOK

\* A handler that panics leaves its rows as a handler that ends does.
LEMMA PanicAbandons ==
    ASSUME ClaimInv, NEW r \in Requests, Panic(r)
    PROVE  /\ ClaimInv' /\ Others(r) /\ pc'[r] = "idle" /\ db' = db
           /\ \A k \in Keys : Abandoned(k)
<1>1. /\ TypeOK /\ LocalsOK /\ Reply(r) /\ r \in Threads /\ pc[r] # "idle"
      /\ UNCHANGED <<db, storeErrors, batch, reached, repeated, overwritten, tries>>
      /\ unrecorded' = IF pc[r] = "mark" THEN unrecorded \cup {job[r].ev} ELSE unrecorded
  BY DEF Panic, ClaimInv, Threads, storeVars, chatVars
<1>2. Others(r) /\ pc'[r] = "idle" /\ phase' = phase
  BY <1>1, ReplyEffect
<1>3. pc[r] = "mark" => job[r].ev \in Keys
  BY <1>1 DEF LocalsOK, LocalOK, RotationPC
<1>4. /\ victims' \in {victims, {}} /\ rotateMu' \in {rotateMu, NoThread}
  BY DEF Panic, rotationVars
<1>5. TypeOK' /\ LocalsOK'
  <2>1. /\ pc' \in [Threads -> PC] /\ job' \in [Threads -> Job] /\ LocalsOK'
        /\ gone' \subseteq Requests /\ phase' = phase
        /\ restarts' = restarts /\ disconnects' = disconnects
    BY <1>1, ReplyStep
  <2>2. unrecorded' \subseteq Keys
    BY <1>1, <1>3 DEF TypeOK
  <2>3. victims' \subseteq Keys /\ rotateMu' \in Threads \cup {NoThread}
    BY <1>1, <1>4 DEF TypeOK
  <2> QED
    BY <1>1, <2>1, <2>2, <2>3 DEF TypeOK
<1>6. HeldRowsOK' /\ OwnersOK'
  <2>1. phase' # "down"
    BY <1>1, <1>2, Running
  <2>2. pc'[r] \notin HeldPC
    BY <1>2 DEF HeldPC, ProcessPC
  <2> QED
    BY <1>1, <1>2, <1>4, <2>1, <2>2, IdleStep
<1>7. ASSUME NEW k \in Keys PROVE Abandoned(k)
  <2>1. r \notin Owners(k)'
    BY <1>2 DEF Owners, ProcessPC
  <2>2. \A u \in Threads \ {r} : u \in Owners(k)' <=> u \in Owners(k)
    BY <1>2 DEF Others, Owners
  <2>3. /\ Owners(k)' \subseteq Owners(k)
        /\ \A u \in Owners(k)' : pc'[u] = pc[u] /\ job'[u] = job[u]
    BY <1>2, <2>1, <2>2 DEF Others, Owners
  <2>4. \A t \in Owners(k) : pc[t] = "mark" => t \in Owners(k)' \/ k \in unrecorded'
    BY <1>1, <2>2 DEF Owners
  <2>5. SameRow(k)
    BY <1>1, Untouched
  <2> QED
    BY <1>1, <2>3, <2>4, <2>5 DEF Abandoned
<1> QED
  BY <1>1, <1>2, <1>5, <1>6, <1>7 DEF ClaimInv

LEMMA PanicChat ==
    ASSUME ChatInv, NEW r \in Requests, Panic(r)
    PROVE  ChatInv'
<1>1. ClaimInv' /\ \A k \in Keys : Abandoned(k)
  BY PanicAbandons DEF ChatInv
<1>2. \A k \in Keys : ChatOK(k)' /\ ExactOK(k)' /\ KnownOK(k)'
  BY <1>1, ChatAbandoned
<1>3. OnlyKnownDuplicates'
  BY <1>1, <1>2 DEF OnlyKnownDuplicates, KnownOK, ClaimInv, TypeOK
<1> QED
  BY <1>1, <1>2, <1>3 DEF ChatInv

\* A power loss brings back a table that is behind the chat, never ahead of it.
LEMMA PowerChat ==
    ASSUME ChatInv, SnapshotOK, PowerLoss
    PROVE  ChatInv' /\ \A k \in Keys : Owners(k)' = {}
<1>T. TypeOK /\ LocalsOK
  BY DEF ChatInv, ClaimInv
<1>S. /\ synced # NoSnapshot
      /\ synced.db \in [Keys -> Row] /\ synced.reached \in [Keys -> SUBSET Alerts]
      /\ synced.overwritten \subseteq Keys
  BY DEF PowerLoss, SnapshotOK
<1>1. /\ pc' = [t \in Threads |-> "idle"] /\ job' = [t \in Threads |-> NoJob]
      /\ phase' = "down" /\ batch' = {} /\ victims' = {} /\ rotateMu' = NoThread
      /\ gone' = {} /\ db' = synced.db
      /\ reached' = [k \in Keys |-> reached[k] \cup synced.reached[k]]
      /\ overwritten' = overwritten \cup synced.overwritten
      /\ UNCHANGED <<storeErrors, restarts, disconnects, repeated, tries>>
  BY DEF PowerLoss
<1>2. unrecorded' = unrecorded \cup {job[t].ev : t \in {u \in Threads : pc[u] = "mark"}}
            \cup {k \in Keys : db[k] # synced.db[k] \/ reached[k] # synced.reached[k]}
  BY DEF PowerLoss
<1>3. \A t \in Threads : pc'[t] = "idle"
  BY <1>1
<1>4. \A k : Owners(k)' = {}
  BY <1>3 DEF Owners, ProcessPC
<1>5. TypeOK'
  <2>1. \A t \in Threads : pc[t] = "mark" => job[t].ev \in Keys
    BY <1>T DEF LocalsOK, LocalOK, RotationPC
  <2>2. unrecorded' \subseteq Keys
    BY <1>T, <1>2, <2>1 DEF TypeOK
  <2>3. pc' \in [Threads -> PC] /\ job' \in [Threads -> Job]
    <3>1. "idle" \in PC /\ NoJob \in Job
      BY DEF PC, Job, NoJob
    <3> QED
      BY <1>1, <3>1
  <2>4. reached' \in [Keys -> SUBSET Alerts]
    <3>1. \A k \in Keys : reached[k] \cup synced.reached[k] \in SUBSET Alerts
      BY <1>T, <1>S DEF TypeOK
    <3> QED
      BY <1>1, <3>1
  <2>5. overwritten' \subseteq Keys
    BY <1>T, <1>S, <1>1 DEF TypeOK
  <2> QED
    BY <1>T, <1>S, <1>1, <2>2, <2>3, <2>4, <2>5 DEF TypeOK
<1>6. LocalsOK'
  BY <1>3 DEF LocalsOK, LocalOK
<1>7. HeldRowsOK' /\ OwnersOK'
  BY <1>1, <1>3, <1>4 DEF HeldRowsOK, OwnersOK, HoldsEvent, ProcessPC
<1>8. ASSUME NEW k \in Keys PROVE ChatOK(k)' /\ ExactOK(k)' /\ KnownOK(k)'
  <2> DEFINE row == synced.db[k]
  <2>I. ChatOK(k) /\ ExactOK(k) /\ KnownOK(k)
    BY DEF ChatInv, OnlyKnownDuplicates, KnownOK
  <2>1. /\ db'[k] = row /\ reached'[k] = reached[k] \cup synced.reached[k]
        /\ reached[k] \in SUBSET Alerts /\ synced.reached[k] \in SUBSET Alerts
        /\ k \in overwritten' <=> k \in overwritten \/ k \in synced.overwritten
        /\ k \in unrecorded => k \in unrecorded'
    BY <1>T, <1>S, <1>1, <1>2 DEF TypeOK
  <2>2. /\ FixedRendering \/ k \notin synced.overwritten =>
             /\ row.parts = <<>> => row.sent = 0
             /\ Posted(synced.reached[k], row.parts, row.sent)
             /\ row.status = "delivered" => synced.reached[k] = Alerts
        /\ k \notin synced.overwritten => row.sent <= Len(row.parts)
    BY <1>S DEF SnapshotOK
  <2>3. Good(k)' => FixedRendering \/ k \notin synced.overwritten
    BY <2>1 DEF Good, FixedRendering
  <2> HIDE DEF row
  <2>4. ChatOK(k)'
    <3> SUFFICES ASSUME Good(k)'
                 PROVE  /\ row.parts = <<>> => row.sent = 0
                        /\ Posted(reached'[k], row.parts, row.sent)
                        /\ row.status = "delivered" => reached'[k] = Alerts
      BY <1>4, <2>1 DEF ChatOK
    <3>1. /\ row.parts = <<>> => row.sent = 0
          /\ Posted(synced.reached[k], row.parts, row.sent)
          /\ row.status = "delivered" => synced.reached[k] = Alerts
      BY <2>2, <2>3
    <3>2. synced.reached[k] \subseteq reached'[k]
      BY <2>1
    <3>3. Posted(reached'[k], row.parts, row.sent)
      BY <3>1, <3>2, PostedFacts
    <3> QED
      BY <2>1, <3>1, <3>3
  <2>5. k \notin unrecorded' => /\ db[k] = row /\ reached[k] = synced.reached[k]
                                /\ ~AtMark(k) /\ k \notin unrecorded
    BY <1>2 DEF row, AtMark, Owners
  <2>6. ExactOK(k)'
    <3> SUFFICES ASSUME k \notin overwritten'
                 PROVE  /\ row.sent <= Len(row.parts)
                        /\ Stored(db', k) /\ k \notin unrecorded' =>
                             /\ row.parts = <<>> => reached'[k] = {}
                             /\ Unposted(reached'[k], row.parts, row.sent + 1)
                             /\ Unposted(reached'[k], row.parts, row.sent)
      BY <1>4, <2>1 DEF ExactOK
    <3>1. row.sent <= Len(row.parts) /\ k \notin overwritten
      BY <2>1, <2>2
    <3>2. ASSUME Stored(db', k), k \notin unrecorded'
          PROVE  /\ row.parts = <<>> => reached'[k] = {}
                 /\ Unposted(reached'[k], row.parts, row.sent + 1)
                 /\ Unposted(reached'[k], row.parts, row.sent)
      <4>1. /\ db[k] = row /\ reached'[k] = reached[k] /\ ~AtMark(k)
            /\ k \notin unrecorded /\ Stored(db, k)
        BY <2>1, <2>5, <3>2 DEF Stored
      <4> QED
        BY <2>I, <3>1, <4>1 DEF ExactOK
    <3> QED
      BY <3>1, <3>2
  <2>7. KnownOK(k)'
    BY <2>I, <2>1, <1>1 DEF KnownOK
  <2> QED
    BY <2>4, <2>6, <2>7
<1>9. OnlyKnownDuplicates'
  BY <1>5, <1>8 DEF OnlyKnownDuplicates, KnownOK, TypeOK
<1> QED
  BY <1>4, <1>5, <1>6, <1>7, <1>8, <1>9 DEF ChatInv, ClaimInv

-----------------------------------------------------------------------------
\* The machine and the pipeline together.

\* Every other step is one of Delivery's.
LEMMA DeliverySteps ==
    ASSUME [IngressNext]_ingressVars
    PROVE  [Next]_vars \/ PowerLoss \/ \E r \in Requests : Panic(r)
<1>T. Requests \subseteq Threads /\ Worker \in Threads
  BY DEF Threads
<1>1. CASE UNCHANGED ingressVars
  BY <1>1 DEF ingressVars
<1>2. ASSUME NEW r \in Requests, NEW o \in Offers, Refuse(r, o) PROVE UNCHANGED vars
  BY <1>2 DEF Refuse
<1>3. ASSUME NEW r \in Requests, NEW k \in Keys, NEW o \in Offers, Admit(r, k, o) PROVE Next
  BY <1>3 DEF Admit, Next
<1>4. ASSUME NEW r \in Requests, Serve(r) PROVE Next
  BY <1>T, <1>4 DEF Serve, Next
<1>5. ASSUME Background PROVE Next
  BY <1>T, <1>5 DEF Background, Next, Environment
<1>6. ASSUME Stop PROVE Next
  BY <1>6 DEF Stop, Next, Environment
<1>7. ASSUME Sync PROVE UNCHANGED vars
  BY <1>7 DEF Sync
<1> QED
  BY <1>1, <1>2, <1>3, <1>4, <1>5, <1>6, <1>7 DEF IngressNext

LEMMA SnapshotStep ==
    ASSUME ChatInv, SnapshotOK, [IngressNext]_ingressVars
    PROVE  SnapshotOK'
<1> DEFINE now == [db |-> db, reached |-> reached, overwritten |-> overwritten]
<1>1. synced' \in {synced, NoSnapshot, now}
  <2>1. ASSUME NoSync PROVE synced' \in {synced, NoSnapshot}
    BY <2>1 DEF NoSync, Snapshot
  <2>2. CASE UNCHANGED ingressVars
    BY <2>2 DEF ingressVars, machineVars
  <2>3. ASSUME NEW r, NEW o, Refuse(r, o) PROVE synced' = synced
    BY <2>3 DEF Refuse, machineVars
  <2>4. ASSUME Sync PROVE synced' \in {NoSnapshot, now}
    BY <2>4 DEF Sync, Snapshot
  <2> QED
    BY <2>1, <2>2, <2>3, <2>4
    DEF IngressNext, Admit, Serve, Panic, Background, Stop, PowerLoss
<1>2. CASE synced' = synced
  BY <1>2 DEF SnapshotOK, FixedRendering
<1>3. CASE synced' = NoSnapshot
  BY <1>3 DEF SnapshotOK
<1>4. CASE synced' = now
  <2>1. synced'.db = db /\ synced'.reached = reached /\ synced'.overwritten = overwritten
    BY <1>4
  <2>2. TypeOK /\ \A k \in Keys : ChatOK(k) /\ ExactOK(k)
    BY DEF ChatInv, ClaimInv
  <2>3. \A k \in Keys :
          /\ FixedRendering \/ k \notin overwritten =>
               /\ db[k].parts = <<>> => db[k].sent = 0
               /\ Posted(reached[k], db[k].parts, db[k].sent)
               /\ db[k].status = "delivered" => reached[k] = Alerts
          /\ k \notin overwritten => db[k].sent <= Len(db[k].parts)
    BY <2>2 DEF ChatOK, ExactOK, Good
  <2> QED
    BY <2>1, <2>2, <2>3 DEF SnapshotOK, TypeOK, FixedRendering
<1> QED
  BY <1>1, <1>2, <1>3, <1>4

LEMMA ChatCarries ==
    ASSUME ChatInv, SnapshotOK, [IngressNext]_ingressVars
    PROVE  ChatInv'
  BY DeliverySteps, ChatStep, PanicChat, PowerChat

\* Clients of an earlier process are gone with it.
LEMMA GoneStep ==
    ASSUME ClaimInv, GoneOK, [IngressNext]_ingressVars
    PROVE  GoneOK'
<1>1. disconnects \in Nat /\ gone \subseteq Requests
  BY DEF ClaimInv, TypeOK
<1>2. ASSUME gone' \subseteq gone, disconnects' = disconnects PROVE GoneOK'
  BY <1>2 DEF GoneOK
<1>3. CASE PowerLoss
  BY <1>3 DEF PowerLoss, GoneOK
<1>4. ASSUME NEW r \in Requests, Panic(r) PROVE GoneOK'
  BY <1>2, <1>4 DEF Panic, Reply
<1>5. CASE [Next]_vars
  <2>1. StepKinds
    BY <1>5, NextKinds
  <2>2. ASSUME Calm PROVE GoneOK'
    BY <1>2, <2>2 DEF Calm
  <2>3. ASSUME NEW r \in Requests, Disconnect(r) PROVE GoneOK'
    BY <1>1, <2>3 DEF Disconnect, GoneOK
  <2>4. ASSUME Sigterm \/ Restart \/ \E k \in Keys : BackoffElapses(k) PROVE GoneOK'
    BY <1>2, <2>4 DEF Sigterm, Restart, BackoffElapses, processVars
  <2>5. ASSUME Exit \/ Crash PROVE GoneOK'
    BY <2>5 DEF Exit, Crash, Down, GoneOK
  <2> QED
    BY <2>1, <2>2, <2>3, <2>4, <2>5 DEF StepKinds
<1> QED
  BY <1>3, <1>4, <1>5, DeliverySteps

LEMMA RowCarries ==
    ASSUME ChatInv, SnapshotOK, NEW k \in Keys, RowOK(k), [IngressNext]_ingressVars
    PROVE  RowOK(k)'
<1>1. CASE [Next]_vars
  <2>1. StepKinds
    BY <1>1, NextKinds DEF ChatInv
  <2> QED
    BY <2>1, RowOKStep
<1>2. CASE PowerLoss
  BY <1>2, PowerChat DEF RowOK, Shut, Closed, Terminal
<1>3. ASSUME NEW r \in Requests, Panic(r) PROVE RowOK(k)'
  BY <1>3, PanicAbandons, ShutAbandoned DEF ChatInv
<1> QED
  BY <1>1, <1>2, <1>3, DeliverySteps

-----------------------------------------------------------------------------
\* The steps of a request, as its client sees them.

\* A handler returns from few places, and a row gets into its hands in two ways.
RequestStep(r) ==
    /\ Others(r) /\ storeErrors' \in {storeErrors, storeErrors + 1}
    /\ disconnects' = disconnects
    /\ pc'[r] = "idle" => \/ pc[r] \in {"capacity", "lookup", "load"} \cup RotationPC
                          \/ Faulty(r)
    /\ pc[r] \in {"lookup", "load"} => db' = db
    /\ pc'[r] \in HeldPC => /\ job'[r].ev = job[r].ev
                            /\ \/ pc[r] \in HeldPC
                               \/ pc[r] = "lookup" /\ pc'[r] = "claim"
                               \/ pc[r] = "create" /\ ~Stored(db, job[r].ev)

LEMMA AcceptRequestStep ==
    ASSUME ClaimInv, NEW r \in Requests, AcceptWebhook(r)
    PROVE  RequestStep(r)
<1>T. TypeOK /\ r \in Threads
  BY DEF ClaimInv, Threads
<1>C. Calm
  BY RequestKinds
<1>D. storeErrors' \in {storeErrors, storeErrors + 1} /\ disconnects' = disconnects
  BY <1>C DEF Calm
<1>P. /\ "idle" \notin HeldPC /\ "capacity" \notin HeldPC /\ "lookup" \notin HeldPC
      /\ "rotate" \notin HeldPC /\ "create" \notin HeldPC /\ "queue" \in HeldPC
  BY DEF HeldPC, ProcessPC
\* The handler returns.
<1>R. ASSUME Reply(r),
             pc[r] \in {"capacity", "lookup", "load"} \cup RotationPC \/ Faulty(r),
             pc[r] \in {"lookup", "load"} => db' = db
      PROVE  RequestStep(r)
  BY <1>T, <1>D, <1>P, <1>R, ReplyEffect DEF RequestStep
\* It goes on with the same event.
<1>G. ASSUME NEW l, Goto(r, l), UNCHANGED job, l # "idle",
             pc[r] \in {"lookup", "load"} => db' = db,
             l \in HeldPC => \/ pc[r] \in HeldPC
                             \/ pc[r] = "lookup" /\ l = "claim"
                             \/ pc[r] = "create" /\ ~Stored(db, job[r].ev)
      PROVE  RequestStep(r)
  <2>1. pc'[r] = l /\ Others(r) /\ job'[r] = job[r]
    BY <1>T, <1>G, GotoEffect
  <2> QED
    BY <1>D, <1>G, <2>1 DEF RequestStep
<1>1. CASE EnsureCapacity(r)
  <2>1. CASE Reply(r)
    BY <1>1, <1>R, <2>1 DEF EnsureCapacity
  <2>2. ASSUME NEW l \in {"lookup", "rotate"}, Goto(r, l), UNCHANGED job
        PROVE  RequestStep(r)
    BY <1>1, <1>G, <1>P, <2>2 DEF EnsureCapacity
  <2> QED
    BY <1>1, <2>1, <2>2 DEF EnsureCapacity
<1>2. CASE Lookup(r)
  <2>1. pc[r] = "lookup" /\ db' = db
    BY <1>2, ExecEffect DEF Lookup
  <2>2. CASE Reply(r)
    BY <1>R, <2>1, <2>2
  <2>3. ASSUME NEW l \in {"create", "claim"}, Goto(r, l), UNCHANGED job
        PROVE  RequestStep(r)
    BY <1>G, <1>P, <2>1, <2>3
  <2> QED
    BY <1>2, <2>2, <2>3 DEF Lookup
<1>3. CASE Create(r)
  <2>1. pc[r] = "create"
    BY <1>3 DEF Create
  <2>2. ASSUME Reply(r), NEW new, ExecFails(r, new) PROVE RequestStep(r)
    BY <1>R, <2>1, <2>2, ExecCause
  <2>3. ASSUME ~Stored(db, job[r].ev), Goto(r, "queue"), UNCHANGED job PROVE RequestStep(r)
    BY <1>G, <2>1, <2>3
  <2>4. ASSUME Goto(r, "capacity"), UNCHANGED job PROVE RequestStep(r)
    BY <1>G, <1>P, <2>1, <2>4
  <2> QED
    BY <1>3, <2>2, <2>3, <2>4 DEF Create
<1>4. CASE Queue(r)
  <2>1. pc[r] = "queue"
    BY <1>4 DEF Queue
  <2>2. ASSUME Reply(r), NEW new, ExecFails(r, new) PROVE RequestStep(r)
    BY <1>R, <2>1, <2>2, ExecCause
  <2>3. ASSUME Goto(r, "claim"), UNCHANGED job PROVE RequestStep(r)
    BY <1>G, <1>P, <2>1, <2>3
  <2> QED
    BY <1>4, <2>2, <2>3 DEF Queue
<1>5. CASE Load(r)
  <2>1. pc[r] = "load" /\ db' = db /\ Reply(r)
    BY <1>5, ExecEffect DEF Load
  <2> QED
    BY <1>R, <2>1
<1> QED
  BY <1>1, <1>2, <1>3, <1>4, <1>5 DEF AcceptWebhook

LEMMA ProcessRequestStep ==
    ASSUME ClaimInv, NEW r \in Requests, Process(r)
    PROVE  RequestStep(r)
<1>T. r \in Threads /\ r # Worker
  BY DeliveryAssumption DEF Threads
<1>1. /\ WorksOn(r, job[r].ev) /\ UNCHANGED processVars /\ AttemptStep(r, job[r].ev)
      /\ storeErrors' \in {storeErrors, storeErrors + 1}
  BY <1>T, AttemptKinds
<1>2. pc[r] \in {"claim"} \cup ProcessPC
  BY <1>1
  DEF AttemptStep, Claimed, ClaimMissed, Rendered, RenderStops, Accepted, SendStops,
      Marked, MarkStops, Delivered, DeliverStops, Settled, ProcessPC
<1>3. pc'[r] \in {"next", "load"} \cup ProcessPC
  <2>1. \A p, n : LoopPC(p, n) \in ProcessPC
    BY DEF LoopPC, ProcessPC
  <2>2. "render" \in ProcessPC /\ "settle" \in ProcessPC /\ "mark" \in ProcessPC
    BY DEF ProcessPC
  <2> QED
    BY <1>1, <2>1, <2>2
    DEF AttemptStep, Claimed, ClaimMissed, Rendered, RenderStops, Accepted, SendStops,
        Marked, MarkStops, Delivered, DeliverStops, Settled, Stops
<1>4. ASSUME pc'[r] \in HeldPC PROVE job'[r].ev = job[r].ev
  <2>1. ClaimInv'
    BY <1>T, ClaimStep DEF Next
  <2>2. pc'[r] \notin {"idle", "next"} \cup RotationPC
    BY <1>4 DEF HeldPC, ProcessPC, RotationPC
  <2>3. job'[r].ev \in Keys
    BY <1>T, <2>1, <2>2 DEF ClaimInv, LocalsOK, LocalOK
  <2> QED
    BY <1>1, <2>3, DeliveryAssumption DEF WorksOn
<1>5. pc'[r] # "idle"
  BY <1>3 DEF ProcessPC
<1>6. pc[r] \in HeldPC /\ pc[r] \notin {"lookup", "load"}
  BY <1>2 DEF HeldPC, ProcessPC
<1> QED
  BY <1>1, <1>4, <1>5, <1>6 DEF RequestStep, WorksOn, processVars

LEMMA RotateOthers ==
    ASSUME ClaimInv, NEW t \in Threads, Rotate(t)
    PROVE  Others(t) /\ pc'[t] \in {"idle", "lookup"} \cup RotationPC
<1>T. TypeOK /\ (t # Worker => t \in Requests)
  BY DEF ClaimInv, Threads
<1>1. ASSUME t # Worker, Reply(t) PROVE Others(t) /\ pc'[t] = "idle"
  BY <1>T, <1>1, ReplyEffect
<1>2. ASSUME NEW l, Goto(t, l), UNCHANGED job PROVE Others(t) /\ pc'[t] = l
  BY <1>T, <1>2, GotoEffect
<1>3. ASSUME NEW e, EndRotation(t, e)
      PROVE  Others(t) /\ pc'[t] \in {"idle", "lookup"}
  BY <1>1, <1>2, <1>3 DEF EndRotation
<1> QED
  BY <1>2, <1>3 DEF Rotate, SelectVictims, DeleteVictims, RotationPC

LEMMA RotateRequestStep ==
    ASSUME ClaimInv, NEW r \in Requests, Rotate(r)
    PROVE  RequestStep(r)
<1>T. r \in Threads
  BY DEF Threads
<1>C. storeErrors' \in {storeErrors, storeErrors + 1} /\ disconnects' = disconnects
  BY <1>T, RotateKinds DEF Calm
<1>1. pc[r] \in RotationPC
  BY DEF Rotate, SelectVictims, DeleteVictims, RotationPC
<1>2. Others(r) /\ pc'[r] \in {"idle", "lookup"} \cup RotationPC
  BY <1>T, RotateOthers
<1>3. pc[r] \notin {"lookup", "load"}
  BY <1>1 DEF RotationPC
<1>4. pc'[r] \notin HeldPC
  BY <1>2 DEF RotationPC, HeldPC, ProcessPC
<1> QED
  BY <1>C, <1>1, <1>2, <1>3, <1>4 DEF RequestStep

LEMMA ServeStep ==
    ASSUME ClaimInv, NEW r \in Requests, Serve(r)
    PROVE  RequestStep(r)
  BY AcceptRequestStep, ProcessRequestStep, RotateRequestStep DEF Serve

\* What a status code of a returning handler says of the table and of the faults.
LEMMA CodeFacts ==
    ASSUME ClaimInv, GoneOK, NEW r \in Requests, RequestStep(r), pc'[r] = "idle"
    PROVE  /\ StatusCode(r) = 200 => /\ job[r].ev \in Keys
                                     /\ db[job[r].ev].status \in Terminal
           /\ StatusCode(r) = 502 => /\ job[r].ev \in Keys /\ pc[r] = "load"
                                     /\ ~call[r].dup
           /\ StatusCode(r) = 500 => disconnects' + storeErrors' > 0
<1> DEFINE status == db[job[r].ev].status
<1>T. /\ r \in Threads /\ r # Worker
      /\ disconnects \in Nat /\ storeErrors \in Nat
      /\ storeErrors' \in {storeErrors, storeErrors + 1} /\ disconnects' = disconnects
  BY DeliveryAssumption DEF ClaimInv, TypeOK, Threads, RequestStep
<1>F. ~NoError(r) \/ Faulty(r) => disconnects' + storeErrors' > 0
  <2>1. Cancelled(r) => disconnects > 0
    BY <1>T DEF Cancelled, GoneOK
  <2>2. ~NoError(r) \/ Faulty(r) => Cancelled(r) \/ storeErrors' = storeErrors + 1
    BY <1>T DEF NoError, Faulty
  <2>3. \A d, e \in Nat : d > 0 \/ e > 0 => d + e > 0
    OBVIOUS
  <2>4. storeErrors' \in Nat /\ disconnects' \in Nat
    BY <1>T
  <2>5. storeErrors' = storeErrors + 1 => storeErrors' > 0
    BY <1>T
  <2> QED
    BY <1>T, <2>1, <2>2, <2>3, <2>4, <2>5
<1>E. pc[r] \in {"lookup", "load"} => job[r].ev \in Keys
  BY <1>T DEF ClaimInv, LocalsOK, LocalOK
<1>A. pc[r] = "load" => status # "absent"
  <2>1. pc[r] = "load" => pc[r] \in HeldPC
    BY DEF HeldPC
  <2> QED
    BY <1>T, <2>1, InHand DEF Stored
<1>L. LoadedCode(status) \in {200, 202} /\ (LoadedCode(status) = 200 => status \in Terminal)
  BY DEF LoadedCode
<1>C. /\ AcceptedCode(call[r], status) \in {200, 202, 502}
      /\ AcceptedCode(call[r], status) = 200 => status \in Terminal
      /\ AcceptedCode(call[r], status) = 502 => ~call[r].dup
  BY <1>L DEF AcceptedCode
<1>1. CASE pc[r] \in {"capacity"} \cup RotationPC
  <2>1. StatusCode(r) = 503
    BY <1>1 DEF StatusCode, RotationPC
  <2> QED
    BY <2>1
<1>2. CASE pc[r] = "lookup" /\ NoError(r)
  <2>1. StatusCode(r) = LoadedCode(status)
    BY <1>2 DEF StatusCode
  <2> QED
    BY <1>2, <1>E, <1>L, <2>1
<1>3. CASE pc[r] = "load" /\ NoError(r)
  <2>1. StatusCode(r) = AcceptedCode(call[r], status)
    BY <1>3, <1>A DEF StatusCode
  <2> QED
    BY <1>3, <1>E, <1>C, <2>1
<1>4. CASE ~NoError(r) /\ pc[r] \in {"lookup", "load"}
  <2>1. StatusCode(r) = 500
    BY <1>4 DEF StatusCode
  <2> QED
    BY <1>4, <1>F, <2>1
<1>5. CASE Faulty(r) /\ pc[r] \notin {"capacity", "lookup", "load"} \cup RotationPC
  <2>1. StatusCode(r) = 500
    BY <1>5 DEF StatusCode, RotationPC
  <2> QED
    BY <1>5, <1>F, <2>1
<1> QED
  BY <1>1, <1>2, <1>3, <1>4, <1>5 DEF RequestStep

\* found is set once, before the row is in the hands of the handler.
LEMMA CallFacts ==
    ASSUME ClientTypes, NEW r \in Requests
    PROVE  /\ CallAfter(r) \in Call
           /\ pc'[r] \in HeldPC /\ ~(pc[r] = "lookup" /\ pc'[r] = "claim")
                => CallAfter(r).dup = call[r].dup
           /\ pc[r] = "lookup" /\ pc'[r] = "claim" => CallAfter(r).dup
<1>1. call[r] \in Call /\ NoCall \in Call
  BY DEF ClientTypes, Call, NoCall
<1>2. \A b \in BOOLEAN : /\ [call[r] EXCEPT !.err = b] \in Call
                         /\ [call[r] EXCEPT !.err = b].dup = call[r].dup
  BY <1>1 DEF Call
<1>3. (~NoError(r)) \in BOOLEAN
  OBVIOUS
<1>4. "idle" \notin HeldPC
  BY DEF HeldPC, ProcessPC
<1>5. CASE pc'[r] = "idle"
  BY <1>1, <1>4, <1>5 DEF CallAfter
<1>6. CASE pc[r] = "lookup" /\ pc'[r] = "claim"
  <2>1. CallAfter(r) = [dup |-> TRUE, err |-> FALSE]
    BY <1>6 DEF CallAfter
  <2> QED
    BY <1>6, <2>1 DEF Call
<1>7. CASE pc'[r] = "load" /\ pc[r] = "settle"
  <2>1. CallAfter(r) = [call[r] EXCEPT !.err = TRUE]
    BY <1>7 DEF CallAfter
  <2> QED
    BY <1>2, <1>7, <2>1
<1>8. CASE pc'[r] = "load" /\ pc[r] = "claim"
  <2>1. CallAfter(r) = [call[r] EXCEPT !.err = ~NoError(r)]
    BY <1>8 DEF CallAfter
  <2> QED
    BY <1>2, <1>3, <1>8, <2>1
<1>9. CASE /\ pc'[r] # "idle" /\ ~(pc[r] = "lookup" /\ pc'[r] = "claim")
           /\ ~(pc'[r] = "load" /\ pc[r] \in {"settle", "claim"})
  <2>1. CallAfter(r) = call[r]
    BY <1>9 DEF CallAfter
  <2> QED
    BY <1>1, <1>9, <2>1
<1> QED
  BY <1>5, <1>6, <1>7, <1>8, <1>9

-----------------------------------------------------------------------------
\* The steps that do not concern the requests that hold a row.

\* A request that has a row in hand is where it was.
Quiet == \A r \in Requests :
            pc'[r] \in HeldPC => /\ pc'[r] = pc[r] /\ job'[r].ev = job[r].ev
                                 /\ call'[r] = call[r]

LEMMA BackgroundQuiet ==
    ASSUME ClaimInv, Background
    PROVE  Quiet
<1>T. TypeOK /\ Worker \in Threads /\ \A r \in Requests : r \in Threads \ {Worker}
  BY DeliveryAssumption DEF ClaimInv, Threads
<1>C. call' = call
  BY DEF Background
<1>O. ASSUME Others(Worker) PROVE Quiet
  BY <1>O, <1>T, <1>C DEF Others, Quiet
<1>U. ASSUME UNCHANGED <<pc, job>> PROVE Quiet
  BY <1>U, <1>C DEF Quiet
<1>1. ASSUME Process(Worker) PROVE Quiet
  <2>1. WorksOn(Worker, job[Worker].ev)
    BY <1>1, <1>T, AttemptKinds
  <2> QED
    BY <1>O, <2>1 DEF WorksOn
<1>2. ASSUME Rotate(Worker) PROVE Quiet
  BY <1>2, <1>O, <1>T, RotateOthers
<1>3. ASSUME RecoveryTick \/ RotationTick PROVE Quiet
  <2>1. PICK l : Goto(Worker, l) /\ UNCHANGED job
    BY <1>3 DEF RecoveryTick, RotationTick
  <2> QED
    BY <1>O, <1>T, <2>1, GotoEffect
<1>4. ASSUME NextInBatch PROVE Quiet
  <2>1. PICK l : Goto(Worker, l) /\ (UNCHANGED job \/ \E j : job' = [job EXCEPT ![Worker] = j])
    BY <1>4 DEF NextInBatch
  <2> QED
    BY <1>O, <1>T, <2>1, GotoEffect
<1>5. ASSUME \/ \E r \in Requests : Disconnect(r)
             \/ Sigterm \/ Restart \/ \E k \in Keys : BackoffElapses(k)
      PROVE  Quiet
  BY <1>5, <1>U DEF Disconnect, Sigterm, Restart, BackoffElapses
<1> QED
  BY <1>1, <1>2, <1>3, <1>4, <1>5 DEF Background

LEMMA AdmitQuiet ==
    ASSUME ClaimInv, NEW r \in Requests, NEW k \in Keys, NEW o, Admit(r, k, o)
    PROVE  Quiet
<1>1. TypeOK /\ r \in Threads /\ Requests \subseteq Threads /\ call' = call
  BY DEF ClaimInv, Threads, Admit
<1>2. Goto(r, "capacity") /\ \E j : job' = [job EXCEPT ![r] = j]
  BY DEF Admit, Receive
<1>3. Others(r) /\ pc'[r] = "capacity"
  BY <1>1, <1>2, GotoEffect
<1>4. "capacity" \notin HeldPC
  BY DEF HeldPC, ProcessPC
<1> QED
  BY <1>1, <1>3, <1>4 DEF Quiet, Others

LEMMA PanicQuiet ==
    ASSUME ClaimInv, ClientTypes, NEW r \in Requests, Panic(r)
    PROVE  Quiet
<1>1. Others(r) /\ pc'[r] = "idle" /\ Requests \subseteq Threads
  BY PanicAbandons DEF Threads
<1>2. \A s \in Requests \ {r} : call'[s] = call[s]
  BY DEF Panic, ClientTypes
<1>3. "idle" \notin HeldPC
  BY DEF HeldPC, ProcessPC
<1> QED
  BY <1>1, <1>2, <1>3 DEF Quiet, Others

LEMMA DownQuiet ==
    ASSUME Stop \/ PowerLoss
    PROVE  Quiet
<1>1. pc' = [t \in Threads |-> "idle"]
  BY DEF Stop, Exit, Crash, Down, PowerLoss
<1>2. "idle" \notin HeldPC /\ Requests \subseteq Threads
  BY DEF HeldPC, ProcessPC, Threads
<1> QED
  BY <1>1, <1>2 DEF Quiet

LEMMA CreatorQuiet ==
    ASSUME Quiet, NEW k, CreatorOK(k), k \in bounced' => k \in bounced
    PROVE  CreatorOK(k)'
<1>1. \A r \in Requests : Fresh(r, k)' => Fresh(r, k)
  BY DEF Quiet, Fresh
<1>2. \A r, s \in Requests : Fresh(r, k)' /\ Fresh(s, k)' => r = s
  BY <1>1 DEF CreatorOK
<1>3. k \in bounced' => \A r \in Requests : ~Fresh(r, k)'
  BY <1>1 DEF CreatorOK
<1> QED
  BY <1>2, <1>3 DEF CreatorOK

\* A request that is served: the 502 is for the creator, and there is no other.
LEMMA CreatorServed ==
    ASSUME IngressInv, NEW r \in Requests, Serve(r), NEW k \in Keys
    PROVE  /\ CreatorOK(k)'
           /\ pc'[r] = "idle" /\ StatusCode(r) = 502 => job[r].ev \notin bounced
<1>T. /\ ClaimInv /\ GoneOK /\ ClientTypes /\ CreatorOK(k) /\ BouncedOK(k)
      /\ r \in Threads /\ Requests \subseteq Threads
  BY DEF IngressInv, ChatInv, Threads
<1>1. RequestStep(r)
  BY <1>T, ServeStep
<1>2. call' = [call EXCEPT ![r] = CallAfter(r)]
  BY DEF Serve
<1>3. /\ call'[r] = CallAfter(r)
      /\ \A s \in Requests \ {r} : call'[s] = call[s] /\ pc'[s] = pc[s] /\ job'[s] = job[s]
  BY <1>T, <1>1, <1>2 DEF ClientTypes, RequestStep, Others
<1>4. \A s \in Requests \ {r} : Fresh(s, k)' <=> Fresh(s, k)
  BY <1>3 DEF Fresh
<1>5. CASE pc'[r] \in HeldPC
  <2>1. pc'[r] # "idle"
    BY <1>5 DEF HeldPC, ProcessPC
  <2>2. k \in bounced' => k \in bounced
    BY <2>1 DEF Serve, NoAnswer, Remember
  <2>3. CASE pc[r] = "create" /\ ~Stored(db, job[r].ev) /\ job[r].ev = k
    <3>1. phase # "down"
      BY <1>T, <2>3, Running
    <3>2. k \notin bounced
      BY <1>T, <2>3, <3>1 DEF BouncedOK
    <3>3. \A s \in Requests : ~Fresh(s, k)
      BY <1>T, <2>3 DEF ClaimInv, HeldRowsOK, HoldsEvent, Fresh, HeldPC
    <3>4. \A s \in Requests : Fresh(s, k)' => s = r
      BY <1>4, <3>3
    <3>5. \A s, u \in Requests : Fresh(s, k)' /\ Fresh(u, k)' => s = u
      BY <3>4
    <3>6. k \notin bounced'
      BY <2>2, <3>2
    <3> QED
      BY <2>1, <3>5, <3>6 DEF CreatorOK
  <2>4. CASE ~(pc[r] = "create" /\ ~Stored(db, job[r].ev) /\ job[r].ev = k)
    <3>1. Fresh(r, k)' => Fresh(r, k)
      BY <1>T, <1>1, <1>3, <1>5, <2>4, CallFacts DEF RequestStep, Fresh
    <3>2. \A s \in Requests : Fresh(s, k)' => Fresh(s, k)
      BY <1>4, <3>1
    <3>3. \A s, u \in Requests : Fresh(s, k)' /\ Fresh(u, k)' => s = u
      BY <1>T, <3>2 DEF CreatorOK
    <3>4. k \in bounced' => \A s \in Requests : ~Fresh(s, k)'
      BY <1>T, <2>2, <3>2 DEF CreatorOK
    <3> QED
      BY <2>1, <3>3, <3>4 DEF CreatorOK
  <2> QED
    BY <2>3, <2>4
<1>6. CASE pc'[r] \notin HeldPC
  <2>1. ~Fresh(r, k)'
    BY <1>6 DEF Fresh
  <2>2. \A s \in Requests : Fresh(s, k)' => Fresh(s, k) /\ s # r
    BY <1>4, <2>1
  <2>3. pc'[r] = "idle" /\ StatusCode(r) = 502 => Fresh(r, job[r].ev) /\ job[r].ev \in Keys
    <3>1. "load" \in HeldPC
      BY DEF HeldPC
    <3> QED
      BY <1>T, <1>1, <3>1, CodeFacts DEF Fresh
  <2>4. pc'[r] = "idle" /\ StatusCode(r) = 502 => job[r].ev \notin bounced
    BY <2>3 DEF IngressInv, CreatorOK
  <2>5. k \in bounced' => k \in bounced \/ Fresh(r, k)
    <3>1. CASE pc'[r] = "idle"
      BY <2>3, <3>1 DEF Serve, Answers, Remember
    <3>2. CASE pc'[r] # "idle"
      BY <3>2 DEF Serve, NoAnswer, Remember
    <3> QED
      BY <3>1, <3>2
  <2>6. \A s, u \in Requests : Fresh(s, k)' /\ Fresh(u, k)' => s = u
    BY <1>T, <2>2 DEF CreatorOK
  <2>7. k \in bounced' => \A s \in Requests : ~Fresh(s, k)'
    BY <1>T, <2>2, <2>5 DEF CreatorOK
  <2> QED
    BY <2>4, <2>6, <2>7 DEF CreatorOK
<1> QED
  BY <1>5, <1>6

-----------------------------------------------------------------------------
\* The answers.

LEMMA RememberStep ==
    ASSUME IngressInv, NEW closed, NEW refused, Remember(closed, refused),
           StepKinds \/ \A k \in Keys : Abandoned(k),
           \A k \in closed : k \in Keys /\ db[k].status \in Terminal,
           refused \subseteq Keys, bounced \cap refused = {}
    PROVE  /\ told' \subseteq Keys /\ bounced' \subseteq Keys /\ OneBadGateway'
           /\ \A k \in Keys : ToldOK(k)' /\ BouncedOK(k)'
<1>T. ChatInv /\ ClaimInv /\ told \subseteq Keys /\ bounced \subseteq Keys /\ rebounced = {}
  BY DEF IngressInv, ChatInv, ClientTypes, OneBadGateway
<1>1. told' \subseteq Keys /\ bounced' \subseteq Keys /\ rebounced' = {}
  BY <1>T DEF Remember
<1>2. ASSUME NEW k \in Keys PROVE BouncedOK(k)'
  BY DEF Remember, BouncedOK
<1>3. ASSUME NEW k \in Keys PROVE ToldOK(k)'
  <2> SUFFICES ASSUME k \in told' PROVE Stored(db', k) /\ Shut(k)'
    BY DEF ToldOK
  <2>1. k \in told \cup closed /\ Stored(db', k)
    BY DEF Remember
  <2>2. RowOK(k) /\ ToldOK(k)
    BY DEF IngressInv
  <2>3. Stored(db, k) /\ Shut(k)
    <3>1. CASE k \in told
      BY <2>2, <3>1 DEF ToldOK
    <3>2. CASE k \in closed
      <4>1. db[k].status \in Terminal
        BY <3>2
      <4>2. Stored(db, k)
        BY <4>1 DEF Terminal, Stored
      <4> QED
        BY <1>T, <2>2, <4>1, <4>2, TerminalShut
    <3> QED
      BY <2>1, <3>1, <3>2
  <2>4. CASE StepKinds
    BY <1>T, <2>1, <2>3, <2>4, ShutStep
  <2>5. CASE \A i \in Keys : Abandoned(i)
    BY <2>1, <2>3, <2>5, ShutAbandoned
  <2> QED
    BY <2>1, <2>4, <2>5
<1> QED
  BY <1>1, <1>2, <1>3 DEF OneBadGateway

\* What a step has to do with the clients.
ClientsOK ==
    /\ ClientTypes /\ OneBadGateway /\ ServerErrorHasCause
    /\ \A k \in Keys : ToldOK(k) /\ CreatorOK(k) /\ BouncedOK(k)

\* A step of the pipeline that answers nobody.
LEMMA SilentStep ==
    ASSUME IngressInv, StepKinds, NoAnswer, Quiet, call' \in [Requests -> Call],
           panics' = panics
    PROVE  ClientsOK'
<1>1. Remember({}, {}) /\ reply' = 0 /\ panics \in Nat
  BY DEF NoAnswer, IngressInv, ClientTypes
<1>2. /\ told' \subseteq Keys /\ bounced' \subseteq Keys /\ OneBadGateway'
      /\ \A k \in Keys : ToldOK(k)' /\ BouncedOK(k)'
  BY <1>1, RememberStep
<1>3. ASSUME NEW k \in Keys PROVE CreatorOK(k)'
  <2>1. CreatorOK(k) /\ (k \in bounced' => k \in bounced)
    BY <1>1 DEF IngressInv, Remember
  <2> QED
    BY <2>1, CreatorQuiet
<1>4. ServerErrorHasCause'
  BY <1>1 DEF ServerErrorHasCause
<1>5. ClientTypes'
  BY <1>1, <1>2 DEF ClientTypes
<1> QED
  BY <1>2, <1>3, <1>4, <1>5 DEF ClientsOK

\* A step of a request, with its answer if it is the last.
LEMMA ServedStep ==
    ASSUME IngressInv, NEW r \in Requests, Serve(r), StepKinds
    PROVE  ClientsOK'
<1>T. ClaimInv /\ GoneOK /\ ClientTypes /\ panics' = panics
  BY DEF IngressInv, ChatInv, Serve
<1>1. RequestStep(r)
  BY <1>T, ServeStep
<1>2. call' \in [Requests -> Call]
  BY <1>T, CallFacts DEF Serve, ClientTypes
<1>3. \A k \in Keys : CreatorOK(k)'
  BY CreatorServed
<1>4. CASE pc'[r] # "idle"
  <2>1. Remember({}, {}) /\ reply' = 0
    BY <1>4 DEF Serve, NoAnswer
  <2>2. /\ told' \subseteq Keys /\ bounced' \subseteq Keys /\ OneBadGateway'
        /\ \A k \in Keys : ToldOK(k)' /\ BouncedOK(k)'
    BY <2>1, RememberStep
  <2>3. ServerErrorHasCause' /\ ClientTypes'
    BY <1>T, <1>2, <2>1, <2>2 DEF ServerErrorHasCause, ClientTypes
  <2> QED
    BY <1>3, <2>2, <2>3 DEF ClientsOK
<1>5. CASE pc'[r] = "idle"
  <2> DEFINE code == StatusCode(r)
             event == IF r \in gone THEN {} ELSE {job[r].ev}
             closed == IF code = 200 THEN event ELSE {}
             refused == IF code = 502 THEN event ELSE {}
  <2>1. Remember(closed, refused) /\ reply' = code
    BY <1>5 DEF Serve, Answers
  <2>2. /\ code = 200 => job[r].ev \in Keys /\ db[job[r].ev].status \in Terminal
        /\ code = 502 => job[r].ev \in Keys
        /\ code = 500 => disconnects' + storeErrors' > 0
    BY <1>T, <1>1, <1>5, CodeFacts
  <2>3. \A k \in closed : k \in Keys /\ db[k].status \in Terminal
    BY <2>2
  <2>4. code = 502 => job[r].ev \notin bounced
    <3>1. code = 502 => job[r].ev \in Keys
      BY <2>2
    <3> QED
      BY <1>5, <3>1, CreatorServed
  <2>5. refused \subseteq Keys /\ bounced \cap refused = {}
    BY <2>2, <2>4
  <2> HIDE DEF code, closed, refused
  <2>6. /\ told' \subseteq Keys /\ bounced' \subseteq Keys /\ OneBadGateway'
        /\ \A k \in Keys : ToldOK(k)' /\ BouncedOK(k)'
    BY <2>1, <2>3, <2>5, RememberStep
  <2>7. ServerErrorHasCause'
    <3>1. panics' \in Nat /\ disconnects' \in Nat /\ storeErrors' \in Nat
      BY <1>T, <1>1 DEF ClientTypes, ClaimInv, TypeOK, RequestStep
    <3>2. \A d, e, p \in Nat : d + e > 0 => d + e + p > 0
      OBVIOUS
    <3> QED
      BY <2>1, <2>2, <3>1, <3>2 DEF ServerErrorHasCause
  <2>8. ClientTypes'
    BY <1>T, <1>2, <2>6 DEF ClientTypes
  <2> QED
    BY <1>3, <2>6, <2>7, <2>8 DEF ClientsOK
<1> QED
  BY <1>4, <1>5

LEMMA PanickedStep ==
    ASSUME IngressInv, NEW r \in Requests, Panic(r)
    PROVE  ClientsOK'
<1>T. ClaimInv /\ ClientTypes /\ disconnects \in Nat /\ storeErrors \in Nat
  BY DEF IngressInv, ChatInv, ClaimInv, TypeOK
<1>1. Remember({}, {}) /\ panics' = panics + 1
  BY DEF Panic, Answers
<1>2. /\ told' \subseteq Keys /\ bounced' \subseteq Keys /\ OneBadGateway'
      /\ \A k \in Keys : ToldOK(k)' /\ BouncedOK(k)'
  BY <1>T, <1>1, PanicAbandons, RememberStep
<1>3. Quiet
  BY <1>T, PanicQuiet
<1>4. ASSUME NEW k \in Keys PROVE CreatorOK(k)'
  <2>1. CreatorOK(k) /\ (k \in bounced' => k \in bounced)
    BY <1>1 DEF IngressInv, Remember
  <2> QED
    BY <1>3, <2>1, CreatorQuiet
<1>5. panics' \in Nat /\ panics' > 0
  BY <1>T, <1>1 DEF ClientTypes
<1>6. disconnects' = disconnects /\ storeErrors' = storeErrors
  BY DEF Panic, Reply, storeVars
<1>7. ServerErrorHasCause'
  <2>1. \A d, e, p \in Nat : p > 0 => d + e + p > 0
    OBVIOUS
  <2>2. disconnects' + storeErrors' + panics' > 0
    BY <1>T, <1>5, <1>6, <2>1
  <2> QED
    BY <2>2 DEF ServerErrorHasCause
<1>8. call' \in [Requests -> Call]
  BY <1>T DEF Panic, ClientTypes, Call, NoCall
<1>9. ClientTypes'
  BY <1>2, <1>5, <1>8 DEF ClientTypes
<1> QED
  BY <1>2, <1>4, <1>7, <1>9 DEF ClientsOK

\* After a power loss only the answers for rows that were synced are kept.
LEMMA PowerStep ==
    ASSUME IngressInv, PowerLoss
    PROVE  ClientsOK'
<1>T. ChatInv /\ SnapshotOK /\ ClientTypes /\ OneBadGateway
  BY DEF IngressInv
<1>1. /\ told' = {k \in told : db[k] = synced.db[k]} /\ db' = synced.db
      /\ overwritten' = overwritten \cup synced.overwritten
      /\ call' = [r \in Requests |-> NoCall] /\ reply' = 0 /\ phase' = "down"
      /\ UNCHANGED <<bounced, rebounced, panics>>
  BY DEF PowerLoss
<1>2. \A k \in Keys : Owners(k)' = {}
  BY <1>T, PowerChat
<1>3. ASSUME NEW k \in Keys PROVE ToldOK(k)'
  <2> SUFFICES ASSUME k \in told' PROVE Stored(db', k) /\ Shut(k)'
    BY DEF ToldOK
  <2>1. k \in told /\ db'[k] = db[k] /\ (k \in overwritten => k \in overwritten')
    BY <1>1
  <2>2. Stored(db, k) /\ Shut(k)
    BY <2>1 DEF IngressInv, ToldOK
  <2> QED
    BY <1>2, <2>1, <2>2 DEF Stored, Shut, Closed, Spent
<1>4. ASSUME NEW k \in Keys PROVE CreatorOK(k)'
  <2>1. Quiet
    BY DownQuiet
  <2>2. CreatorOK(k) /\ (k \in bounced' => k \in bounced)
    BY <1>1 DEF IngressInv
  <2> QED
    BY <2>1, <2>2, CreatorQuiet
<1>5. \A k \in Keys : BouncedOK(k)'
  BY <1>1 DEF BouncedOK
<1>6. ServerErrorHasCause' /\ OneBadGateway'
  BY <1>T, <1>1 DEF ServerErrorHasCause, OneBadGateway
<1>7. ClientTypes'
  BY <1>T, <1>1 DEF ClientTypes, Call, NoCall
<1> QED
  BY <1>3, <1>4, <1>5, <1>6, <1>7 DEF ClientsOK

\* A request that is refused at the door touches nothing.
LEMMA RefusedStep ==
    ASSUME IngressInv, UNCHANGED <<vars, call, told, bounced, rebounced, panics>>,
           reply' = 500 => reply = 500
    PROVE  ClientsOK'
<1>1. /\ UNCHANGED <<db, pc, job, phase, overwritten, disconnects, storeErrors>>
      /\ UNCHANGED <<call, told, bounced, rebounced, panics>>
  BY DEF vars
<1>2. \A k : Owners(k)' = Owners(k)
  BY <1>1 DEF Owners
<1>3. \A k : Shut(k) => Shut(k)'
  BY <1>1, <1>2 DEF Shut, Closed, Spent
<1>4. \A k \in Keys : ToldOK(k)' /\ BouncedOK(k)'
  BY <1>1, <1>3 DEF IngressInv, ToldOK, BouncedOK
<1>5. \A k \in Keys : CreatorOK(k)'
  BY <1>1 DEF IngressInv, CreatorOK, Fresh
<1>6. ClientTypes' /\ OneBadGateway' /\ ServerErrorHasCause'
  BY <1>1 DEF IngressInv, ClientTypes, OneBadGateway, ServerErrorHasCause
<1> QED
  BY <1>4, <1>5, <1>6 DEF ClientsOK

LEMMA ClientStep ==
    ASSUME IngressInv, [IngressNext]_ingressVars
    PROVE  ClientsOK'
<1>T. ClaimInv /\ ClientTypes /\ panics \in Nat
  BY DEF IngressInv, ChatInv, ClientTypes
<1>K. ASSUME [Next]_vars PROVE StepKinds
  BY <1>T, <1>K, NextKinds
<1>C. [r \in Requests |-> NoCall] \in [Requests -> Call]
  BY DEF Call, NoCall
<1>D. Requests \subseteq Threads /\ Worker \in Threads
  BY DEF Threads
<1>1. CASE UNCHANGED ingressVars
  BY <1>1, RefusedStep DEF ingressVars, clientVars, machineVars
<1>2. ASSUME NEW r \in Requests, NEW o \in Offers, Refuse(r, o) PROVE ClientsOK'
  <2>1. reply' # 500
    BY <1>2 DEF Refuse, Refusal
  <2> QED
    BY <1>2, <2>1, RefusedStep DEF Refuse, machineVars
<1>3. ASSUME NEW r \in Requests, NEW k \in Keys, NEW o \in Offers, Admit(r, k, o)
      PROVE  ClientsOK'
  <2>1. Next
    BY <1>3 DEF Admit, Next
  <2> QED
    BY <1>T, <1>K, <1>3, <2>1, AdmitQuiet, SilentStep DEF Admit, ClientTypes
<1>4. ASSUME NEW r \in Requests, Serve(r) PROVE ClientsOK'
  <2>1. Next
    BY <1>D, <1>4 DEF Serve, Next
  <2> QED
    BY <1>K, <1>4, <2>1, ServedStep
<1>5. ASSUME NEW r \in Requests, Panic(r) PROVE ClientsOK'
  BY <1>5, PanickedStep
<1>6. CASE Background
  <2>1. Next
    BY <1>D, <1>6 DEF Background, Next, Environment
  <2>2. NoAnswer /\ call' = call /\ panics' = panics
    BY <1>6 DEF Background
  <2> QED
    BY <1>T, <1>K, <1>6, <2>1, <2>2, BackgroundQuiet, SilentStep DEF ClientTypes
<1>7. CASE Stop
  <2>1. Next /\ NoAnswer /\ call' = [r \in Requests |-> NoCall] /\ panics' = panics
    BY <1>7 DEF Stop, Next, Environment
  <2> QED
    BY <1>C, <1>K, <1>7, <2>1, DownQuiet, SilentStep
<1>8. CASE Sync
  <2>1. UNCHANGED vars /\ NoAnswer /\ call' = call /\ panics' = panics
    BY <1>8 DEF Sync
  <2>2. Quiet
    BY <2>1 DEF vars, Quiet
  <2> QED
    BY <1>T, <1>K, <2>1, <2>2, SilentStep DEF ClientTypes
<1>9. CASE PowerLoss
  BY <1>9, PowerStep
<1> QED
  BY <1>1, <1>2, <1>3, <1>4, <1>5, <1>6, <1>7, <1>8, <1>9 DEF IngressNext

-----------------------------------------------------------------------------
LEMMA IngressStart == IngressInit => IngressInv
<1> SUFFICES ASSUME IngressInit PROVE IngressInv
  OBVIOUS
<1>1. Init /\ ChatInv /\ TypeOK
  BY ChatInit DEF IngressInit, ChatInv, ClaimInv
<1>2. \A k \in Keys : db[k].status = "absent" /\ ChatOK(k) /\ ExactOK(k)
  BY <1>1 DEF Init, NoRow, ChatInv
<1>3. SnapshotOK
  <2>1. CASE synced = NoSnapshot
    BY <2>1 DEF SnapshotOK
  <2>2. CASE synced = [db |-> db, reached |-> reached, overwritten |-> overwritten]
    <3>1. synced.db = db /\ synced.reached = reached /\ synced.overwritten = overwritten
      BY <2>2
    <3>2. \A k \in Keys :
            /\ FixedRendering \/ k \notin overwritten =>
                 /\ db[k].parts = <<>> => db[k].sent = 0
                 /\ Posted(reached[k], db[k].parts, db[k].sent)
                 /\ db[k].status = "delivered" => reached[k] = Alerts
            /\ k \notin overwritten => db[k].sent <= Len(db[k].parts)
      BY <1>2 DEF ChatOK, ExactOK, Good
    <3> QED
      BY <1>1, <3>1, <3>2 DEF SnapshotOK, TypeOK
  <2> QED
    BY <2>1, <2>2 DEF IngressInit
<1>4. GoneOK
  BY <1>1 DEF Init, GoneOK
<1>5. ClientTypes /\ OneBadGateway /\ ServerErrorHasCause
  BY DEF IngressInit, ClientTypes, Call, NoCall, OneBadGateway, ServerErrorHasCause
<1>6. ASSUME NEW k \in Keys PROVE RowOK(k) /\ ToldOK(k) /\ CreatorOK(k) /\ BouncedOK(k)
  <2>1. \A r \in Requests : pc[r] = "idle"
    BY <1>1 DEF Init, Threads
  <2>2. \A r \in Requests : ~Fresh(r, k)
    BY <2>1 DEF Fresh, HeldPC, ProcessPC
  <2> QED
    BY <1>2, <2>2 DEF IngressInit, RowOK, ToldOK, CreatorOK, BouncedOK
<1> QED
  BY <1>1, <1>3, <1>4, <1>5, <1>6 DEF IngressInv

LEMMA IngressStep == IngressInv /\ [IngressNext]_ingressVars => IngressInv'
<1> SUFFICES ASSUME IngressInv, [IngressNext]_ingressVars PROVE IngressInv'
  OBVIOUS
<1>T. ChatInv /\ ClaimInv /\ SnapshotOK /\ GoneOK
  BY DEF IngressInv, ChatInv
<1>1. ChatInv' /\ SnapshotOK' /\ GoneOK'
  BY <1>T, ChatCarries, SnapshotStep, GoneStep
<1>2. \A k \in Keys : RowOK(k)'
  BY <1>T, RowCarries DEF IngressInv
<1>3. ClientsOK'
  BY ClientStep
<1> QED
  BY <1>1, <1>2, <1>3 DEF IngressInv, ClientsOK

\* Told is told (README.md:58 and README.md:804), for any number of clients,
\* events and faults: once a client has heard that its event is delivered, failed
\* or a dead letter, no goroutine is about to render or send any of it, unless
\* MarkQueued reopened the row or a power loss took the row back.
THEOREM ToldIsTold == IngressSpec => []ClosedIsNotResent
<1>1. IngressInv => ClosedIsNotResent
  BY DEF IngressInv, ClientTypes, ToldOK, Shut, Closed, Spent, ClosedIsNotResent
<1> QED
  BY <1>1, IngressStart, IngressStep, PTL DEF IngressSpec

\* One 502 per life of a row (alert_service.go:124): only the handler that
\* inserted the row answers it, and it answers once.
THEOREM SingleBadGateway == IngressSpec => []OneBadGateway
<1>1. IngressInv => OneBadGateway
  BY DEF IngressInv
<1> QED
  BY <1>1, IngressStart, IngressStep, PTL DEF IngressSpec

\* A 500 is never the outcome of a race (alert_service.go:144): some client hung up,
\* some statement failed or some handler panicked before it.
THEOREM CausedServerErrors == IngressSpec => []ServerErrorHasCause
<1>1. IngressInv => ServerErrorHasCause
  BY DEF IngressInv
<1> QED
  BY <1>1, IngressStart, IngressStep, PTL DEF IngressSpec

\* At-least-once, exclusive claims and explained repetitions survive panics and
\* power losses too: a rolled back table is behind the chat, never ahead of it.
THEOREM PowerSafe ==
    IngressSpec => [](DeliveredIsComplete /\ OnlyKnownDuplicates /\ ClaimIsExclusive)
<1>1. IngressInv => DeliveredIsComplete /\ OnlyKnownDuplicates /\ ClaimIsExclusive
  BY DEF IngressInv, ChatInv, ChatOK, Good, DeliveredIsComplete, ClaimInv, OwnersOK,
         ClaimIsExclusive
<1> QED
  BY <1>1, IngressStart, IngressStep, PTL DEF IngressSpec
=============================================================================
