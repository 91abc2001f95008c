------------------------------ MODULE Delivery ------------------------------
(***************************************************************************)
(* The delivery pipeline of the proxy: the webhook handlers                *)
(* (AlertService.AcceptWebhook, one goroutine per request), the background *)
(* worker (DeliveryService.Run), the deliveries table they share, Telegram *)
(* and the life of the process.                                            *)
(*                                                                         *)
(* A step of a goroutine is one store statement or one Telegram call       *)
(* together with the local computation that follows it.  Between two steps *)
(* of a goroutine every other goroutine, a client disconnect, SIGTERM, a   *)
(* crash or the passing of time may intervene.                             *)
(***************************************************************************)
EXTENDS Store

CONSTANTS
    Requests,             \* webhook requests served at the same time
    Worker,               \* the goroutine of DeliveryService.Run
    NoKey,                \* a goroutine that works on no event
    Unrenderable,         \* events whose payload or message cannot be built
    MaxDeliveryAttempts,  \* MAX_DELIVERY_ATTEMPTS
    WorkerBatchSize,      \* WORKER_BATCH_SIZE
    StoreRotationEnabled, \* STORE_ROTATION_ENABLED
    MaxRestarts,          \* bound: times the process stops (SIGTERM or crash)
    MaxDisconnects,       \* bound: requests whose client goes away
    MaxStoreErrors        \* bound: statements that fail for lack of disk or I/O

ASSUME DeliveryAssumption ==
    /\ Worker \notin Requests
    /\ NoKey \notin Keys \cup Requests \cup {Worker}
    /\ Unrenderable \subseteq Keys
    /\ MaxDeliveryAttempts \in Nat \ {0}
    /\ WorkerBatchSize \in Nat \ {0}
    /\ StoreRotationEnabled \in BOOLEAN
    /\ MaxRestarts \in Nat
    /\ MaxDisconnects \in Nat
    /\ MaxStoreErrors \in Nat

Threads == Requests \cup {Worker}
NoThread == NoKey

VARIABLES
    db,           \* the deliveries table
    pc,           \* what each goroutine does next
    job,          \* the locals of each goroutine: the claimed record and its plan
    batch,        \* the ids the worker still has to process in this tick
    victims,      \* the candidates rotation is about to delete
    rotateMu,     \* holder of DeliveryService.rotateMu
    phase,        \* the process: up, stopping (SIGTERM received), down
    gone,         \* requests whose client has disconnected
    restarts, disconnects, storeErrors,    \* faults so far
    reached,      \* what Telegram has accepted of each event
    repeated,     \* events of which Telegram accepted something twice
    unrecorded,   \* events with an accepted part the store did not record
    overwritten,  \* events whose MarkQueued hit a row already claimed
    tries         \* sends of each event that Telegram or the network refused

storeVars == <<db, storeErrors>>
rotationVars == <<victims, rotateMu>>
processVars == <<phase, gone, restarts, disconnects>>
chatVars == <<reached, repeated>>
ghostVars == <<unrecorded, overwritten, tries>>
vars == <<db, pc, job, batch, victims, rotateMu, phase, gone, restarts,
          disconnects, storeErrors, reached, repeated, unrecorded, overwritten,
          tries>>

(***************************************************************************)
(* Locals.  ev: the event.  parts, sent, attempts: the record ClaimForSend *)
(* returned.  to, wait, bg: the status a failed attempt is to be given,    *)
(* whether with a retry time in the future, and whether on a background    *)
(* context.                                                                *)
(***************************************************************************)
Job == [ev : Keys \cup {NoKey},
        parts : Renderings \cup {<<>>}, sent : Nat, attempts : Nat,
        to : {"none", "retry_scheduled", "failed", "dead_letter"},
        wait : BOOLEAN, bg : BOOLEAN]

NoJob == [ev |-> NoKey, parts |-> <<>>, sent |-> 0, attempts |-> 0,
          to |-> "none", wait |-> FALSE, bg |-> FALSE]

RotationPC == {"rotate", "delete"}
ProcessPC == {"render", "send", "mark", "deliver", "settle"}
RequestPC == {"capacity", "lookup", "create", "queue", "load"}
PC == {"idle", "next", "claim"} \cup RotationPC \cup ProcessPC \cup RequestPC

Init ==
    /\ db = [k \in Keys |-> NoRow]
    /\ pc = [t \in Threads |-> "idle"]
    /\ job = [t \in Threads |-> NoJob]
    /\ batch = {}
    /\ victims = {}
    /\ rotateMu = NoThread
    /\ phase = "up"
    /\ gone = {}
    /\ restarts = 0
    /\ disconnects = 0
    /\ storeErrors = 0
    /\ reached = [k \in Keys |-> {}]
    /\ repeated = {}
    /\ unrecorded = {}
    /\ overwritten = {}
    /\ tries = [k \in Keys |-> 0]

-----------------------------------------------------------------------------
\* Contexts and store statements.

\* ctx.Err() # nil: SIGTERM for the worker, a client disconnect for a request.
Cancelled(t) == (t = Worker /\ phase # "up") \/ t \in gone

\* A statement that fails for reasons of its own leaves the table alone.
StoreFault ==
    /\ storeErrors < MaxStoreErrors
    /\ storeErrors' = storeErrors + 1
    /\ db' = db

\* The statement returns nil.
Succeeds(new) == db' = new /\ UNCHANGED storeErrors

\* ExecContext returns nil on a context that was not cancelled in time.
ExecOK(t, new) == ~Cancelled(t) /\ Succeeds(new)

\* ExecContext returns an error.  A context cancelled while the statement runs
\* does not tell whether the statement took effect.
ExecFails(t, new) ==
    \/ Cancelled(t) /\ db' \in {db, new} /\ UNCHANGED storeErrors
    \/ StoreFault

Goto(t, l) == pc' = [pc EXCEPT ![t] = l]

\* The handler returns: the goroutine of the request ends.
Reply(r) ==
    /\ Goto(r, "idle")
    /\ job' = [job EXCEPT ![r] = NoJob]
    /\ gone' = gone \ {r}
    /\ UNCHANGED <<phase, restarts, disconnects>>

\* ProcessEventByID returns to RecoverPending or to AcceptWebhook.  An error only
\* changes the status code of the reply.
Return(t) ==
    /\ Goto(t, IF t = Worker THEN "next" ELSE "load")
    /\ job' = [job EXCEPT ![t] = IF t = Worker THEN NoJob
                                 ELSE [NoJob EXCEPT !.ev = job[t].ev]]

\* A goroutine that has the event id of k in hand, or in its batch.
HoldsEvent(t, k) ==
    \/ job[t].ev = k /\ pc[t] \in {"queue", "claim", "load"} \cup ProcessPC
    \/ t = Worker /\ k \in batch

-----------------------------------------------------------------------------
\* AlertService.AcceptWebhook, one action per store statement.

\* webhookReceiver hands a decoded payload to AcceptWebhook.
Receive(r, k) ==
    /\ phase = "up"
    /\ pc[r] = "idle"
    /\ Goto(r, "capacity")
    /\ job' = [job EXCEPT ![r] = [@ EXCEPT !.ev = k]]
    /\ UNCHANGED <<storeVars, batch, rotationVars, processVars, chatVars, ghostVars>>

\* EnsureCapacity: file size and watermarks are not modelled here, so each of its
\* three outcomes is possible whenever the configuration allows it.
EnsureCapacity(r) ==
    /\ pc[r] = "capacity"
    /\ \/ /\ Goto(r, "lookup")
          /\ UNCHANGED <<job, processVars>>
       \/ Reply(r)                                                   \* 503
       \/ /\ StoreRotationEnabled
          /\ Goto(r, "rotate")
          /\ UNCHANGED <<job, processVars>>
    /\ UNCHANGED <<storeVars, batch, rotationVars, chatVars, ghostVars>>

\* GetByIdempotencyKey: a terminal row answers 200, a row in progress is
\* processed on behalf of this request, no row means a new event.
Lookup(r) ==
    LET status == db[job[r].ev].status IN
    /\ pc[r] = "lookup"
    /\ \/ ExecOK(r, db) /\ status \in Terminal /\ Reply(r)           \* 200
       \/ /\ ExecOK(r, db)
          /\ status \notin Terminal
          /\ Goto(r, IF status = "absent" THEN "create" ELSE "claim")
          /\ UNCHANGED <<job, processVars>>
       \/ ExecFails(r, db) /\ Reply(r)                               \* 500
    /\ UNCHANGED <<batch, rotationVars, chatVars, ghostVars>>

\* The history of an event starts when its row is inserted.
NewEvent(k) ==
    /\ reached' = [reached EXCEPT ![k] = {}]
    /\ tries' = [tries EXCEPT ![k] = 0]
    /\ repeated' = repeated \ {k}
    /\ unrecorded' = unrecorded \ {k}
    /\ overwritten' = overwritten \ {k}

\* CreateReceived: the UNIQUE key turns a lost race into ErrAlreadyExists, and
\* AcceptWebhook calls itself again.
Create(r) ==
    LET k == job[r].ev IN
    /\ pc[r] = "create"
    /\ \/ /\ ~Stored(db, k)
          /\ \/ /\ ExecOK(r, CreateReceived(db, k))
                /\ Goto(r, "queue")
                /\ UNCHANGED <<job, processVars>>
             \/ ExecFails(r, CreateReceived(db, k)) /\ Reply(r)          \* 500
          /\ IF db' # db THEN NewEvent(k)
                         ELSE UNCHANGED <<chatVars, unrecorded, overwritten, tries>>
       \/ /\ Stored(db, k)
          /\ \/ /\ ExecOK(r, db)
                /\ Goto(r, "capacity")
                /\ UNCHANGED <<job, processVars>>
             \/ ExecFails(r, db) /\ Reply(r)                             \* 500
          /\ UNCHANGED <<chatVars, unrecorded, overwritten, tries>>
    /\ UNCHANGED <<batch, rotationVars>>

\* MarkQueued, whatever became of the row since it was inserted.
Queue(r) ==
    LET k == job[r].ev IN
    /\ pc[r] = "queue"
    /\ \/ /\ ExecOK(r, MarkQueued(db, k))
          /\ Goto(r, "claim")
          /\ UNCHANGED <<job, processVars>>
       \/ ExecFails(r, MarkQueued(db, k)) /\ Reply(r)                \* 500
    /\ overwritten' = IF db' # db /\ db[k].status # "received"
                      THEN overwritten \cup {k} ELSE overwritten
    /\ UNCHANGED <<batch, rotationVars, chatVars, unrecorded, tries>>

\* loadAcceptResult reads the row again for the status code of the reply.
Load(r) ==
    /\ pc[r] = "load"
    /\ ExecOK(r, db) \/ ExecFails(r, db)
    /\ Reply(r)                                       \* 200, 202, 502 or 500
    /\ UNCHANGED <<batch, rotationVars, chatVars, ghostVars>>

-----------------------------------------------------------------------------
\* DeliveryService.ProcessEventByID, run by requests and by the worker.

\* A slip: the loop stops one part early.
LoopEndsEarly(parts, sent) == IF sent + 1 < Len(parts) THEN "send" ELSE "deliver"

\* The send loop starts at sent_parts and ends with MarkDelivered.
LoopPC(parts, sent) == IF sent < Len(parts) THEN "send" ELSE "deliver"

Claim(t) ==
    LET k == job[t].ev  new == ClaimForSend(db, k) IN
    /\ pc[t] = "claim"
    /\ \/ /\ Claimable(db, k)
          /\ ExecOK(t, new)
          /\ job' = [job EXCEPT ![t] = [@ EXCEPT !.parts = db[k].parts,
                                !.sent = db[k].sent, !.attempts = db[k].attempts + 1]]
          /\ Goto(t, IF db[k].parts = <<>> THEN "render"
                     ELSE LoopPC(db[k].parts, db[k].sent))
       \/ Claimable(db, k) /\ ExecFails(t, new) /\ Return(t)
       \/ ~Claimable(db, k) /\ (ExecOK(t, db) \/ ExecFails(t, db)) /\ Return(t)
    /\ UNCHANGED <<batch, rotationVars, processVars, chatVars, ghostVars>>

\* The attempt is over: what is to become of the row, and on which context.
Plan(t, to, wait, bg) ==
    /\ job' = [job EXCEPT ![t] = [@ EXCEPT !.to = to, !.wait = wait, !.bg = bg]]
    /\ Goto(t, "settle")

\* ensureRenderedParts when the row has no parts yet; persistCtx falls back to a
\* background context when the goroutine's own is already cancelled.
Render(t) ==
    LET k == job[t].ev IN
    /\ pc[t] = "render"
    /\ \/ /\ k \in Unrenderable
          /\ Plan(t, "failed", FALSE, Cancelled(t))
          /\ UNCHANGED storeVars
       \/ /\ k \notin Unrenderable
          /\ \E parts \in Renderings :
                \/ /\ ExecOK(t, SaveRenderedParts(db, k, parts))
                   /\ job' = [job EXCEPT ![t] = [@ EXCEPT !.parts = parts]]
                   /\ Goto(t, LoopPC(parts, job[t].sent))
                \/ /\ ExecFails(t, SaveRenderedParts(db, k, parts))
                   /\ Plan(t, "retry_scheduled", TRUE, Cancelled(t))
    /\ UNCHANGED <<batch, rotationVars, processVars, chatVars, ghostVars>>

\* Telegram posts the next part of the event to the chat.
Accept(t) ==
    LET k == job[t].ev  part == job[t].parts[job[t].sent + 1] IN
    /\ reached' = [reached EXCEPT ![k] = reached[k] \cup part]
    /\ repeated' = IF part \cap reached[k] # {} THEN repeated \cup {k} ELSE repeated

\* SendMessage returns a message.
SendAccepted(t) ==
    /\ pc[t] = "send"
    /\ ~Cancelled(t)
    /\ Accept(t)
    /\ Goto(t, "mark")
    /\ UNCHANGED <<storeVars, job, batch, rotationVars, processVars, ghostVars>>

\* SendMessage fails although Telegram may have accepted the part: the reply was
\* lost, unreadable or late.
SendLost(t) ==
    \/ UNCHANGED <<chatVars, unrecorded>>
    \/ Accept(t) /\ unrecorded' = unrecorded \cup {job[t].ev}

\* A non-retryable answer: handleSendError marks the event failed.
SendRefused(t) ==
    /\ pc[t] = "send"
    /\ ~Cancelled(t)
    /\ Plan(t, "failed", FALSE, FALSE)
    /\ UNCHANGED <<storeVars, batch, rotationVars, processVars, chatVars, ghostVars>>

\* Two slips: one attempt too many, one too few.
ExhaustedLate(n) == n > MaxDeliveryAttempts
ExhaustedEarly(n) == n + 1 >= MaxDeliveryAttempts

AttemptsExhausted(n) == n >= MaxDeliveryAttempts

\* A retryable answer or a network error: another attempt, later than
\* retry_after and the backoff, or none when the attempts are used up.
SendTransient(t) ==
    LET k == job[t].ev IN
    /\ pc[t] = "send"
    /\ ~Cancelled(t)
    /\ SendLost(t)
    /\ tries' = [tries EXCEPT ![k] = IF tries[k] < MaxDeliveryAttempts
                                     THEN tries[k] + 1 ELSE tries[k]]
    /\ IF AttemptsExhausted(job[t].attempts)
       THEN Plan(t, "dead_letter", FALSE, FALSE)
       ELSE Plan(t, "retry_scheduled", TRUE, FALSE)
    /\ UNCHANGED <<storeVars, batch, rotationVars, processVars, overwritten>>

\* The parent context is cancelled: reschedule for now, on a background context.
SendAborted(t) ==
    /\ pc[t] = "send"
    /\ Cancelled(t)
    /\ SendLost(t)
    /\ Plan(t, "retry_scheduled", FALSE, TRUE)
    /\ UNCHANGED <<storeVars, batch, rotationVars, processVars, overwritten, tries>>

\* MarkChunkSent; on failure a best-effort ScheduleRetry.
MarkChunk(t) ==
    LET k == job[t].ev  new == MarkChunkSent(db, k, job[t].sent + 1) IN
    /\ pc[t] = "mark"
    /\ \/ /\ ExecOK(t, new)
          /\ job' = [job EXCEPT ![t] = [@ EXCEPT !.sent = job[t].sent + 1]]
          /\ Goto(t, LoopPC(job[t].parts, job[t].sent + 1))
          /\ UNCHANGED unrecorded
       \/ /\ ExecFails(t, new)
          /\ Plan(t, "retry_scheduled", TRUE, Cancelled(t))
          /\ unrecorded' = IF db' = db THEN unrecorded \cup {k} ELSE unrecorded
    /\ UNCHANGED <<batch, rotationVars, processVars, chatVars, overwritten, tries>>

\* MarkDelivered; on failure a best-effort ScheduleRetry.
Deliver(t) ==
    LET k == job[t].ev  new == MarkDelivered(db, k, Len(job[t].parts)) IN
    /\ pc[t] = "deliver"
    /\ \/ ExecOK(t, new) /\ Return(t)
       \/ /\ ExecFails(t, new)
          /\ Plan(t, "retry_scheduled", TRUE, Cancelled(t))
    /\ UNCHANGED <<batch, rotationVars, processVars, chatVars, ghostVars>>

\* The write a failed attempt ends with; its own failure is only logged or
\* returned, and the row stays as it is.
Settle(t) ==
    LET k == job[t].ev
        new == IF job[t].to = "retry_scheduled" THEN ScheduleRetry(db, k, job[t].wait)
               ELSE MarkTerminal(db, k, job[t].to)
    IN
    /\ pc[t] = "settle"
    /\ \/ IF job[t].bg THEN Succeeds(new) ELSE ExecOK(t, new)
       \/ IF job[t].bg THEN StoreFault ELSE ExecFails(t, new)
    /\ Return(t)
    /\ UNCHANGED <<batch, rotationVars, processVars, chatVars, ghostVars>>

-----------------------------------------------------------------------------
\* DeliveryService.Run: one goroutine, recovery ticks and rotation ticks.

\* RecoverPending: list what is due.
RecoveryTick ==
    /\ pc[Worker] = "idle"
    /\ phase = "up"
    /\ ListDueEventIDs(db, WorkerBatchSize) # {}
    /\ batch' = ListDueEventIDs(db, WorkerBatchSize)
    /\ Goto(Worker, "next")
    /\ UNCHANGED <<storeVars, job, rotationVars, processVars, chatVars, ghostVars>>

\* Its loop: oldest first, and no further once the context is cancelled.
NextInBatch ==
    /\ pc[Worker] = "next"
    /\ IF batch = {} \/ Cancelled(Worker)
       THEN /\ batch' = {}
            /\ Goto(Worker, "idle")
            /\ UNCHANGED job
       ELSE \E k \in batch :
            /\ db[k].elders \cap batch = {}
            /\ batch' = batch \ {k}
            /\ job' = [job EXCEPT ![Worker] = [@ EXCEPT !.ev = k]]
            /\ Goto(Worker, "claim")
    /\ UNCHANGED <<storeVars, rotationVars, processVars, chatVars, ghostVars>>

\* RotateStore from the ticker.
RotationTick ==
    /\ pc[Worker] = "idle"
    /\ phase = "up"
    /\ StoreRotationEnabled
    /\ Goto(Worker, "rotate")
    /\ UNCHANGED <<storeVars, job, batch, rotationVars, processVars, chatVars, ghostVars>>

\* A slip: RotateStore returns without unlocking rotateMu.
EndRotationLocked(t, err) ==
    /\ rotateMu' = t
    /\ victims' = {}
    /\ IF t = Worker THEN Goto(t, "idle") ELSE Goto(t, "lookup")
    /\ UNCHANGED <<job, processVars>>

\* RotateStore returns, to the ticker or to EnsureCapacity, which answers 503 on
\* an error or when the file is still above its hard maximum.
EndRotation(t, err) ==
    /\ rotateMu' = NoThread
    /\ victims' = {}
    /\ \/ /\ t = Worker
          /\ Goto(t, "idle")
          /\ UNCHANGED <<job, processVars>>
       \/ /\ t # Worker /\ ~err
          /\ Goto(t, "lookup")
          /\ UNCHANGED <<job, processVars>>
       \/ t # Worker /\ Reply(t)                                     \* 503

\* SelectRotatable under rotateMu.  Rows whose id some goroutine holds were
\* written less than a retention window (at least an hour) ago.  A store small
\* enough is left alone before the context is looked at.
SelectVictims(t) ==
    /\ pc[t] = "rotate"
    /\ rotateMu \in {NoThread, t}
    /\ \/ /\ ExecOK(t, db)
          /\ \E ks \in SUBSET RotatableEventIDs(db) :
                /\ ks # {}
                /\ \A k \in ks, u \in Threads : ~HoldsEvent(u, k)
                /\ victims' = ks
          /\ rotateMu' = t
          /\ Goto(t, "delete")
          /\ UNCHANGED <<job, processVars>>
       \/ Succeeds(db) /\ EndRotation(t, FALSE)
       \/ ExecFails(t, db) /\ EndRotation(t, TRUE)
    /\ UNCHANGED <<batch, chatVars, ghostVars>>

\* DeleteByEventIDs, and another round of the loop.
DeleteVictims(t) ==
    LET new == DeleteByEventIDs(db, victims) IN
    /\ pc[t] = "delete"
    /\ rotateMu = t
    /\ \/ /\ ExecOK(t, new)
          /\ victims' = {}
          /\ Goto(t, "rotate")
          /\ UNCHANGED <<job, rotateMu, processVars>>
       \/ ExecFails(t, new) /\ EndRotation(t, TRUE)
    /\ UNCHANGED <<batch, chatVars, ghostVars>>

-----------------------------------------------------------------------------
\* The clients, the process and time.

\* The client of a request hangs up: net/http cancels the request's context.
Disconnect(r) ==
    /\ pc[r] # "idle"
    /\ r \notin gone
    /\ disconnects < MaxDisconnects
    /\ gone' = gone \cup {r}
    /\ disconnects' = disconnects + 1
    /\ UNCHANGED <<storeVars, pc, job, batch, rotationVars, phase, restarts,
                   chatVars, ghostVars>>

\* SIGTERM cancels the context of the worker and stops the listener; requests
\* in flight go on.
Sigterm ==
    /\ phase = "up"
    /\ restarts < MaxRestarts
    /\ phase' = "stopping"
    /\ restarts' = restarts + 1
    /\ UNCHANGED <<storeVars, pc, job, batch, rotationVars, gone, disconnects,
                   chatVars, ghostVars>>

\* The process ends and every goroutine with it.
Down ==
    /\ phase' = "down"
    /\ pc' = [t \in Threads |-> "idle"]
    /\ job' = [t \in Threads |-> NoJob]
    /\ batch' = {}
    /\ victims' = {}
    /\ rotateMu' = NoThread
    /\ gone' = {}
    /\ unrecorded' = unrecorded \cup {job[t].ev : t \in {u \in Threads : pc[u] = "mark"}}
    /\ UNCHANGED <<storeVars, disconnects, chatVars, overwritten, tries>>

\* Shutdown returns, all requests being done or HTTPShutdownTimeout over, and
\* main returns without waiting for the worker.
Exit == phase = "stopping" /\ Down /\ UNCHANGED restarts

Crash ==
    /\ phase # "down"
    /\ restarts < MaxRestarts
    /\ Down
    /\ restarts' = restarts + 1

\* main: open the store, RequeueSending, serve.
Restart ==
    /\ phase = "down"
    /\ phase' = "up"
    /\ Succeeds(RequeueSending(db))
    /\ UNCHANGED <<pc, job, batch, rotationVars, gone, restarts, disconnects,
                   chatVars, ghostVars>>

\* next_retry_at passes.
BackoffElapses(k) ==
    /\ db[k].waiting
    /\ db' = [db EXCEPT ![k] = [@ EXCEPT !.waiting = FALSE]]
    /\ UNCHANGED <<storeErrors, pc, job, batch, rotationVars, processVars,
                   chatVars, ghostVars>>

-----------------------------------------------------------------------------
Process(t) ==
    \/ Claim(t) \/ Render(t)
    \/ SendAccepted(t) \/ SendRefused(t) \/ SendTransient(t) \/ SendAborted(t)
    \/ MarkChunk(t) \/ Deliver(t) \/ Settle(t)

Rotate(t) == SelectVictims(t) \/ DeleteVictims(t)

AcceptWebhook(r) ==
    \/ EnsureCapacity(r) \/ Lookup(r) \/ Create(r) \/ Queue(r) \/ Load(r)

Environment ==
    \/ \E r \in Requests : Disconnect(r)
    \/ Sigterm \/ Exit \/ Crash \/ Restart
    \/ \E k \in Keys : BackoffElapses(k)

Next ==
    \/ \E r \in Requests, k \in Keys : Receive(r, k)
    \/ \E r \in Requests : AcceptWebhook(r)
    \/ \E t \in Threads : Process(t) \/ Rotate(t)
    \/ RecoveryTick \/ NextInBatch \/ RotationTick
    \/ Environment

Spec == Init /\ [][Next]_vars

(***************************************************************************)
(* Goroutines keep running, a stopping process ends and is started again   *)
(* by its supervisor, backoffs elapse, rotateMu is handed to whoever waits *)
(* for it (sync.Mutex is starvation free), and the select of Run, which    *)
(* picks at random among ready tickers, does not pass the recovery ticker  *)
(* over for ever.                                                          *)
(***************************************************************************)
Fairness ==
    /\ \A r \in Requests : WF_vars(AcceptWebhook(r) \/ Process(r)) /\ SF_vars(Rotate(r))
    /\ WF_vars(NextInBatch \/ Process(Worker)) /\ SF_vars(Rotate(Worker))
    /\ SF_vars(RecoveryTick)
    /\ WF_vars(Exit)
    /\ WF_vars(Restart)
    /\ \A k \in Keys : WF_vars(BackoffElapses(k))

FairSpec == Spec /\ Fairness

-----------------------------------------------------------------------------
\* Properties.

\* Goroutines between a successful claim of k and the end of their attempt.
Owners(k) == {t \in Threads : job[t].ev = k /\ pc[t] \in ProcessPC}

FixedRendering == \A p, q \in Renderings : p = q

\* Every variable has its type: rows, goroutine locals and fault counters.
TypeOK ==
    /\ db \in [Keys -> Row]
    /\ pc \in [Threads -> PC]
    /\ job \in [Threads -> Job]
    /\ batch \subseteq Keys
    /\ victims \subseteq Keys
    /\ rotateMu \in Threads \cup {NoThread}
    /\ phase \in {"up", "stopping", "down"}
    /\ gone \subseteq Requests
    /\ restarts \in Nat /\ disconnects \in Nat /\ storeErrors \in Nat
    /\ reached \in [Keys -> SUBSET Alerts]
    /\ repeated \subseteq Keys /\ unrecorded \subseteq Keys
    /\ overwritten \subseteq Keys
    /\ tries \in [Keys -> Nat]

\* At-least-once (README.md:35): a row says 'delivered' only when Telegram has
\* accepted all of the event, whatever crashes, disconnects, lost replies, store
\* errors and concurrent goroutines came before.  Two goroutines that hold the
\* same row (overwritten) are covered as long as both render the same parts.
DeliveredIsComplete ==
    \A k \in Keys : db[k].status = "delivered" /\ (FixedRendering \/ k \notin overwritten)
                    => reached[k] = Alerts

\* Claim exclusion (sqlite.go:308): at most one goroutine works on a row, except
\* on a row whose MarkQueued came after its first claim.
ClaimIsExclusive ==
    \A k \in Keys \ overwritten : \A t, u \in Owners(k) : t = u

\* 'sending' is transient (delivery_service.go:32): while the process serves, a
\* row in 'sending' has a goroutine that will write it again, unless a context
\* was cancelled or the store failed in between.
SendingHasOwner ==
    phase = "up" /\ disconnects = 0 /\ storeErrors = 0
        => \A k \in Keys : db[k].status = "sending" => Owners(k) # {}

\* The chat sees a part twice only if an accepted part went unrecorded (reply
\* lost, MarkChunkSent failed, process died before it) or two goroutines held the
\* row.  In particular a failed MarkDelivered causes no repetition.
OnlyKnownDuplicates == repeated \subseteq unrecorded \cup overwritten

\* MAX_DELIVERY_ATTEMPTS: every attempt beyond the maximum is paid for by a
\* restart, a disconnect, a store error or an overwritten claim.
AttemptsBounded ==
    \A k \in Keys : db[k].attempts <= MaxDeliveryAttempts + 2 * restarts + disconnects
                                      + storeErrors + (IF k \in overwritten THEN 1 ELSE 0)

\* A dead letter has had all its attempts refused, short of those that restarts,
\* disconnects, store errors or a second goroutine used up.
DeadLetterIsEarned ==
    \A k \in Keys : db[k].status = "dead_letter"
        => tries[k] + 2 * restarts + disconnects + storeErrors
             + (IF k \in overwritten THEN 1 ELSE 0) >= MaxDeliveryAttempts

\* Rotation removes only terminal rows that no goroutine is working on.
RetiresOnlyTerminal ==
    [][\A k \in Keys : Stored(db, k) /\ ~Stored(db', k)
                       => db[k].status \in Terminal /\ Owners(k) = {}]_vars

\* sent_parts never moves back while one goroutine at a time works on the row.
ProgressIsKept ==
    [][\A k \in Keys \ overwritten' : Stored(db, k) /\ Stored(db', k)
                                      => db[k].sent <= db'[k].sent]_vars

\* README.md:9: every stored event ends in a terminal status, across restarts
\* and claim races.
EventuallySettled ==
    \A k \in Keys : Stored(db, k) ~> (db[k].status \in Terminal \cup {"absent"})

\* Every handler returns, whoever else rotates the store, claims the row or wins
\* the insert: nobody waits for rotateMu or starts over for ever.
EveryRequestReturns == \A r \in Requests : pc[r] # "idle" ~> pc[r] = "idle"

\* The abstract promise: a row is an open, delivered or given-up event.
BoxOf(status) ==
    CASE status = "absent" -> "none"
      [] status = "delivered" -> "delivered"
      [] status \in {"failed", "dead_letter"} -> "given_up"
      [] OTHER -> "open"

Promise == INSTANCE Outbox WITH box <- [k \in Keys |-> BoxOf(db[k].status)],
                                got <- reached

\* The pipeline implements the at-least-once outbox, when every rendering of an
\* event is the same: nothing is marked delivered before the chat has all of it,
\* and nothing open is ever forgotten.
ImplementsOutbox == Promise!OutboxSpec

-----------------------------------------------------------------------------
\* Parts of the inductive invariants of DeliveryProofs and ChatProofs.

\* The locals a step relies on are there: the event, the parts still to send and
\* the status to settle on.
LocalOK(t, l, j) ==
    /\ l \notin {"idle", "next"} /\ ~(t = Worker /\ l \in RotationPC) => j.ev \in Keys
    /\ l \in {"send", "mark", "deliver"} => j.parts \in Renderings
    /\ l \in {"send", "mark"} => j.sent < Len(j.parts)
    /\ l = "deliver" => j.sent >= Len(j.parts)
    /\ l = "settle" => j.to # "none"

LocalsOK == \A t \in Threads : LocalOK(t, pc[t], job[t])

\* No goroutine outlives the process, every event id in hand names a row, and
\* rotation is about to delete only closed rows that nobody has in hand.
HeldRowsOK ==
    /\ phase = "down" => \A t \in Threads : pc[t] = "idle"
    /\ \A t \in Threads, k \in Keys : HoldsEvent(t, k) => Stored(db, k)
    /\ \A k \in victims : /\ db[k].status \in Terminal
                          /\ \A t \in Threads : ~HoldsEvent(t, k)

\* A row that was not overwritten has one owner at most, and is then not open to
\* claims: it is 'sending', or 'delivered' by a write that reported an error.
OwnersOK ==
    \A k \in Keys \ overwritten :
        /\ \A t, u \in Owners(k) : t = u
        /\ Owners(k) # {} => db[k].status \in {"sending", "delivered"}

-----------------------------------------------------------------------------
\* What comments and the README say of the pipeline, and the code does not do.

\* sqlite.go:308: "ensures two workers cannot claim the same record".
OneWorkerPerRecord == \A k \in Keys : \A t, u \in Owners(k) : t = u

\* delivery_service.go:34: "We still want to avoid stranding records in
\* 'sending'": no cancelled context leaves a row in 'sending' without a goroutine.
NothingStranded ==
    phase = "up" /\ storeErrors = 0
        => \A k \in Keys : db[k].status = "sending" => Owners(k) # {}
=============================================================================
