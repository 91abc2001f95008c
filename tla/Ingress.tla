------------------------------ MODULE Ingress ------------------------------
(***************************************************************************)
(* The pipeline as its HTTP clients see it: the checks of webhookReceiver  *)
(* in front of AcceptWebhook, the status code every path of AcceptWebhook  *)
(* ends with, a handler that panics under recoverMiddleware, and a machine *)
(* that loses power.                                                       *)
(*                                                                         *)
(* The steps of Delivery are taken over as they are; this module adds what *)
(* they tell the client.  With synchronous=NORMAL a commit is durable only *)
(* once SQLite has synced the WAL: a crash of the process loses nothing, a *)
(* power loss rolls the table back to the last sync.                       *)
(***************************************************************************)
EXTENDS Delivery

CONSTANTS
    Offers,          \* what a client may send, as the handler sees it
    WebhookSecret,   \* WEBHOOK_SECRET is set
    BasicAuth,       \* BasicAuthEnabled()
    MaxPanics,       \* bound: handlers that panic
    MaxPowerLosses,  \* bound: times the machine loses power
    MaxFaults        \* bound: faults of any kind

(***************************************************************************)
(* secret, basic: the credential is present and right.  json: the content  *)
(* type is application/json.  body: within the limit and valid JSON, too   *)
(* large, cut off, or not JSON.                                            *)
(***************************************************************************)
Offer == [secret : BOOLEAN, basic : BOOLEAN, json : BOOLEAN,
          body : {"ok", "too_large", "unreadable", "not_json"}]

ASSUME IngressAssumption ==
    /\ Offers \subseteq Offer
    /\ WebhookSecret \in BOOLEAN /\ BasicAuth \in BOOLEAN
    /\ MaxPanics \in Nat /\ MaxPowerLosses \in Nat /\ MaxFaults \in Nat

VARIABLES
    call,       \* per request: whether it found the row, whether its attempt failed
    reply,      \* the status code the last step answered a client with, 0 for none
    told,       \* events some client was told have reached a terminal status
    bounced,    \* events some client was answered 502 for
    rebounced,  \* events that were answered 502 more than once
    synced,     \* the table as of the last sync, and its history by then
    panics, powerLosses    \* faults so far

clientVars == <<call, reply, told, bounced, rebounced>>
machineVars == <<synced, panics, powerLosses>>
ingressVars == <<vars, clientVars, machineVars>>

Faults == restarts + disconnects + storeErrors + panics + powerLosses

\* The bound on what a step of Delivery may fail.
FaultsBounded == Faults' <= MaxFaults

NoSnapshot == [db |-> <<>>, reached |-> <<>>, overwritten |-> {}]
NoCall == [dup |-> FALSE, err |-> FALSE]

IngressInit ==
    /\ Init
    /\ call = [r \in Requests |-> NoCall]
    /\ reply = 0
    /\ told = {} /\ bounced = {} /\ rebounced = {}
    /\ synced = IF MaxPowerLosses > 0 /\ MaxFaults > 0
                THEN [db |-> db, reached |-> reached, overwritten |-> overwritten]
                ELSE NoSnapshot
    /\ panics = 0 /\ powerLosses = 0

\* The answers given for an event, remembered as long as its row is stored.
Remember(closed, refused) ==
    /\ told' = {k \in told \cup closed : Stored(db', k)}
    /\ bounced' = {k \in bounced \cup refused : Stored(db', k)}
    /\ rebounced' = {k \in rebounced \cup (bounced \cap refused) : Stored(db', k)}

NoAnswer == Remember({}, {}) /\ reply' = 0

\* Once the bounds rule a power loss out, the last sync is forgotten.
Snapshot(last) ==
    IF powerLosses' < MaxPowerLosses /\ Faults' < MaxFaults THEN last ELSE NoSnapshot

NoSync == synced' = Snapshot(synced)

-----------------------------------------------------------------------------
\* webhookReceiver, up to the call of AcceptWebhook.

\* authorizeWebhook: either credential will do, and none is asked for when none
\* is configured.
authorizeWebhook(o) ==
    \/ WebhookSecret /\ o.secret
    \/ BasicAuth /\ o.basic
    \/ ~WebhookSecret /\ ~BasicAuth

\* The answer before any event is looked at, in the order of the checks; 0: none.
Refusal(o) ==
    CASE ~authorizeWebhook(o) -> 401
      [] authorizeWebhook(o) /\ ~o.json -> 415
      [] authorizeWebhook(o) /\ o.json /\ o.body = "too_large" -> 413
      [] authorizeWebhook(o) /\ o.json /\ o.body \in {"unreadable", "not_json"} -> 400
      [] OTHER -> 0

Refuse(r, o) ==
    /\ phase = "up"
    /\ pc[r] = "idle"
    /\ Refusal(o) # 0
    /\ reply' = Refusal(o)
    /\ UNCHANGED <<vars, call, told, bounced, rebounced, machineVars>>

Admit(r, k, o) ==
    /\ Refusal(o) = 0
    /\ Receive(r, k)
    /\ NoAnswer
    /\ UNCHANGED <<call, panics, powerLosses>>
    /\ NoSync

-----------------------------------------------------------------------------
\* AcceptWebhook: what its steps, taken from Delivery, mean for the client.

\* The statement of this step returned nil to r.
NoError(r) == ~Cancelled(r) /\ storeErrors' = storeErrors

\* A slip: 'sending' is missing from the cases and falls to the error.
LoadedCodeUnexpected(status) ==
    IF status \in Terminal THEN 200 ELSE IF status = "sending" THEN 500 ELSE 202

\* loadAcceptResult.
LoadedCode(status) == IF status \in Terminal THEN 200 ELSE 202

\* A slip: every failed attempt is a 502.
AcceptedCodeForAll(c, status) ==
    IF c.err /\ status = "retry_scheduled" THEN 502 ELSE LoadedCode(status)

\* A failed first attempt that will be repeated is a 502, for its own client only.
AcceptedCode(c, status) ==
    IF ~c.dup /\ c.err /\ status = "retry_scheduled" THEN 502 ELSE LoadedCode(status)

\* The status code of the step with which the handler of r returns.
StatusCode(r) ==
    LET status == db[job[r].ev].status IN
    CASE pc[r] \in {"capacity", "rotate", "delete"} -> 503
      [] pc[r] = "lookup" /\ NoError(r) -> LoadedCode(status)
      [] pc[r] = "load" /\ NoError(r) /\ status # "absent" -> AcceptedCode(call[r], status)
      [] OTHER -> 500

\* found, and the error of ProcessEventByID: nil when the row could not be
\* claimed and when it was delivered.
CallAfter(r) ==
    CASE pc'[r] = "idle" -> NoCall
      [] pc[r] = "lookup" /\ pc'[r] = "claim" -> [dup |-> TRUE, err |-> FALSE]
      [] pc'[r] = "load" /\ pc[r] = "settle" -> [call[r] EXCEPT !.err = TRUE]
      [] pc'[r] = "load" /\ pc[r] = "claim" -> [call[r] EXCEPT !.err = ~NoError(r)]
      [] OTHER -> call[r]

\* The client of r gets its answer, unless it has hung up.
Answers(r, code) ==
    LET event == IF r \in gone THEN {} ELSE {job[r].ev} IN
    /\ reply' = code
    /\ Remember(IF code = 200 THEN event ELSE {}, IF code = 502 THEN event ELSE {})

Serve(r) ==
    /\ AcceptWebhook(r) \/ Process(r) \/ Rotate(r)
    /\ call' = [call EXCEPT ![r] = CallAfter(r)]
    /\ IF pc'[r] = "idle" THEN Answers(r, StatusCode(r)) ELSE NoAnswer
    /\ UNCHANGED <<panics, powerLosses>>
    /\ FaultsBounded
    /\ NoSync

\* The steps that answer nobody.
Background ==
    /\ \/ Process(Worker) \/ Rotate(Worker)
       \/ RecoveryTick \/ NextInBatch \/ RotationTick
       \/ \E r \in Requests : Disconnect(r)
       \/ Sigterm \/ Restart
       \/ \E k \in Keys : BackoffElapses(k)
    /\ NoAnswer
    /\ UNCHANGED <<call, panics, powerLosses>>
    /\ FaultsBounded
    /\ NoSync

\* The process ends: its clients see the connection break.
Stop ==
    /\ Exit \/ Crash
    /\ call' = [r \in Requests |-> NoCall]
    /\ NoAnswer
    /\ UNCHANGED <<panics, powerLosses>>
    /\ FaultsBounded
    /\ NoSync

\* recoverMiddleware answers 500 for a handler that panics; deferred calls have
\* released rotateMu, and the row stays as the handler left it.
Panic(r) ==
    /\ pc[r] # "idle"
    /\ panics < MaxPanics /\ Faults < MaxFaults
    /\ panics' = panics + 1
    /\ Reply(r)
    /\ IF rotateMu = r THEN rotateMu' = NoThread /\ victims' = {}
                       ELSE UNCHANGED rotationVars
    /\ unrecorded' = IF pc[r] = "mark" THEN unrecorded \cup {job[r].ev} ELSE unrecorded
    /\ call' = [call EXCEPT ![r] = NoCall]
    /\ UNCHANGED <<storeVars, batch, chatVars, overwritten, tries, powerLosses>>
    /\ Answers(r, 500)
    /\ NoSync

-----------------------------------------------------------------------------
\* The machine.

\* SQLite syncs the WAL, before a checkpoint.
Sync ==
    /\ synced # NoSnapshot
    /\ synced.db # db
    /\ UNCHANGED <<vars, call, panics, powerLosses>>
    /\ synced' = Snapshot([db |-> db, reached |-> reached, overwritten |-> overwritten])
    /\ NoAnswer

\* What was not synced is gone; what Telegram has got is not.
PowerLoss ==
    /\ phase # "down"
    /\ synced # NoSnapshot
    /\ powerLosses' = powerLosses + 1
    /\ phase' = "down"
    /\ pc' = [t \in Threads |-> "idle"]
    /\ job' = [t \in Threads |-> NoJob]
    /\ batch' = {} /\ victims' = {} /\ rotateMu' = NoThread /\ gone' = {}
    /\ db' = synced.db
    /\ reached' = [k \in Keys |-> reached[k] \cup synced.reached[k]]
    /\ unrecorded' = unrecorded \cup {job[t].ev : t \in {u \in Threads : pc[u] = "mark"}}
            \cup {k \in Keys : db[k] # synced.db[k] \/ reached[k] # synced.reached[k]}
    /\ overwritten' = overwritten \cup synced.overwritten
    /\ told' = {k \in told : db[k] = synced.db[k]}
    /\ call' = [r \in Requests |-> NoCall]
    /\ reply' = 0
    /\ UNCHANGED <<storeErrors, restarts, disconnects, repeated, tries, bounced,
                   rebounced, panics>>
    /\ NoSync

-----------------------------------------------------------------------------
IngressNext ==
    \/ \E r \in Requests, o \in Offers : Refuse(r, o)
    \/ \E r \in Requests, k \in Keys, o \in Offers : Admit(r, k, o)
    \/ \E r \in Requests : Serve(r) \/ Panic(r)
    \/ Background \/ Stop
    \/ Sync \/ PowerLoss

IngressSpec == IngressInit /\ [][IngressNext]_ingressVars

-----------------------------------------------------------------------------
\* Properties.

\* README.md:58 and README.md:804: once a client has been told that an event is
\* delivered, failed or a dead letter, no goroutine is about to send any of it,
\* unless MarkQueued reopened the row or a power loss took the row back.
ClosedIsNotResent ==
    \A k \in told \ overwritten : \A t \in Owners(k) : pc[t] \notin {"render", "send"}

\* Alertmanager repeats a webhook that is answered 502: an event is answered so
\* once in the life of its row, however many duplicates meet it in retry_scheduled.
OneBadGateway == rebounced = {}

\* A 500 has a cause outside the protocol: a disconnect, a failed statement or a
\* panic.  Lost races between inserts, claims and rotation never end in one.
ServerErrorHasCause == reply = 500 => disconnects + storeErrors + panics > 0
=============================================================================
