------------------------------- MODULE Store -------------------------------
(***************************************************************************)
(* The deliveries table of internal/store/sqlite.go.  Every SQL statement  *)
(* of the store is an operator from table to table; the pool holds one     *)
(* connection (SetMaxOpenConns(1)), so one statement is one atomic step.   *)
(*                                                                         *)
(* A row is named by its idempotency key (UNIQUE in the schema).  The      *)
(* random event_id of a row matters only to a caller that still holds the  *)
(* id of a row that rotation removed, and retention is at least one hour:  *)
(* see HoldsEvent in Delivery.                                             *)
(***************************************************************************)
EXTENDS Naturals, Sequences, FiniteSets

CONSTANTS
    Keys,         \* idempotency keys (ComputeFingerprint of a payload)
    Alerts,       \* the pieces of content one event carries
    Renderings    \* what buildMessages may return: sequences of message parts

(***************************************************************************)
(* A rendering is a nonempty sequence of nonempty message parts, pairwise  *)
(* disjoint, that together carry every piece of the event.                 *)
(***************************************************************************)
IsRendering(parts) ==
    /\ parts \in Seq((SUBSET Alerts) \ {{}})
    /\ Len(parts) > 0
    /\ \A i, j \in 1..Len(parts) : i # j => parts[i] \cap parts[j] = {}
    /\ UNION {parts[i] : i \in 1..Len(parts)} = Alerts

ASSUME RenderingsAssumption ==
    /\ Renderings # {}
    /\ \A parts \in Renderings : IsRendering(parts)

Pending == {"received", "queued", "retry_scheduled"}
Terminal == {"delivered", "failed", "dead_letter"}
Statuses == Pending \cup Terminal \cup {"sending"}

(***************************************************************************)
(* Record: status, rendered_parts, sent_parts, attempt_count, whether      *)
(* next_retry_at lies in the future, and created_at as the set of keys     *)
(* whose rows are older.  A key without a row is "absent".                 *)
(***************************************************************************)
Row == [status   : Statuses \cup {"absent"},
        parts    : Renderings \cup {<<>>},
        sent     : Nat,
        attempts : Nat,
        waiting  : BOOLEAN,
        elders   : SUBSET Keys]

NoRow == [status |-> "absent", parts |-> <<>>, sent |-> 0, attempts |-> 0,
          waiting |-> FALSE, elders |-> {}]

Stored(db, k) == db[k].status # "absent"

\* UPDATE deliveries SET ... WHERE event_id = k: no effect without a row.
Update(db, k, row) == IF Stored(db, k) THEN [db EXCEPT ![k] = row] ELSE db

-----------------------------------------------------------------------------
\* The statements.  A definition whose only use is to be put in the place of the
\* one below it (a slip the checks must notice) stands before that one:
\* ClaimableInFlight, ChunkSentUnrecorded, ChunkSentTwice, RetryMisspelled,
\* RetryFromStart, RequeueNothing, DueWithoutReceived, RotatableUnlessSending.

CreateReceived(db, k) ==
    [j \in Keys |->
        IF j = k THEN [NoRow EXCEPT !.status = "received",
                                    !.elders = {i \in Keys \ {k} : Stored(db, i)}]
                 ELSE [db[j] EXCEPT !.elders = db[j].elders \ {k}]]

\* updateStatus has no condition on the status it overwrites.
MarkQueued(db, k) ==
    Update(db, k, [db[k] EXCEPT !.status = "queued", !.waiting = FALSE])

ClaimableInFlight(db, k) == db[k].status \in Pending \cup {"sending"}

\* The WHERE clause of ClaimForSend: a status gate that ignores next_retry_at.
Claimable(db, k) == db[k].status \in Pending

ClaimForSend(db, k) ==
    [db EXCEPT ![k] = [db[k] EXCEPT !.status = "sending", !.waiting = FALSE,
                                    !.attempts = db[k].attempts + 1]]

SaveRenderedParts(db, k, parts) == Update(db, k, [db[k] EXCEPT !.parts = parts])

ChunkSentUnrecorded(db, k, n) == Update(db, k, [db[k] EXCEPT !.sent = n - 1])

ChunkSentTwice(db, k, n) == Update(db, k, [db[k] EXCEPT !.sent = n + 1])

MarkChunkSent(db, k, n) == Update(db, k, [db[k] EXCEPT !.sent = n])

MarkDelivered(db, k, n) ==
    Update(db, k, [db[k] EXCEPT !.status = "delivered", !.sent = n, !.waiting = FALSE])

RetryMisspelled(db, k, wait) ==
    Update(db, k, [db[k] EXCEPT !.status = "retry", !.waiting = wait])

RetryFromStart(db, k, wait) ==
    Update(db, k, [db[k] EXCEPT !.status = "retry_scheduled", !.sent = 0,
                                !.waiting = wait])

ScheduleRetry(db, k, wait) ==
    Update(db, k, [db[k] EXCEPT !.status = "retry_scheduled", !.waiting = wait])

\* MarkFailed and MarkDeadLetter.
MarkTerminal(db, k, status) ==
    Update(db, k, [db[k] EXCEPT !.status = status, !.waiting = FALSE])

RequeueNothing(db) == db

\* Crash recovery at startup: every row left in 'sending' is queued again.
RequeueSending(db) ==
    [k \in Keys |-> IF db[k].status = "sending"
                    THEN [db[k] EXCEPT !.status = "queued", !.waiting = FALSE]
                    ELSE db[k]]

DeleteByEventIDs(db, ks) == [k \in Keys |-> IF k \in ks THEN NoRow ELSE db[k]]

DueWithoutReceived(db) ==
    {k \in Keys : db[k].status \in Pending \ {"received"} /\ ~db[k].waiting}

\* The WHERE clause of ListDueEventIDs, then ORDER BY created_at ASC LIMIT n.
DueEventIDs(db) == {k \in Keys : db[k].status \in Pending /\ ~db[k].waiting}

ListDueEventIDs(db, n) ==
    {k \in DueEventIDs(db) : Cardinality(db[k].elders \cap DueEventIDs(db)) < n}

RotatableUnlessSending(db) == {k \in Keys : db[k].status \in Statuses \ {"sending"}}

\* The WHERE clause of SelectRotatable, without its age condition.
RotatableEventIDs(db) == {k \in Keys : db[k].status \in Terminal}
=============================================================================
