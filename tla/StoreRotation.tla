--------------------------- MODULE StoreRotation ---------------------------
(***************************************************************************)
(* Disk space: DeliveryService.EnsureCapacity in front of every webhook,   *)
(* RotateStore behind it and behind the rotation ticker, and the files of  *)
(* the SQLite database they measure.                                       *)
(*                                                                         *)
(* Sizes are counted in pages, the room of the smallest row.  A row takes  *)
(* up to MaxRow pages, and its size changes with every update: rendering   *)
(* adds the message and its parts, a failure adds its text.  Which row     *)
(* takes how many of the pages in use is left open.                        *)
(*                                                                         *)
(* SQLite is external: in WAL mode every page written is a frame of the    *)
(* WAL file; a checkpoint copies the frames into the database file, which  *)
(* is then as long as the database has pages; DELETE leaves free pages     *)
(* behind that later rows use; only VACUUM gives them back.  The -shm file *)
(* has a fixed size and is left out.  The configuration is any that Config *)
(* lets the process start with.                                            *)
(***************************************************************************)
EXTENDS Config, FiniteSetsExt

CONSTANTS
    Requests,              \* webhook requests served at the same time
    Worker,                \* the goroutine of DeliveryService.Run
    None,                  \* rotateMu is free
    Settings,              \* environments the process may be started in
    MaxRow,                \* pages of the largest row
    RotationBatch,         \* rows per SelectRotatable
    AutoCheckpoint,        \* frames after which SQLite checkpoints by itself
    MaxErrors              \* bound: failed statements, stats and contexts

ASSUME RotationAssumption ==
    /\ IsFiniteSet(Requests)
    /\ Worker \notin Requests /\ None \notin Requests \cup {Worker}
    /\ Settings \subseteq [low : Nat \cup NoValue, high : Nat \cup NoValue,
                           max : Nat \cup NoValue, rotation : BOOLEAN \cup NoValue,
                           vacuum : BOOLEAN \cup NoValue]
    /\ MaxRow \in Nat \ {0}
    /\ RotationBatch \in Nat \ {0}
    /\ AutoCheckpoint \in Nat \ {0}
    /\ MaxErrors \in Nat

Threads == Requests \cup {Worker}

VARIABLES
    cfg,        \* the configuration, fixed when the process starts
    fresh,      \* rows that are open or within their retention
    old,        \* terminal rows past their retention
    eligible,   \* rows that were old when the rotation at hand computed its cutoffs
    used,       \* pages the rows take
    pages,      \* pages of the database, free ones included
    file,       \* length of the database file
    frames,     \* frames of the WAL that no checkpoint has copied
    wal,        \* length of the WAL file
    pc,         \* what each goroutine does next
    rotateMu,   \* holder of DeliveryService.rotateMu
    errors      \* failures so far

diskVars == <<fresh, old, used, pages, file, frames, wal>>
rotationVars == <<rotateMu, eligible>>
vars == <<cfg, fresh, old, eligible, used, pages, file, frames, wal, pc, rotateMu, errors>>

LowWatermark == cfg.low
HighWatermark == cfg.high
MaxSize == cfg.max
StoreRotationEnabled == cfg.rotation
StoreVacuumAfterRotation == cfg.vacuum

Rows == fresh + old

\* The pages that n rows may take.
Extent(n) == n .. MaxRow * n

\* A slip: the WAL is not counted.
MainFileOnly == file

SizeBytes == file + wal

\* main: Parse returns a configuration or the process does not start.
Init ==
    /\ cfg \in {c \in {Parse(raw) : raw \in Settings} : Validate(c)}
    /\ fresh = 0 /\ old = 0 /\ eligible = 0
    /\ used = 0 /\ pages = 0 /\ file = 0 /\ frames = 0 /\ wal = 0
    /\ pc = [t \in Threads |-> "idle"]
    /\ rotateMu = None
    /\ errors = 0

Goto(t, l) == pc' = [pc EXCEPT ![t] = l]

\* A statement, a stat or the context of the goroutine fails.
Fails == errors < MaxErrors /\ errors' = errors + 1
NoFailure == UNCHANGED errors

\* A transaction of n frames commits; the WAL is checkpointed once it is long
\* enough, and then written from its start again.
Commit(n, size) ==
    LET length == frames + n IN
    /\ pages' = size
    /\ wal' = Max({wal, length})
    /\ IF length >= AutoCheckpoint
       THEN frames' = 0 /\ file' = size
       ELSE frames' = length /\ UNCHANGED file

\* The statement writes a row of n pages; the free pages are used first.
Write(n) == Commit(n, Max({pages, used'}))

-----------------------------------------------------------------------------
\* EnsureCapacity and the INSERT behind it.

\* 503
Reject(r) == Goto(r, "idle")

\* The first measure: below the high watermark there is nothing to do.
Receive(r) ==
    /\ pc[r] = "idle"
    /\ \/ NoFailure /\ SizeBytes < HighWatermark /\ Goto(r, "insert")
       \/ /\ NoFailure
          /\ SizeBytes >= HighWatermark
          /\ Goto(r, IF StoreRotationEnabled THEN "rotate" ELSE "check")
       \/ Fails /\ Reject(r)
    /\ UNCHANGED <<cfg, diskVars, rotationVars>>

TooLarge(size) == size > MaxSize

\* The second measure, against the hard maximum.
Check(r) ==
    /\ pc[r] = "check"
    /\ \/ NoFailure /\ IF TooLarge(SizeBytes) THEN Reject(r) ELSE Goto(r, "insert")
       \/ Fails /\ Reject(r)
    /\ UNCHANGED <<cfg, diskVars, rotationVars>>

\* CreateReceived stores the payload, however long it is.
Insert(r) ==
    /\ pc[r] = "insert"
    /\ Goto(r, "idle")
    /\ fresh' = fresh + 1
    /\ \E s \in Extent(1) : used' = used + s /\ Write(s)
    /\ UNCHANGED <<cfg, old, rotationVars, errors>>

\* The webhook is a duplicate, or the statement fails: there is no new row.
InsertNothing(r) ==
    /\ pc[r] = "insert"
    /\ Goto(r, "idle")
    /\ UNCHANGED <<cfg, diskVars, rotationVars, errors>>

-----------------------------------------------------------------------------
\* RotateStore.

\* A request calls it above the high watermark, the ticker whenever it fires.
Called(t) == pc[t] = IF t = Worker THEN "idle" ELSE "rotate"

\* RotateStore returns to EnsureCapacity or to the ticker.
Done(t, err) ==
    /\ rotateMu' = None
    /\ eligible' = 0
    /\ Goto(t, IF t = Worker \/ err THEN "idle" ELSE "check")

\* Under the lock: nothing to do below the high watermark.
Begin(t) ==
    /\ Called(t)
    /\ rotateMu = None
    /\ \/ NoFailure /\ (~StoreRotationEnabled \/ SizeBytes < HighWatermark) /\ Done(t, FALSE)
       \/ /\ NoFailure
          /\ StoreRotationEnabled
          /\ SizeBytes >= HighWatermark
          /\ rotateMu' = t
          /\ eligible' = old
          /\ Goto(t, "loop")
       \/ Fails /\ Done(t, TRUE)
    /\ UNCHANGED <<cfg, diskVars>>

\* The loop ends at the low watermark or when SelectRotatable finds nothing.
Select(t) ==
    /\ pc[t] = "loop"
    /\ \/ /\ NoFailure
          /\ Goto(t, IF SizeBytes > LowWatermark /\ eligible > 0
                     THEN "delete" ELSE "vacuum")
          /\ UNCHANGED rotationVars
       \/ Fails /\ Done(t, TRUE)
    /\ UNCHANGED <<cfg, diskVars>>

\* A slip: the last batch is as long as the others.
BatchFull(n) == RotationBatch

Batch(n) == Min({n, RotationBatch})

\* DeleteByEventIDs of one batch, and the measure behind it.
Delete(t) ==
    LET n == Batch(eligible) IN
    /\ pc[t] = "delete"
    /\ \/ /\ old' = old - n
          /\ \E s \in Extent(n) :
                 /\ used - s \in Extent(Rows - n)
                 /\ used' = used - s
                 /\ Commit(n, pages)
          /\ UNCHANGED fresh
          /\ \/ /\ NoFailure
                /\ eligible' = eligible - n
                /\ Goto(t, "loop")
                /\ UNCHANGED rotateMu
             \/ Fails /\ Done(t, TRUE)                   \* the stat fails
       \/ Fails /\ Done(t, TRUE) /\ UNCHANGED diskVars
    /\ UNCHANGED cfg

\* VACUUM rewrites the database; an error is only logged.
Vacuum(t) ==
    /\ pc[t] = "vacuum"
    /\ Goto(t, "checkpoint")
    /\ \/ NoFailure /\ StoreVacuumAfterRotation /\ Commit(used, used)
       \/ NoFailure /\ ~StoreVacuumAfterRotation /\ UNCHANGED <<pages, file, frames, wal>>
       \/ Fails /\ StoreVacuumAfterRotation /\ UNCHANGED <<pages, file, frames, wal>>
    /\ UNCHANGED <<cfg, fresh, old, used, rotationVars>>

\* A slip: the checkpoint does not truncate.
CheckpointNothing == UNCHANGED <<file, frames, wal>>

\* PRAGMA wal_checkpoint(TRUNCATE)
CheckpointWAL == file' = pages /\ frames' = 0 /\ wal' = 0

\* CheckpointWAL, whose error is only logged, and the last measure.
Finish(t) ==
    /\ pc[t] = "checkpoint"
    /\ \/ NoFailure /\ CheckpointWAL /\ Done(t, FALSE)
       \/ /\ Fails
          /\ CheckpointWAL \/ UNCHANGED <<file, frames, wal>>
          /\ Done(t, FALSE) \/ Done(t, TRUE)
    /\ UNCHANGED <<cfg, fresh, old, used, pages>>

-----------------------------------------------------------------------------
\* The rest of the pipeline and time.

\* Every attempt updates its row, which may grow or shrink: nobody asks
\* EnsureCapacity for the message, its parts or the text of an error.
UpdateRow ==
    /\ fresh > 0
    /\ \E s, t \in Extent(1) :
           /\ used - s \in Extent(Rows - 1)
           /\ used' = used - s + t
           /\ Write(t)
    /\ UNCHANGED <<cfg, fresh, old, pc, rotationVars, errors>>

\* A row is delivered or given up, and its retention passes.
Age ==
    /\ fresh > 0
    /\ fresh' = fresh - 1
    /\ old' = old + 1
    /\ UNCHANGED <<cfg, used, pages, file, frames, wal, pc, rotationVars, errors>>

Rotate(t) == Begin(t) \/ Select(t) \/ Delete(t) \/ Vacuum(t) \/ Finish(t)

Next ==
    \/ \E r \in Requests : Receive(r) \/ Check(r) \/ Insert(r) \/ InsertNothing(r)
    \/ \E t \in Threads : Rotate(t)
    \/ UpdateRow \/ Age

Spec == Init /\ [][Next]_vars

(***************************************************************************)
(* Goroutines keep running and retention passes.  The ticker's goroutine   *)
(* ticks again and gets the mutex in the end (sync.Mutex is starvation     *)
(* free); a request need not get it.                                       *)
(***************************************************************************)
Fairness ==
    /\ \A r \in Requests : WF_vars(Check(r) \/ Insert(r) \/ InsertNothing(r) \/ Rotate(r))
    /\ SF_vars(Rotate(Worker))
    /\ WF_vars(Age)

FairSpec == Spec /\ Fairness

-----------------------------------------------------------------------------
\* Properties.

\* Every variable has its type.
TypeOK ==
    /\ fresh \in Nat /\ old \in Nat /\ eligible \in Nat
    /\ used \in Nat /\ pages \in Nat /\ file \in Nat /\ frames \in Nat /\ wal \in Nat
    /\ pc \in [Threads -> {"idle", "check", "insert", "rotate", "loop",
                           "delete", "vacuum", "checkpoint"}]
    /\ rotateMu \in Threads \cup {None}
    /\ errors \in 0..MaxErrors

\* The rows a store of MaxSize pages can hold, and one of every request at work.
RowLimit == MaxSize + Cardinality(Requests)
PageLimit == MaxRow * RowLimit

\* STORE_MAX_SIZE_BYTES limits what EnsureCapacity lets in, not what the store grows
\* to: the rows it has let in may all grow to the largest row, the requests past the
\* check at the same time add one row each, and until the next checkpoint the WAL
\* holds what the database file holds.  It grows to that and no further.
StoreIsBounded ==
    /\ Rows <= RowLimit
    /\ pages <= PageLimit
    /\ SizeBytes <= 2 * PageLimit + AutoCheckpoint

\* Rotation as documented (README.md:825): with rotation and VACUUM a store above
\* its maximum comes back below it, once its rows have been settled and their
\* retention is over, whatever accepted watermarks it runs with.
PressureIsRelieved ==
    StoreRotationEnabled /\ StoreVacuumAfterRotation /\ SizeBytes > MaxSize
        ~> SizeBytes <= MaxSize

\* README.md:704: a 503 means that "the local store is full or temporarily
\* unavailable": with rotation on, a store above its maximum either comes back below
\* it or is full of rows, so that it does not refuse webhooks for ever while empty.
RoomIsFound ==
    StoreRotationEnabled /\ SizeBytes > MaxSize
        ~> SizeBytes <= MaxSize \/ used >= MaxSize
=============================================================================
