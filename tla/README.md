# TLA+ verification of webhook-telegram-proxy

The proxy takes Grafana alert webhooks over HTTP, stores each one in SQLite, and
posts it to a Telegram chat with retries, restart recovery and duplicate
detection. This directory models that pipeline in TLA+, checks it with TLC on
small instances and proves its safety properties with TLAPS for all instances. Paths below
are relative to the repository.

## 1. The system

### Components

| Component | Code | State | Operations |
|---|---|---|---|
| Webhook acceptance | `internal/service/alert_service.go`, `internal/http/handlers.go` | locals of one goroutine per request | `AcceptWebhook`: `EnsureCapacity`, lookup by key, insert, `MarkQueued`, one attempt, final read |
| Delivery service | `internal/service/delivery_service.go` | the claimed record of each attempt, `rotateMu` | `Run`, `RecoverPending`, `ProcessEventByID`, `ensureRenderedParts`, `handleSendError`, `RotateStore` |
| Deliveries table | `internal/store/sqlite.go`, `migrations.go` | one row per idempotency key: status, parts, sent parts, attempts, retry time | one SQL statement per method, one connection |
| Idempotency fingerprint | `alert_service.go` (`ComputeFingerprint`, `stableMapString`) | none | the key of a payload |
| Message building | `delivery_service.go` (`buildMessages`, `splitMessage`) | none | packing of alerts, splitting of text |
| Template renderer | `internal/template/renderer.go` | none | sanitizing, filtering and ordering of labels; templates |
| Telegram client | `internal/telegram/client.go` | none | `SendMessage` and the classification of its outcomes |
| Process | `cmd/server/main.go` | running, stopping, down | start with `RequeueSending`, SIGTERM, `Shutdown` |
| HTTP plumbing | `internal/http/router.go`, `middleware.go`, `handlers.go` | none | routes, auth, headers, panic recovery, health |
| Configuration | `internal/config/config.go` | none | `Parse`, `Validate` |
| Metrics, logging | `internal/metrics`, `internal/logging` | counters nobody reads back | observation |

### How they interact

Requests and the worker goroutine of `Run` call the same `ProcessEventByID` on
the same table; the only mutual exclusion is the `WHERE status IN (...)` of
`ClaimForSend`. `rotateMu` serialises rotations, not rotation and delivery. A
request's context ends when its client goes away, the worker's on SIGTERM, and
every store call and Telegram call runs on one of them, except for the
best-effort writes behind `persistCtx` and the reschedule of an aborted send.

### What is hard

* **Interleaving**: a request between its INSERT and its `MarkQueued`, the worker
  and duplicates of the same webhook all see the row.
* **Failure**: a crash, SIGTERM, a disconnect, a panic or a store error between any
  two steps; an answer of Telegram lost after the message was posted; a power loss
  that takes commits back.
* **Answers**: what a client was told about an event and what other goroutines do
  with it afterwards; a client that repeats what was not answered 2xx.
* **Contexts**: a write on a cancelled context fails without telling whether it
  took effect.
* **Time**: retry times, backoff overflow, `retry_after`, retention.
* **Space**: a file that DELETE does not shorten, a WAL that VACUUM fills.
* **Boundaries**: packing and splitting at Telegram's limit; settings that cannot be
  read.
* **Order**: maps that are iterated over in a random order, alerts listed in another.

What makes each component correct: nothing is marked delivered before the chat
has it all; nothing stored is forgotten; duplicates only where the program could
not know; attempts bounded and not spent for nothing; rotation never touches open
work; the store bounded; messages within the limit with nothing lost; unclear
answers retried. `PROJECT.json` lists the hazards one by one, at their lines.

## 2. Modules

| Module | Models |
|---|---|
| `Store` | the table: one operator from table to table per SQL statement |
| `Delivery` | requests, worker, table, Telegram and process, composed |
| `Ingress` | `Delivery` as its HTTP clients see it, panics and power losses |
| `Outbox` | the abstract promise: an at-least-once outbox |
| `DeliveryProofs`, `ChatProofs`, `AttemptProofs` | theorems about `Delivery` |
| `IngressProofs` | theorems about `Ingress` |
| `ChunkPacking` | `buildMessages` in template mode |
| `MessageSplit` | `buildPassthroughMessages` and `splitMessage` |
| `Text` | strings and the library functions on them |
| `Fingerprint` | `ComputeFingerprint` and the lookup by key |
| `Labels` | the labels a message shows |
| `Payload` | what is computed from one payload: the four above |
| `Config` | settings read, defaulted and validated |
| `StoreRotation` | `EnsureCapacity`, `RotateStore` and the files of the database, under any accepted configuration |
| `TelegramClient` | `SendMessage`, `handleSendError` and the backoff |
| `PayloadProofs`, `TextProofs` | theorems about `Payload`: packing and cutting, key and labels |
| `StoreRotationProofs`, `TelegramClientProofs` | theorems about `StoreRotation` and `TelegramClient` |
| `MC*` | values for the constants of the module they extend |

Definitions named in a comment as *slips* (`ClaimableInFlight`, `ExhaustedLate`,
...) are wrong versions of the definition that follows them. No specification
uses them; each is put in the place of its neighbour to see that a property
notices.

### Store and Delivery

One action is one store statement or one Telegram call together with the local
computation behind it: with one connection a statement is atomic, and everything
else may happen between two of them. `pc[t]` says what goroutine `t` does next
and `job[t]` holds its locals: `ev` the event, `parts`, `sent` and `attempts` the
record `ClaimForSend` returned, and `to`, `wait` and `bg` what the last write of
a failed attempt will be (status, retry time in the future or now, background
context or not).

| Code | Actions |
|---|---|
| `AcceptWebhook` | `Receive`, `EnsureCapacity`, `Lookup`, `Create`, `Queue`, `Load` |
| `ProcessEventByID` | `Claim`, `Render`, `SendAccepted`, `MarkChunk`, `Deliver` |
| `handleSendError`, best-effort writes | `SendRefused`, `SendTransient`, `SendAborted`, `Settle` |
| `Run`, `RecoverPending` | `RecoveryTick`, `NextInBatch`, `RotationTick` |
| `RotateStore` | `SelectVictims`, `DeleteVictims` |
| `main`, clients, time | `Restart`, `Sigterm`, `Exit`, `Crash`, `Disconnect`, `BackoffElapses` |

Abstractions:

* An event is named by its idempotency key, its content is a set of pieces
  (`Alerts`), and a rendering is a sequence of disjoint parts that cover it.
  `Renderings` has several members because the default template prints ages
  ("5m ago"), so two attempts may build different parts.
* `created_at` is the set of older keys (`elders`), enough for `ORDER BY ... LIMIT`;
  `next_retry_at` is whether it lies in the future (`waiting`).
* A failing statement (`StoreFault`) leaves the table alone; one whose context is
  cancelled (`ExecFails`) may or may not have taken effect.
* `EnsureCapacity` and the watermarks may have any outcome here; `StoreRotation`
  looks inside.
* Retention is at least an hour. A row whose id a goroutine still has in hand
  (`HoldsEvent`) was written less than a retention window ago, so rotation does
  not select it. This is the one use of real time in the model.
* Ghost variables record what properties need: what the chat has (`reached`),
  what it has twice (`repeated`), accepted parts the store did not record
  (`unrecorded`), rows whose `MarkQueued` came after their first claim
  (`overwritten`) and refused sends (`tries`). Their history restarts with the row.

### Ingress

`Ingress` extends `Delivery` and takes its steps over unchanged; each of its actions
is a step of `Delivery` with what it means outside:

| Code | Actions |
|---|---|
| `webhookReceiver` up to `AcceptWebhook`, `authorizeWebhook` | `Refuse` (401, 415, 413, 400), `Admit` |
| `AcceptWebhook`, `loadAcceptResult` | `Serve`: the step, and `StatusCode` when the handler returns with it |
| `recoverMiddleware` | `Panic`: the handler ends wherever it is, deferred calls have run, 500 |
| worker, clients, process | `Background`, `Stop` |
| SQLite and the machine | `Sync`, `PowerLoss` |

`call[r]` holds the locals that decide the code: whether the row was found and
whether the attempt returned an error. `reply` is the code the last step answered
with. `told`, `bounced` and `rebounced` are ghosts: events a client was answered
200 for, and 502 for, once or more than once; they live as long as the row.

With `synchronous=NORMAL` a commit survives the process but not a power loss before
the next sync of the WAL. `synced` is the table at the last sync, together with
what the chat had by then and the rows that were `overwritten` by then; `PowerLoss`
goes back to it, while the chat keeps what it has. What a set-back row had
recorded counts as `unrecorded`, and a row that was `overwritten` in either history
stays so: the table may come back with a row of an earlier life of its key.

### Payload: fingerprint, labels, packing, splitting

`Payload` composes the functions of one payload. They share no state, so each
behaviour computes one of them (`task`), over every input the run enumerates.

`Fingerprint` and `Labels` work on strings of characters (`Text`), because their
properties are about separators, case, blanks and order. A map is a sequence of
pairs in the order Go happens to iterate over it (`Fingerprint`), or a set from
which a range picks in any order (`Labels`); only sorting makes the order go away.
SHA-256 is taken to be free of collisions. `Sorted` is sorting by rank: a member of
a set stands behind as many others as precede it in a given order. `sort.Strings`
has equal strings to place as well, so `SortStrings` sorts the positions.

The map that `sanitizeStringMap` builds may be smaller than the one received: " p" and
"p" are one name once trimmed, and so are two long names that are cut alike. `Stored`
overwrites, as the assignment in the range does, so the label kept under such a name
is the one the range visits last. If that one is an exporter's pod, the filter then
takes the name away altogether; `EveryNameIsShown` starts from the labels received
and exempts only the names for which this may happen.

`ChunkPacking` and `MessageSplit` keep lengths, not text. A message with m alerts is as long as the template's
frame for m alerts, plus the alerts' own text, plus the part header. Any of the
renderings may fail (`FailRender`), as may a renderer that is missing; the event then
fails for good.
`MessageSplit` keeps three classes of characters: ink, blanks at which
`lastFittingCut` cuts, and white space that `TrimSpace` removes and that is no
place to cut.

### StoreRotation

Sizes in pages. A row takes 1 to `MaxRow` of them: a payload may be as long as the
body limit, and every update changes the size of its row. `SaveRenderedParts` adds
the message and its parts, `ScheduleRetry` and `MarkDelivered` add their texts, and
none of them asks `EnsureCapacity`. `used` is the room all rows take; which row takes
how much is left open. `Commit` is SQLite in WAL mode (external): every write appends
frames, a checkpoint copies them, DELETE leaves free pages that later rows use,
VACUUM writes the whole database through the WAL. A request measures, waits for
`rotateMu`, rotates, measures again, and then stores a row or, for a duplicate or a
failed statement, nothing; the worker rotates whenever its ticker fires. Rows grow,
are settled and age meanwhile.

The configuration is chosen at the start: `Settings` are environments in which a
setting is missing, blank, unreadable or a value, `Parse` replaces what cannot be
read by its default, and only what `Validate` accepts starts. The defaults 60, 80
and 100 MiB, rotation without VACUUM, become 1, 2 and 3 pages.

### TelegramClient

One part over several attempts. `Replies` is everything that may come back: network
errors, any status, JSON or not, an `error_code` in the body, `retry_after` in the
body, a `Retry-After` header in seconds (positive or not) or as a date, and whether
the chat got the message. Telegram itself is external: `Possible` says that it posts
what it answers `ok` to, and does not post what it refuses with a 4xx. Durations are
signed integers of `Width` bits, and `Second` is the length of a second: a number of
seconds becomes a duration by a multiplication that may overflow (`Seconds`).

`ThrottleIsRespected` is about every answer that throttles: 429 as the status, with a
body that can be read or not, or as the `error_code` of an answer whose status is no
error. It exempts what the code does not give: a time too long for a duration, and a
body cut short or over the limit, for which `SendMessage` returns before it looks at
the header. It speaks of the retry that is scheduled; a duplicate webhook may claim
the event earlier (section 3).

## 3. Runs

Runs expected to pass:

| Run | Instance | Shows |
|---|---|---|
| `Delivery_faults` | one request, worker, two parts, two attempts, one restart, one disconnect, one store error | `OnlyKnownDuplicates`, `AttemptsBounded`, `DeadLetterIsEarned`, `SendingHasOwner`, `ProgressIsKept`, and `ImplementsOutbox`: `Delivery` implements `Outbox` |
| `Delivery_rotation` | two events, one unrenderable, rotation by request and ticker, one disconnect | `RetiresOnlyTerminal` |
| `Delivery_liveness` | one request, worker, rotation, two restarts, with fairness | `EventuallySettled`, `EveryRequestReturns` |
| `Ingress_race` | two identical webhooks, worker, one part, one fault: crash, SIGTERM, disconnect or panic | `ClaimIsExclusive`, `ClosedIsNotResent`, `OneBadGateway`, `ServerErrorHasCause` |
| `Ingress_power` | one request, worker, two renderings, one fault: as above or a power loss | `DeliveredIsComplete`, `OnlyKnownDuplicates` |
| `Payload` | 9 600 pairs of webhooks; label sets of up to three of ten names; up to four alerts of five lengths and three shapes of template; every text of up to eight characters, limit three | `KeyIsTheContent`; `LabelsAreCanonical`, `EveryNameIsShown`; `NoAlertLost`, `PackingIsTight`, `ReserveSuffices`; `PartsAreSendable`, `NoInkLost`, `WordsAreKept`; `Terminates` |
| `StoreRotation` | two requests, ticker, rows of one or two pages, one failure, twelve environments, with fairness | `StoreIsBounded`, `PressureIsRelieved` |
| `TelegramClient` | five statuses, six values of `retry_after`, two dates, six attempts, 6-bit durations | `VerdictIsSound`, `ThrottleIsRespected`, `BackoffIsExponential` |

Runs expected to find a violation, because the code does not do what a comment or
the README says:

| Run | Claim | What happens |
|---|---|---|
| `Delivery_claim` | "two workers cannot claim the same record" (`sqlite.go:309`) | the worker claims the fresh row, `MarkQueued` reopens it, the request claims it too |
| `Delivery_strand` | "avoid stranding records in 'sending'" (`delivery_service.go:34`) | the context ends during the write, not before it |
| `ChunkPacking_header` | "our budget math should prevent this" (`delivery_service.go:477`) | the default header, `<b>📦 Part 2 of 3</b>` and a blank line, has 22 characters and the reserve 16 |
| `StoreRotation_full` | 503 means "full or temporarily unavailable" (`README.md:704`) | with the default settings a store that was once above its maximum has no row left, and refuses every webhook for ever |

Other places were met where a comment or the README promises more than the
code does. They have no run of their own:

* `MarkQueued` may also reopen a row that the worker has just delivered
  ("already delivered identical webhooks are not sent again", `README.md:58`), and
  if the two owners render differently, `sent_parts` of one rendering is applied
  to the parts of the other. Both have the cause that `Delivery_claim` shows.
* `ClaimForSend` does not look at `next_retry_at`: a duplicate webhook, or a worker
  with an old list, claims a waiting row ("Respect Telegram's retry_after",
  `delivery_service.go:582`).
* An aborted send has already counted as an attempt ("the next claim doesn't burn
  another attempt", `delivery_service.go:553`); `DeadLetterIsEarned` says how many.
* A webhook that measures the store between another goroutine's VACUUM and its
  checkpoint is refused ("only when the store genuinely can't fit more work",
  `delivery_service.go:99`), and the loop of `RotateStore` never sees a smaller
  file, so it deletes every row past its retention ("Cleanup target size",
  `README.md:533`).
* Two different payloads share a key when their strings hold separators: a label
  set `{a: "1,b=2"}` and `{a: "1", b: "2"}` have the same canonical string, and the
  second webhook is answered as a duplicate ("deduplication of identical webhooks",
  `README.md:36`). `KeyIsTheContent` says which strings are safe: "=" in a value
  is, "," and "|" are not. `values`, `truncatedAlerts` and the dashboard, panel and
  silence URLs are not part of the key at all.
* `STORE_MAX_SIZE_BYTES` is no "Hard store size limit" (`README.md:530`):
  `EnsureCapacity` stands in front of new webhooks only, rows grow after it, and what
  it lets in at once may be several payloads. `StoreIsBounded` says how far the store
  may grow: the rows that were let in and one for every request past the check, each
  as large as a row can be, and that once more in the WAL. It takes for granted that
  SQLite's own checkpoint completes, as it does with one connection and no other
  process at the file.
* A `retry_after` of more than 292 years overflows a `Duration` (`client.go:444`,
  `client.go:498`) and becomes another time, or none ("Respect Telegram's
  retry_after", `delivery_service.go:582`).
* Of two labels that differ only in case and that `whereLabelPriority` names, one is
  shown, and which one is random. `LabelsAreCanonical` exempts them.
* A 202 is also the answer for a first webhook whose row another goroutine holds
  (`README.md:698` speaks of duplicates only).
* `SendMessage` does not look at `message_id` (`README.md:65`), and the wait is the
  larger of `retry_after` and the local backoff, not `retry_after`
  (`client.go:55`).

The passing properties are stated so that these races do not hide others:
`DeliveredIsComplete` and `ClaimIsExclusive` exempt `overwritten` rows only, and
`SendingHasOwner` exempts only behaviours with a disconnect or a store error.
`ClosedIsNotResent` exempts `overwritten` rows and rows a power loss took back.

### Bounds

`MaxRestarts`, `MaxDisconnects` and `MaxStoreErrors` bound the faults and sit in
the guards of `Sigterm`, `Crash`, `Disconnect` and `StoreFault`; `tries` stops
counting at `MaxDeliveryAttempts`, the largest value a property asks for. Two
parts are enough for a fault before, between and after them, two attempts for a
retry and a dead letter, two requests and the worker for every race between
winner, loser and recovery. One fault of each kind shows what each costs; the
theorems remove the bounds for the properties they cover. In `StoreRotation` a
process that starts has a low watermark of 1 page and a high one and a maximum of 2,
and rows of 1 or 2 pages, with which a full batch, the last short batch, rows that
grow past the maximum and overshoot by both requests occur; it comes without
rotation, with it, and with VACUUM. Nine of the twelve environments are refused,
because the low watermark is not below the high one or the high one exceeds the
maximum.
`Ingress` adds `MaxPanics` and `MaxPowerLosses` and bounds the sum of all faults by
`MaxFaults` = 1: any of them may come at any point, and `Delivery_faults` combines
three. `Ingress_race` has one part and one rendering, which is enough to see who
sends what after which answer; `Ingress_power` has two renderings, because a
power loss may leave `sent_parts` of one and take the parts of another.
`Delivery_liveness` has one key: with two, rows may become eligible for rotation
while a rotation runs, which the age cutoffs of `RotateStore`, computed once, rule
out and `Delivery` does not keep. In `MessageSplit` eight characters and a limit
of three give up to four parts. In `TelegramClient` durations have 6 bits, so 5 doubles to 20 and
then overflows below the maximum of 29, and of the six values of `retry_after`, at 4
units a second, one is negative, two fit, and three overflow: to a negative duration,
to nothing, and to one that is too short. `MaxClaims` bounds the attempts, and deadlock is not checked because the
event ends or reaches that bound.

Requests are symmetric in the runs without liveness properties.

### Fairness

`Delivery`: every goroutine keeps running (weak fairness per goroutine: Go's
scheduler, timeouts on every call), a stopping process exits
(`HTTPShutdownTimeout`) and is started again (`Restart=` of the service unit),
retry times pass, and the recovery tick has strong fairness, as `select` chooses
at random between ready tickers. `rotateMu` is handed to whoever waits for it:
strong fairness of each goroutine's rotation steps. Nothing is assumed of Telegram or of clients. The
liveness run has no disconnects and no store errors: `Delivery_strand` shows what
they do. `StoreRotation`: requests keep running (weak fairness of each), rows grow
old, and the worker's rotation has strong fairness: its ticker fires again and
`sync.Mutex` is starvation free. Nothing asks that a request get the mutex. `Payload`:
the function keeps running.

## 4. Proofs

Every invariant, every action property and the refinement that a run checks is also
a theorem, from the ASSUMEs of the modules (and `FixedRendering`, for the refinement)
alone. The theorems hold for every set of requests, events, alerts, labels, texts and
renderings, every maximum and every number of faults.

| Theorem | States |
|---|---|
| `DeliveryProofs!TypeCorrect` | `Spec => []TypeOK` |
| `DeliveryProofs!ClaimExclusive`, `RotationIsSafe` | `ClaimIsExclusive`, `RetiresOnlyTerminal` |
| `ChatProofs!DeliveredComplete`, `KnownDuplicates`, `ProgressKept` | `DeliveredIsComplete`, `OnlyKnownDuplicates`, `ProgressIsKept` |
| `ChatProofs!AtLeastOnce` | `Spec => ImplementsOutbox`, for a fixed rendering |
| `AttemptProofs!SendingOwned`, `BoundedAttempts`, `EarnedDeadLetters` | `SendingHasOwner`, `AttemptsBounded`, `DeadLetterIsEarned` |
| `IngressProofs!ToldIsTold`, `SingleBadGateway`, `CausedServerErrors` | `ClosedIsNotResent`, `OneBadGateway`, `ServerErrorHasCause` |
| `IngressProofs!PowerSafe` | `DeliveredIsComplete`, `OnlyKnownDuplicates` and `ClaimIsExclusive` under panics and power losses |
| `StoreRotationProofs!RotationTypes`, `BoundedStore` | `TypeOK`, `StoreIsBounded` |
| `TelegramClientProofs!SoundVerdicts`, `ThrottleRespected`, `ExponentialBackoff` | `VerdictIsSound`, `ThrottleIsRespected`, `BackoffIsExponential` |
| `PayloadProofs!PackingTypes`, `AllAlertsPacked`, `TightPacking`, `ReserveIsEnough` | `TypeOK`, `NoAlertLost`, `PackingIsTight`, `ReserveSuffices` |
| `PayloadProofs!PartsFit`, `InkIsKept`, `WordsAreWhole` | `PartsAreSendable`, `NoInkLost`, `WordsAreKept` |
| `TextProofs!KeyIsContent` | `KeyIsTheContent` |
| `TextProofs!LabelsInOneOrder`, `NamesAreShown` | `LabelsAreCanonical`, `EveryNameIsShown` |

### Assumptions

`RenderingsAssumption` and `DeliveryAssumption`: a rendering cuts the event into
disjoint parts that cover it; the maxima are positive; the value that stands for
"no event" and "no goroutine" is neither (`NoKey`). `RotationAssumption` asks that the
requests served at the same time be finitely many, because the bound of the store
counts them, and that the largest row have at least a page. `ClientAssumption`: the
delays and the dates of a header fit a duration. `PackingAssumption` and `SplitAssumption`: lengths and limits are natural
numbers, there is a template, and the limit of a message is not zero.
`FingerprintAssumption`: webhooks and alerts have as many fields and maps as the lines
of `ComputeFingerprint` write, the same for all of them, an alert at least two; a map
has one value per name. `LabelsAssumption`: label sets are finite maps, no name is
twice in a list of preferred names, and the length limits leave room for the
ellipsis. `AtLeastOnce` has the hypothesis `FixedRendering`: with renderings that
differ, an overwritten row may be closed incomplete, as section 3 says.

### The pipeline

* *Types.* `TypeOK` is not inductive by itself: that `job[t].parts[job[t].sent + 1]`
  is a part, or that `db` stays a table when `job[t].ev` indexes it, depends on where
  goroutine `t` is. `LocalsOK` says what the locals are at each `pc`, and
  `TypeOK /\ LocalsOK` is inductive (`TypeStep`).
* *Claims.* `ClaimInv` adds `HeldRowsOK` (an event id in hand names a row; the rows
  rotation is about to delete are closed and in nobody's hands; nothing runs while
  the process is down) and `OwnersOK` (a row with an owner is 'sending', or
  'delivered' by a write that reported an error, so that it is not open to claims).
  Without `HeldRowsOK` a row could be deleted and inserted again under its owner.
  Steps are those of an owner (`OwnedStep`), of a goroutine with an event in hand
  (`HeldStep`) or of the rest (`LooseStep`). For `RotationIsSafe`, every step keeps
  the rows outside `victims` (`Kept`).
* *Kinds of steps.* `ChatProofs` first describes every action by what it does to one
  event (`StepKinds`: `Claimed`, `Accepted`, `MarkStops`, `Queued`, `Deleted`,
  `Ended`, ..., or `Apart` when it has nothing to do with it). The later proofs go
  through these kinds, not through the actions.
* *The chat.* `ChatInv` relates row, owners and chat in both directions. `ChatOK`:
  the first `sent_parts` parts are in the chat, and so are those an owner has counted
  (this gives `DeliveredIsComplete`). `ExactOK`: as long as nothing went unrecorded
  and one goroutine at a time holds the row, the other parts are not, but for the
  one whose `MarkChunkSent` is about to come (this gives `OnlyKnownDuplicates`).
* *The promise.* For `AtLeastOnce`, `PromiseStep` maps every step to a step of
  `Outbox` or to a stutter, with `ChatInv` for the step that delivers.
* *Attempts.* `AttemptInv` counts chances: the goroutines whose attempt may still end
  with another one to come, and the row itself while it waits for a claim. Attempts
  so far and chances together are at most `MAX_DELIVERY_ATTEMPTS` and what faults
  have paid for (`ChanceOK`). A claim turns the chance of the row into an attempt; a
  fault, or a `MarkQueued` on a claimed row, pays for what it adds. A stop pays twice,
  for the attempt SIGTERM interrupts and for the row `RequeueSending` queues again;
  until the restart one of the two is not spent (`Credit`). `TriesOK` is the same
  count for refused sends. A row has two owners at most, since `MarkQueued` runs once
  per row (`QueueOK`).

### The clients and the machine

`IngressInv` carries `ChatInv` through the two steps that are not steps of `Delivery`.
A panic leaves the row as a goroutine that ends does (`Abandoned`). A power loss
needs an invariant on what it brings back (`SnapshotOK`): the last sync was not
ahead of the chat of its time, and the chat has only grown since. That proof
first failed because the snapshot did not remember which rows had been
`overwritten`; TLC then showed the case, with rotation and two faults.

For `ToldIsTold`, a row in a terminal status is *shut*: nobody owns it (`Closed`), or
all its parts are counted, so that whoever claims it only closes it again (`Spent`).
The second case is a `MarkDelivered` that took effect but reported an error: its
goroutine reschedules a row that a client may already have been told is delivered.
`ShutStep` shows that no step opens such a row. For `SingleBadGateway`, `Fresh(r, k)`
says that request `r` inserted the row of `k`; there is one such request at most, and
none once the 502 was given, because an insert finds no row and the answer is
forgotten with the row. For `CausedServerErrors`, `CodeFacts` goes through the places
where a handler returns: a 500 for a row that disappeared is ruled out by
`HeldRowsOK`.

### Store, client, messages

* *The store.* `StoreIsBounded` follows from a count of rows, because their sizes
  change behind the check. In `SizeInv`, what `EnsureCapacity` measures is never less
  than the number of rows: the rows take `used` pages, at least one each, which the
  file and the frames of the WAL hold (`DiskOK`). So a request that passes its check
  finds at most `MaxSize` rows, and the rows and the requests past their check
  together are at most `RowLimit` (`AdmittedOK`). Rows of at most `MaxRow` pages take
  at most `PageLimit`, and no file ever holds more; the WAL is checkpointed after
  `AutoCheckpoint` frames and thus never longer than that and one commit (`FilesOK`).
* *Telegram.* `ClientInv` ties the verdict and the wait to the reply. A number of
  seconds that is a duration is not changed by the multiplication (`Wrap` is the
  identity on what fits). The backoff is a
  loop: `BackoffValue` shows by induction that after n doublings the delay is the
  capped exponential one, whether or not the product overflows. The induction is
  the library's well-founded one, restated for a set of numbers (`SetInduction`)
  because the provers cannot instantiate an operator; 2^n is at hand as the number
  of subsets of a set of n elements (`PowerOfTwo`).
* *Packing.* `PackInv` follows `buildMessages` from step to step. Sums of lengths are
  differences of prefix sums S, which are not state: the invariant says that *some* S
  satisfies the recurrence, and the loop that adds up the alerts extends it. A chunk
  is then a run of alerts whose size is one difference (`RunOK`), and chunks follow
  each other without a gap (`ChainOK`). `PayloadPacks` carries the invariant over to
  `PayloadSpec`.
* *Cutting.* `CutInv` says of the text before `from` that its ink is in the parts cut
  so far, which are sendable and in order (`CutUpTo`), and of the rest that it begins
  and ends with ink. The latter is what makes the invariant inductive: a cut then
  always has ink on both sides, so that no part is blank and the only way
  out of the loop is `LastPart`. `CutPlace` is the property of `lastFittingCut` this rests on: a cut that
  is not at a blank is at the limit, with no blank before it. Extrema of sets of
  positions exist because the natural numbers are well-founded (`MinOfSet`).

### Labels and the key

* *Sorting.* `Before` is shown to be a strict total order of strings. In such an order
  the number of predecessors grows from a member to a later one and takes every value
  below the cardinality (`RankGrows`, `RankTaken`), so `Sorted` is what its name says
  (`SortedFacts`), and it is the only sequence that lists the set in order
  (`SortedUnique`). The sorted sequence of a list holds every string as often as the
  list does (`SortFacts`), and two lists in order that hold the same strings equally
  often are equal (`SameInOrder`).
* *Labels.* `LabelInv` follows the ranges. The map at hand holds sanitized labels
  only, and the name of every label visited is in it (`SanitizeOK`); when all that may
  stand under a name pass the filter, the name is in it afterwards, too (`KeptOK`).
  While no two labels become names that differ at most in case (`Twins`), the map is
  the image of the labels, filtered. The names shown so far
  ascend in the list of preferred names, and every name of the map that the list has
  come to is among them, whichever label of that name the range met first (`PreferOK`).
  With twins the choice is random: `LabelsAreCanonical` exempts them,
  `EveryNameIsShown` holds for them too.
* *The key.* `KeyIsContent` needs no invariant of steps beyond that the column is the
  fingerprint of the stored webhook (`KeyInv`). Its content is `KeyIdentity`:
  `ComputeFingerprint` is injective up to the order of labels and alerts. What is
  joined with a separator that its parts do not hold is read back from the end
  (`LastSeparator`, `ReadBack`, `SameJoin`), a pair from its first "="
  (`FirstSeparator`), because a value may hold another. Pairs, maps, fields of an
  alert and the list of alerts are read back in turn (`PairsBack`, `MapsBack`,
  `AlertBack`, `ListBack`). The last is the hard one: "||" between alerts is
  two bars like those between fields, an empty field gives the same two, and nothing
  says how many alerts there are. It holds because an alert has a fixed number of
  fields and at least two: the alerts are read from the end, one alert's fields at a
  time, and the fields of a webhook are never the fields of another one and
  something more (`NoContinuation`), so both lists end at the same place.
* *Induction.* The induction theorems of the library are out of the provers' reach;
  all inductions here, over the length of a list or of a text, use `SetInduction`:
  a set of numbers that holds 0 and the successor of each of its members is Nat.

### Only model-checked

* Liveness under fairness (`EventuallySettled`, `EveryRequestReturns`,
  `PressureIsRelieved`, `Terminates`): outside this prover's reach.
* The four violations of section 3, which need one behaviour each and no proof.
* Refinement when renderings differ: `AtLeastOnce` does not apply, and `Outbox` is not
  implemented (section 3). `PowerSafe` says what then still holds.

## 5. Not modelled

* What templates print beside labels: icons, times, links, layout. Markup: a part
  of a passthrough text may end inside an HTML tag.
* Settings other than those of the store; metrics and logs.
* Routes, request ids, headers, response bodies; `/health`, `/readyz`, `/livez` and
  `/metrics`, which read state and change none.
* `Requeue` and `DeleteTerminalBefore`, which nothing calls.
* The identity of event ids across a deletion and a new insertion of the same key,
  which retention keeps at least an hour apart.
* The cutoffs of one rotation in `Delivery`; `StoreRotation` has them (`eligible`).
* That nobody is kept from the head of the recovery queue for ever. No property
  covers it: `AttemptsBounded` is about one event, and a turn at the head that costs
  no attempt would satisfy it. It is the subject of step 3 below.

## 6. Plan

1. *Done*: the pipeline (`Store`, `Delivery`, `Outbox`), its clients and the machine
   (`Ingress`), everything computed from a payload (`Payload`), the store
   (`StoreRotation` with `Config`), `TelegramClient`; every invariant, action property
   and the refinement proved.
2. What the theorems of `Delivery` say under the faults of `Ingress` for
   attempts and dead letters, where a power loss also takes attempts back.
3. A `Recovery` module with more due rows than `WORKER_BATCH_SIZE`, and retry times
   that a duplicate webhook cuts short.
