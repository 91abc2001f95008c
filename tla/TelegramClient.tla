--------------------------- MODULE TelegramClient ---------------------------
(***************************************************************************)
(* One part of an event on its way to Telegram: HTTPClient.SendMessage     *)
(* turns whatever comes back into a sent message or an error, and          *)
(* handleSendError turns the error into the next state of the event.       *)
(*                                                                         *)
(* Telegram, the network and the egress proxy between them are external.   *)
(* Times are counted in units; durations are signed integers of Width      *)
(* bits, as time.Duration is one of 64.                                    *)
(***************************************************************************)
EXTENDS Integers, FiniteSetsExt

CONSTANTS
    Width,                \* bits of a duration
    Second,               \* units of a duration in a second
    RetryBaseDelay, RetryMaxDelay,
    MaxDeliveryAttempts,
    MaxClaims,            \* bound: attempts, those that aborts add included
    HttpStatuses,         \* status codes a reply may have
    RetryAfters,          \* seconds in retry_after and in Retry-After
    Dates                 \* how far ahead the date of a Retry-After may lie

ASSUME ClientAssumption ==
    /\ Width \in Nat \ {0, 1}
    /\ RetryBaseDelay \in Nat \ {0}
    /\ RetryMaxDelay \in Nat /\ RetryBaseDelay <= RetryMaxDelay
    /\ RetryMaxDelay < 2 ^ (Width - 1)
    /\ MaxDeliveryAttempts \in Nat \ {0}
    /\ MaxClaims \in Nat
    /\ HttpStatuses \subseteq 200..599
    /\ Second \in Nat \ {0}
    /\ RetryAfters \subseteq Int
    /\ Dates \subseteq 1..(2 ^ (Width - 1) - 1)

(***************************************************************************)
(* What may come back.  net: the transport error, if any.  body: JSON that *)
(* fits the fields, something else, more than the size limit or cut short. *)
(* ok, code, after: the fields, zero where nothing was read; JSON of other *)
(* types fills some of them (SendMessage passes message_id on unseen).     *)
(* header, date: Retry-After as seconds or as a date still ahead, both     *)
(* zero when it is absent.  posted: whether the chat got the part.         *)
(***************************************************************************)
NetErrors == {"canceled", "timeout", "dns", "network", "unknown"}
Bodies == {"json", "garbage", "huge", "cut"}

Reply == [net : NetErrors \cup {"none"}, status : HttpStatuses, body : Bodies,
          ok : BOOLEAN, code : HttpStatuses \cup {0},
          after : RetryAfters \cup {0}, header : RetryAfters \cup {0},
          date : Dates \cup {0}, posted : BOOLEAN]

\* Telegram answers ok only for a message it posted, and no 4xx for one.
Possible(r) ==
    /\ r.net # "none" => r.status = 200 /\ r.body = "cut" /\ r.header = 0 /\ r.date = 0
    /\ r.body \in {"huge", "cut"} => ~r.ok /\ r.code = 0 /\ r.after = 0
    /\ r.header = 0 \/ r.date = 0
    /\ r.ok => r.posted /\ r.code = 0 /\ r.after = 0
    /\ r.posted => r.status \notin 400..499 /\ r.code \notin 400..499
    /\ r.body = "json" /\ r.posted /\ r.status < 400 => r.ok

Replies == {r \in Reply : Possible(r)}

\* No reply to handle.
NoReply == [net |-> "none", status |-> 200, body |-> "json", ok |-> FALSE, code |-> 0,
            after |-> 0, header |-> 0, date |-> 0, posted |-> FALSE]

VARIABLES
    state,      \* the event: open, waiting, delivered, failed, dead_letter
    attempt,    \* record.AttemptCount
    last,       \* the last reply
    cancelled,  \* the parent context was cancelled before its error was handled
    wait        \* the delay of the scheduled retry

vars == <<state, attempt, last, cancelled, wait>>

-----------------------------------------------------------------------------
\* HTTPClient.SendMessage

\* Signed arithmetic of Width bits.
Wrap(n) == ((n + 2 ^ (Width - 1)) % 2 ^ Width) - 2 ^ (Width - 1)

\* time.Duration(n) * time.Second
Seconds(n) == Wrap(n * Second)

\* A slip: the header is ignored.
BodyOnly(r) == Seconds(r.after)

\* parameters.retry_after; when that comes to nothing, the Retry-After header:
\* seconds, if positive, or a date.
RetryAfter(r) ==
    IF Seconds(r.after) # 0 THEN Seconds(r.after)
    ELSE IF r.header > 0 THEN Seconds(r.header)
    ELSE r.date

\* A slip: only the status of the reply counts.
StatusOnly(r) == r.status

\* error_code replaces the status of a reply that is an error only in its body.
StatusCode(r) == IF r.status < 400 /\ ~r.ok /\ r.code # 0 THEN r.code ELSE r.status

\* A slip: an answer that cannot be read is final.
GarbageIsFinal(status, garbage) == status = 429 \/ status >= 500

\* buildAPIError
Retryable(status, garbage) ==
    \/ status = 429
    \/ status >= 500
    \/ garbage /\ status < 400

\* SendMessage returns a SentMessage.
Sent(r) == r.net = "none" /\ r.body = "json" /\ r.status < 400 /\ r.ok

\* The APIError it returns otherwise.
APIError(r) ==
    IF r.net # "none" THEN [retryable |-> r.net # "canceled", after |-> 0]
    ELSE IF r.body \in {"cut", "huge"} THEN [retryable |-> TRUE, after |-> 0]
    ELSE [retryable |-> Retryable(StatusCode(r), r.body = "garbage"), after |-> RetryAfter(r)]

-----------------------------------------------------------------------------
\* handleSendError

\* A slip: no care for an overflow.
DoubleUnchecked(delay) ==
    IF Wrap(2 * delay) >= RetryMaxDelay THEN RetryMaxDelay ELSE Wrap(2 * delay)

\* One round of backoff's loop; RetryMaxDelay stays what it is.
Double(delay) ==
    IF Wrap(2 * delay) >= RetryMaxDelay \/ Wrap(2 * delay) <= 0
    THEN RetryMaxDelay ELSE Wrap(2 * delay)

backoff(n) ==
    LET delay[k \in 1..n] == IF k = 1 THEN RetryBaseDelay ELSE Double(delay[k - 1])
    IN  delay[n]

\* Equal jitter: delay * [0.5, 1.0), cut to an integer (backoff is positive).
Jittered(delay) == IF delay > 0 THEN (delay \div 2)..(delay - 1) ELSE {delay}

\* The waits that may follow attempt n.
NextRetry(n, after) == {Max({delay, after}) : delay \in Jittered(backoff(n))}

Init ==
    /\ state = "open"
    /\ attempt = 0
    /\ last = NoReply
    /\ cancelled = FALSE
    /\ wait = 0

\* ClaimForSend, the call and its answer.
Send ==
    /\ state = "open"
    /\ attempt < MaxClaims
    /\ attempt' = attempt + 1
    /\ \E r \in Replies, c \in BOOLEAN :
          /\ r.net = "canceled" => c
          /\ last' = r
          /\ cancelled' = (c /\ ~Sent(r))
          /\ state' = IF Sent(r) THEN "delivered" ELSE "error"
    /\ UNCHANGED wait

\* The parent context is gone: retry at once, the error does not count.
Abort ==
    /\ state = "error"
    /\ cancelled
    /\ state' = "waiting"
    /\ wait' = 0
    /\ UNCHANGED <<attempt, last, cancelled>>

Refuse ==
    /\ state = "error"
    /\ ~cancelled /\ ~APIError(last).retryable
    /\ state' = "failed"
    /\ UNCHANGED <<attempt, last, cancelled, wait>>

Exhaust ==
    /\ state = "error"
    /\ ~cancelled /\ APIError(last).retryable
    /\ attempt >= MaxDeliveryAttempts
    /\ state' = "dead_letter"
    /\ UNCHANGED <<attempt, last, cancelled, wait>>

Schedule ==
    /\ state = "error"
    /\ ~cancelled /\ APIError(last).retryable
    /\ attempt < MaxDeliveryAttempts
    /\ state' = "waiting"
    /\ wait' \in NextRetry(attempt, APIError(last).after)
    /\ UNCHANGED <<attempt, last, cancelled>>

\* next_retry_at passes, or an identical webhook does not wait for it, and the event
\* is claimed again.
Elapse ==
    /\ state = "waiting"
    /\ state' = "open"
    /\ last' = NoReply
    /\ cancelled' = FALSE
    /\ wait' = 0
    /\ UNCHANGED attempt

Next == Send \/ Abort \/ Refuse \/ Exhaust \/ Schedule \/ Elapse

Spec == Init /\ [][Next]_vars

-----------------------------------------------------------------------------
\* Properties.

\* Telegram, or a proxy, asks to come back later: by the status or, where that is no
\* error, by error_code.
Throttled(r) ==
    /\ r.net = "none"
    /\ \/ r.status = 429
       \/ r.status < 400 /\ ~r.ok /\ r.code = 429

\* Nothing that the chat may have got, or that Telegram only puts off, is written off
\* as failed, and nothing is taken for sent that Telegram did not post: what is
\* unclear is tried again.
VerdictIsSound ==
    /\ state = "failed" => ~last.posted /\ ~Throttled(last)
    /\ state = "delivered" => last.posted

\* The time Telegram or a proxy asks for, as a number without bounds.
Asked(r) ==
    IF r.after # 0 THEN r.after * Second
    ELSE IF r.header > 0 THEN r.header * Second
    ELSE r.date

\* The retry of a throttled event is scheduled no earlier than asked, in the body or,
\* failing that, in the Retry-After header, whether 429 is the status or error_code
\* and whether the body can be read or not.  Two exceptions: a time that is no
\* duration any more (the code multiplies without a check, and only the backoff is
\* left), and a body cut short or over the limit, for which SendMessage returns
\* before it looks at the header.  ClaimForSend does not look at next_retry_at: an
\* identical webhook may still send earlier.
ThrottleIsRespected ==
    state = "waiting" /\ ~cancelled
    /\ Throttled(last) /\ last.body \in {"json", "garbage"}
    /\ Asked(last) < 2 ^ (Width - 1)
        => wait >= Asked(last)

\* The exponential delay without a bound on its size, as the reference.
Exponential(n) == Min({RetryBaseDelay * 2 ^ (n - 1), RetryMaxDelay})

\* The backoff doubles up to its maximum whatever the width of a duration, and
\* jitter takes off at most half of it.
BackoffIsExponential ==
    state = "waiting" /\ ~cancelled
        => LET d == Exponential(attempt) IN
           /\ 2 * wait >= d - 1
           /\ wait < d \/ wait = APIError(last).after
=============================================================================
