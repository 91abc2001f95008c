---------------------------- MODULE ChunkPacking ----------------------------
(***************************************************************************)
(* DeliveryService.buildMessages in template mode: how the alerts of one   *)
(* webhook are packed into Telegram messages.                              *)
(*                                                                         *)
(* Only lengths matter.  A message with m alerts is as long as the         *)
(* template's frame for m alerts (status line, counters, group context),   *)
(* plus the alerts' own text, plus the "Part i of n" header when there are *)
(* several messages.                                                       *)
(***************************************************************************)
EXTENDS Integers, Sequences

CONSTANTS
    Limit,             \* MaxTelegramMessageChars
    MaxAlerts,         \* bound: alerts in one webhook
    Frames,            \* frames a payload may have: the length around m alerts
    PartHeader,        \* length of the template's "Part i of n" header
    PartCountReserve,  \* partCountReserve
    AlertSizes         \* lengths an alert's own text may have

ASSUME PackingAssumption ==
    /\ Limit \in Nat
    /\ MaxAlerts \in Nat \ {0}
    /\ Frames \subseteq [0..MaxAlerts -> Nat] /\ Frames # {}
    /\ PartHeader \in Nat
    /\ PartCountReserve \in Nat
    /\ AlertSizes \subseteq Nat

VARIABLES
    frame,        \* the frame of the webhook's messages
    alerts,       \* the lengths of the webhook's alerts, in order
    step,         \* where buildMessages is
    index,        \* alerts rendered, measured or packed so far
    text,         \* text of the alerts rendered so far
    current,      \* the chunk being filled
    chunks,       \* the chunks closed so far
    messages      \* the chunks rendered so far

vars == <<frame, alerts, step, index, text, current, chunks, messages>>

(***************************************************************************)
(* A chunk: the alerts from..to (none when to < from), the size the packer *)
(* charges for them (currentSize) and the text they really hold.           *)
(***************************************************************************)
Chunk == [from : Nat, to : Nat, size : Nat, text : Nat]
EmptyChunk(from) == [from |-> from, to |-> from - 1, size |-> 0, text |-> 0]
IsEmpty(c) == c.to < c.from
Count(c) == c.to - c.from + 1

\* The budget left for alerts by the empty shell and the reserve.
AlertBudget == Limit - (frame[0] + PartCountReserve)

\* A slip: no care for a shell that is longer than the message with one alert.
MeasuredSigned(n) == frame[1] + n - frame[0]

\* What rendering one alert alone adds to the empty shell, or all of it when the
\* shell without alerts is the longer one.
Measured(n) == IF frame[1] + n < frame[0] THEN frame[1] + n ELSE frame[1] + n - frame[0]

\* The length of a chunk rendered as one of n messages.
Rendered(c, n) == frame[Count(c)] + c.text + (IF n > 1 THEN PartHeader ELSE 0)

Init ==
    /\ frame \in Frames
    /\ alerts \in UNION {[1..n -> AlertSizes] : n \in 0..MaxAlerts}
    /\ step = "whole"
    /\ index = 0
    /\ text = 0
    /\ current = EmptyChunk(1)
    /\ chunks = <<>>
    /\ messages = <<>>

\* The text of the next alert is part of the whole message.
RenderWhole ==
    /\ step = "whole"
    /\ index < Len(alerts)
    /\ index' = index + 1
    /\ text' = text + alerts[index + 1]
    /\ UNCHANGED <<frame, alerts, step, current, chunks, messages>>

\* The whole batch fits in one message, or the shell leaves no room for alerts,
\* or the alerts are to be measured.
CheckWhole ==
    LET whole == frame[Len(alerts)] + text IN
    /\ step = "whole"
    /\ index = Len(alerts)
    /\ index' = 0
    /\ \/ whole <= Limit /\ step' = "single"
       \/ whole > Limit /\ AlertBudget <= 0 /\ step' = "fatal"
       \/ whole > Limit /\ AlertBudget > 0 /\ step' = "measure"
    /\ UNCHANGED <<frame, alerts, text, current, chunks, messages>>

\* An alert that alone exceeds the budget fails the whole event.
Measure ==
    /\ step = "measure"
    /\ index < Len(alerts)
    /\ IF Measured(alerts[index + 1]) > AlertBudget
       THEN step' = "fatal" /\ UNCHANGED index
       ELSE step' = step /\ index' = index + 1
    /\ UNCHANGED <<frame, alerts, text, current, chunks, messages>>

StartPacking ==
    /\ step = "measure"
    /\ index = Len(alerts)
    /\ step' = "pack"
    /\ index' = 0
    /\ UNCHANGED <<frame, alerts, text, current, chunks, messages>>

\* Two slips: the test leaves the entry's own size out, or is off by one.
FullWithoutEntry(c, size) == ~IsEmpty(c) /\ c.size > AlertBudget
FullEarly(c, size) == ~IsEmpty(c) /\ c.size + size >= AlertBudget

\* The chunk is closed when the entry does not fit any more.
Full(c, size) == ~IsEmpty(c) /\ c.size + size > AlertBudget

Add(c, n) ==
    [c EXCEPT !.to = c.to + 1, !.size = c.size + Measured(n), !.text = c.text + n]

Pack ==
    LET n == alerts[index + 1] IN
    /\ step = "pack"
    /\ index < Len(alerts)
    /\ index' = index + 1
    /\ IF Full(current, Measured(n))
       THEN /\ chunks' = Append(chunks, current)
            /\ current' = Add(EmptyChunk(index + 1), n)
       ELSE /\ current' = Add(current, n)
            /\ UNCHANGED chunks
    /\ UNCHANGED <<frame, alerts, step, text, messages>>

\* A slip: the chunk that is still open is forgotten.
EndPackingShort ==
    /\ step = "pack"
    /\ index = Len(alerts)
    /\ step' = "render"
    /\ UNCHANGED <<frame, alerts, index, text, current, chunks, messages>>

\* The last chunk.
EndPacking ==
    /\ step = "pack"
    /\ index = Len(alerts)
    /\ chunks' = IF IsEmpty(current) THEN chunks ELSE Append(chunks, current)
    /\ current' = EmptyChunk(index + 1)
    /\ step' = "render"
    /\ UNCHANGED <<frame, alerts, index, text, messages>>

\* The final render of the next chunk, with the safety net.
RenderChunk ==
    LET n == Len(messages) + 1 IN
    /\ step = "render"
    /\ n <= Len(chunks)
    /\ IF Rendered(chunks[n], Len(chunks)) > Limit
       THEN step' = "overflow" /\ UNCHANGED messages
       ELSE step' = step /\ messages' = Append(messages, chunks[n])
    /\ UNCHANGED <<frame, alerts, index, text, current, chunks>>

Finish ==
    /\ step = "render"
    /\ Len(messages) = Len(chunks)
    /\ step' = "split"
    /\ UNCHANGED <<frame, alerts, index, text, current, chunks, messages>>

\* No renderer, or the template fails: on the whole batch or the empty shell, on an
\* alert to be measured, on a chunk.
FailRender ==
    /\ \/ step = "whole"
       \/ step = "measure" /\ index < Len(alerts)
       \/ step = "render" /\ Len(messages) < Len(chunks)
    /\ step' = "fatal"
    /\ UNCHANGED <<frame, alerts, index, text, current, chunks, messages>>

Returns == {"single", "fatal", "overflow", "split"}
Returned == step \in Returns

Next ==
    \/ RenderWhole \/ CheckWhole \/ Measure \/ StartPacking \/ Pack \/ EndPacking
    \/ RenderChunk \/ Finish \/ FailRender
    \/ Returned /\ UNCHANGED vars

Spec == Init /\ [][Next]_vars /\ WF_vars(Next)

-----------------------------------------------------------------------------
\* Properties.

\* Every variable has its type; in particular the sizes charged are naturals.
TypeOK ==
    /\ frame \in Frames
    /\ alerts \in Seq(AlertSizes)
    /\ step \in {"whole", "measure", "pack", "render"} \cup Returns
    /\ index \in 0..Len(alerts)
    /\ text \in Nat
    /\ current \in Chunk
    /\ chunks \in Seq(Chunk)
    /\ messages \in Seq(Chunk)

\* A split webhook loses nothing: there are at least two messages, and they are
\* consecutive nonempty runs of alerts, in the order received, from the first
\* alert to the last.
NoAlertLost ==
    step = "split" =>
        /\ Len(messages) > 1
        /\ messages[1].from = 1
        /\ messages[Len(messages)].to = Len(alerts)
        /\ \A i \in 1..Len(messages) : messages[i].from <= messages[i].to
        /\ \A i \in 1..Len(messages) - 1 : messages[i + 1].from = messages[i].to + 1

\* The packing is greedy: a chunk is closed only because the first alert of the
\* next one, charged at its own size, no longer fits.
PackingIsTight ==
    step = "split" =>
        \A i \in 1..Len(messages) - 1 :
            messages[i].size + Measured(alerts[messages[i + 1].from]) > AlertBudget

\* The header and the counters of a full frame fit in the reserve and in what
\* measuring every alert alone charges too much.
ReserveCovers ==
    /\ frame[1] >= frame[0]
    /\ \A m \in 1..MaxAlerts :
          frame[m] + PartHeader <= frame[0] + m * (frame[1] - frame[0]) + PartCountReserve

\* The budget arithmetic is sound for such templates: every chunk it closes is
\* within Telegram's limit once rendered with its part header, so the safety net
\* behind the final render never fires.
ReserveSuffices == ReserveCovers => step # "overflow"

\* delivery_service.go:477: "our budget math should prevent this": no chunk is
\* over the limit after the final render, whatever the template.
BudgetPreventsOverflow == step # "overflow"
=============================================================================
