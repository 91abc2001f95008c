---------------------------- MODULE MessageSplit ----------------------------
(***************************************************************************)
(* buildPassthroughMessages and splitMessage: the message Grafana rendered *)
(* is sent as it is, cut into parts when it is too long for Telegram.      *)
(*                                                                         *)
(* A message is a sequence of characters of three classes: ink, blanks     *)
(* (space, tab and newline, at which a message may be cut) and other white *)
(* space, such as a carriage return or U+00A0, which strings.TrimSpace     *)
(* removes but at which lastFittingCut does not cut.                       *)
(***************************************************************************)
EXTENDS Naturals, Sequences, FiniteSetsExt

CONSTANTS
    Limit,      \* MaxTelegramMessageChars
    MaxLen,     \* bound: characters of the payload's message
    Titles      \* titles the payload may have

Chars == {"ink", "blank", "other"}

VARIABLES
    message,    \* payload.Message, then the trimmed text that is sent
    title,      \* payload.Title
    step,       \* where the function is
    from,       \* remaining is message[from..Len(message)]
    parts       \* the parts cut so far: the positions <<first, last>> of each

Ink(s) == {i \in 1..Len(s) : s[i] = "ink"}

\* strings.TrimSpace
TrimSpace(s) == IF Ink(s) = {} THEN <<>> ELSE SubSeq(s, Min(Ink(s)), Max(Ink(s)))

Init ==
    /\ message \in UNION {[1..n -> Chars] : n \in 0..MaxLen}
    /\ title \in Titles
    /\ step = "choose"
    /\ from = 1
    /\ parts = <<>>

\* The message, or the title when it is blank, or an error when both are.
Choose ==
    LET text == IF TrimSpace(message) # <<>> THEN TrimSpace(message) ELSE TrimSpace(title) IN
    /\ step = "choose"
    /\ message' = text
    /\ step' = IF text = <<>> THEN "error" ELSE "split"
    /\ UNCHANGED <<title, from, parts>>

Remaining == Len(message) - from + 1

\* A slip: the cut comes one character late.
CutLate(first) ==
    LET blanks == {i \in first + 1..first + Limit : message[i] = "blank"} IN
    IF blanks # {} THEN Max(blanks) + 1 ELSE first + Limit + 1

\* A slip: the text is always cut at the limit.
CutAtLimit(first) == first + Limit

\* The position of the last blank among the first Limit characters, its very
\* first one excepted, or the position of the character after them.
lastFittingCut(first) ==
    LET blanks == {i \in first + 1..first + Limit - 1 : message[i] = "blank"} IN
    IF blanks # {} THEN Max(blanks) ELSE first + Limit

\* What remains fits.
LastPart ==
    /\ step = "split"
    /\ Remaining \in 1..Limit
    /\ parts' = Append(parts, <<from, Len(message)>>)
    /\ step' = "done"
    /\ UNCHANGED <<message, title, from>>

\* A slip: the character at the cut is dropped, blank or not.
CutPartDropping ==
    LET cut == lastFittingCut(from) IN
    /\ step = "split"
    /\ Remaining > Limit
    /\ parts' = Append(parts, <<from, Max({i \in Ink(message) : i < cut})>>)
    /\ from' = Min({i \in Ink(message) : i > cut} \cup {Len(message) + 1})
    /\ UNCHANGED <<message, title, step>>

\* A slip: the cut is at position 0 when no blank was seen, and the empty segment in
\* front of it is skipped.
CutPartSkipping ==
    LET blanks == {i \in from + 1..from + Limit - 1 : message[i] = "blank"}
        cut == IF blanks = {} THEN from ELSE Max(blanks)
        ink == {i \in Ink(message) : from <= i /\ i < cut} IN
    /\ step = "split"
    /\ Remaining > Limit
    /\ parts' = IF ink = {} THEN parts ELSE Append(parts, <<Min(ink), Max(ink)>>)
    /\ from' = Min({i \in Ink(message) : i >= cut} \cup {Len(message) + 1})
    /\ step' = IF from' > Len(message) THEN "done" ELSE step
    /\ UNCHANGED <<message, title>>

\* The trimmed segment before the cut is a part, the trimmed rest remains.
CutPart ==
    LET cut == lastFittingCut(from)
        ink == {i \in Ink(message) : from <= i /\ i < cut} IN
    /\ step = "split"
    /\ Remaining > Limit
    /\ parts' = Append(parts, IF ink = {} THEN <<>> ELSE <<Min(ink), Max(ink)>>)
    /\ from' = Min({i \in Ink(message) : i >= cut} \cup {Len(message) + 1})
    /\ step' = IF from' > Len(message) THEN "done" ELSE step
    /\ UNCHANGED <<message, title>>

Returned == step \in {"done", "error"}

-----------------------------------------------------------------------------
\* Properties.

\* Telegram refuses empty and over-long texts: every part has some ink, starts
\* and ends with it, and is within the limit.  In particular the second trim of
\* splitMessage, for an empty part, is never needed.
PartsAreSendable ==
    \A n \in 1..Len(parts) :
        /\ parts[n] # <<>>
        /\ message[parts[n][1]] = "ink" /\ message[parts[n][2]] = "ink"
        /\ parts[n][2] - parts[n][1] < Limit

\* Nothing but white space is lost or repeated: every character of ink is in
\* exactly one part, and the parts are in the order of the text.
NoInkLost ==
    step = "done" =>
        /\ \A i \in Ink(message) :
              Cardinality({n \in 1..Len(parts) : parts[n][1] <= i /\ i <= parts[n][2]}) = 1
        /\ \A n \in 1..Len(parts) - 1 : parts[n][2] < parts[n + 1][1]

\* A word is cut in two only when there was no blank to cut at since the start of
\* the part: the part is then full.
WordsAreKept ==
    \A n \in 1..Len(parts) - 1 :
        parts[n + 1][1] = parts[n][2] + 1 => /\ parts[n][2] - parts[n][1] = Limit - 1
                                             /\ \A i \in parts[n][1]..parts[n][2] : message[i] # "blank"
=============================================================================
