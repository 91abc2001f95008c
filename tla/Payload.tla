------------------------------ MODULE Payload ------------------------------
(***************************************************************************)
(* What the service computes from one webhook: the key it is recognised by *)
(* (Fingerprint), the labels its messages show (Labels), and the messages  *)
(* of buildMessages, which packs rendered alerts or cuts the text Grafana  *)
(* rendered, as ALERT_MESSAGE_SOURCE says (ChunkPacking, MessageSplit).    *)
(*                                                                         *)
(* These are functions of the payload that share no state, so a behaviour  *)
(* computes one of them, chosen at its start.                              *)
(***************************************************************************)
EXTENDS ChunkPacking, Fingerprint, Labels

CONSTANTS
    PassthroughLimit,    \* MaxTelegramMessageChars, at the scale of MessageSplit
    MaxLen, Titles       \* see MessageSplit

VARIABLES
    task,                                   \* what is computed
    message, title, cutStep, from, parts    \* see MessageSplit

splitVars == <<message, title, cutStep, from, parts>>
payloadVars == <<task, vars, fingerprintVars, labelVars, splitVars>>

Split == INSTANCE MessageSplit WITH Limit <- PassthroughLimit, step <- cutStep

Tasks == {"key", "labels", "template", "alertmanager"}

ASSUME SplitAssumption ==
    /\ PassthroughLimit \in Nat \ {0}
    /\ MaxLen \in Nat
    /\ Titles \subseteq Seq(Split!Chars)

\* What is not computed has one value, whichever.
AnyFrame == CHOOSE f \in Frames : TRUE
AnyPayload == CHOOSE p \in Payloads : TRUE
AnyTitle == CHOOSE t \in Titles : TRUE

PackingIdle ==
    /\ frame = AnyFrame /\ alerts = <<>>
    /\ step = "whole" /\ index = 0 /\ text = 0
    /\ current = EmptyChunk(1) /\ chunks = <<>> /\ messages = <<>>

FingerprintIdle ==
    /\ payload = AnyPayload /\ stored = AnyPayload
    /\ key = <<>> /\ column = <<>> /\ found = ""

LabelsIdle ==
    /\ labels = {} /\ list = "where" /\ pass = "sanitize" /\ left = {}
    /\ source = {} /\ nextName = 1 /\ shown = <<>>

SplitIdle ==
    /\ message = <<>> /\ title = AnyTitle
    /\ cutStep = "choose" /\ from = 1 /\ parts = <<>>

PayloadInit ==
    /\ task \in Tasks
    /\ IF task = "template" THEN Init ELSE PackingIdle
    /\ IF task = "key" THEN FingerprintInit ELSE FingerprintIdle
    /\ IF task = "labels" THEN LabelsInit ELSE LabelsIdle
    /\ IF task = "alertmanager" THEN Split!Init ELSE SplitIdle

\* The function returns when no step of it is left.
Computed ==
    CASE task = "template" -> Returned
      [] task = "alertmanager" -> Split!Returned
      [] task = "key" -> found # ""
      [] task = "labels" -> pass = "done"

PackMessages ==
    /\ task = "template"
    /\ \/ RenderWhole \/ CheckWhole \/ Measure \/ StartPacking
       \/ Pack \/ EndPacking \/ RenderChunk \/ Finish \/ FailRender
    /\ UNCHANGED <<task, fingerprintVars, labelVars, splitVars>>

CutMessage ==
    /\ task = "alertmanager"
    /\ Split!Choose \/ Split!LastPart \/ Split!CutPart
    /\ UNCHANGED <<task, vars, fingerprintVars, labelVars>>

RecognisePayload ==
    /\ task = "key"
    /\ LookupKey
    /\ UNCHANGED <<task, vars, labelVars, splitVars>>

SelectLabels ==
    /\ task = "labels"
    /\ LabelsNext
    /\ UNCHANGED <<task, vars, fingerprintVars, splitVars>>

PayloadNext ==
    \/ PackMessages \/ CutMessage \/ RecognisePayload \/ SelectLabels
    \/ Computed /\ UNCHANGED payloadVars

PayloadSpec == PayloadInit /\ [][PayloadNext]_payloadVars /\ WF_payloadVars(PayloadNext)

-----------------------------------------------------------------------------
\* Properties: those of the modules, and

\* Every computation ends: no loop of the packer, of the cutter or of the label
\* selection stays where it is.
Terminates == <>Computed

\* Telegram refuses empty and over-long texts: see MessageSplit.
PartsAreSendable == Split!PartsAreSendable

\* The cuts lose and repeat nothing but white space: see MessageSplit.
NoInkLost == Split!NoInkLost

\* A word is only cut where no blank was to be had: see MessageSplit.
WordsAreKept == Split!WordsAreKept
=============================================================================
