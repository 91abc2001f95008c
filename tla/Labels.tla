------------------------------- MODULE Labels -------------------------------
(***************************************************************************)
(* The labels a message shows: sanitizeStringMap, filterLabels, and        *)
(* renderWhereLines or renderGroupContext of internal/template/renderer.go.*)
(*                                                                         *)
(* A map is a set of <<name, value>> pairs with different names; every     *)
(* range over a map visits them in an order of its own.                    *)
(***************************************************************************)
EXTENDS Text

CONSTANTS
    LabelSets,             \* labels an alert or a group may have
    noisyLabels,           \* lower-case names that are never shown
    Pod,                   \* the name "pod"
    ExporterPods,          \* values with a prefix of exporterPodPrefixes
    whereLabelPriority, groupContextPriority,
    MaxKeyLen, MaxValueLen

ASSUME LabelsAssumption ==
    /\ \A pairs \in LabelSets :
          /\ pairs \subseteq Strings \X Strings /\ IsFiniteSet(pairs)
          /\ \A l, m \in pairs : l[1] = m[1] => l = m
    /\ \A priority \in {whereLabelPriority, groupContextPriority} :
          /\ priority \in Seq(Strings)
          /\ \A i, j \in DOMAIN priority : EqualFold(priority[i], priority[j]) => i = j
    /\ MaxKeyLen \in Nat \ {0, 1} /\ MaxValueLen \in Nat \ {0, 1}

VARIABLES
    labels,      \* the labels received
    list,        \* what is rendered: "where" lines or group "context"
    pass,        \* where the rendering is
    left,        \* labels the range at hand has not visited
    source,      \* the map at hand
    nextName,    \* index in the list of preferred names
    shown        \* the pairs selected so far, in order

labelVars == <<labels, list, pass, left, source, nextName, shown>>

Priority == IF list = "where" THEN whereLabelPriority ELSE groupContextPriority

LabelsInit ==
    /\ labels \in LabelSets
    /\ list \in {"where", "context"}
    /\ pass = "sanitize"
    /\ left = labels
    /\ source = {}
    /\ nextName = 1
    /\ shown = <<>>

\* Trimmed, escaped, and cut to maxLen characters, the last one an ellipsis.
sanitize(s, maxLen) ==
    LET escaped == EscapeString(TrimSpace(s)) IN
    IF Len(escaped) <= maxLen THEN escaped
    ELSE Append(SubSeq(escaped, 1, maxLen - 1), Ellipsis)

Sanitized(l) == <<sanitize(l[1], MaxKeyLen), sanitize(l[2], MaxValueLen)>>

\* A slip: a name overwrites the other spellings of it as well.
StoredFolded(map, l) == {m \in map : ~EqualFold(m[1], l[1])} \cup {l}

\* The map with l in it: a name that is already there is overwritten.
Stored(map, l) == {m \in map : m[1] # l[1]} \cup {l}

sanitizeStringMap ==
    /\ pass = "sanitize"
    /\ \E l \in left : source' = Stored(source, Sanitized(l)) /\ left' = left \ {l}
    /\ UNCHANGED <<labels, list, pass, nextName, shown>>

isExporterPod(value) == value \in ExporterPods

filtered(pairs) ==
    {l \in pairs : /\ ToLower(l[1]) \notin noisyLabels
                   /\ ~(EqualFold(l[1], Pod) /\ isExporterPod(l[2]))}

filterLabels ==
    /\ pass = "sanitize"
    /\ left = {}
    /\ source' = filtered(source)
    /\ pass' = "prefer"
    /\ UNCHANGED <<labels, list, left, nextName, shown>>

\* The range breaks at the first name that matches the preferred one.
PreferName ==
    LET matches == {l \in source : EqualFold(l[1], Priority[nextName])} IN
    /\ pass = "prefer"
    /\ nextName <= Len(Priority)
    /\ nextName' = nextName + 1
    /\ IF matches = {} THEN UNCHANGED shown
                       ELSE \E l \in matches : shown' = Append(shown, l)
    /\ UNCHANGED <<labels, list, pass, left, source>>

\* Two slips: the preferred labels are listed a second time, or the others are
\* only listed when none is preferred.
RemainderWithSeen == source
RemainderIfNone == IF shown = <<>> THEN source ELSE {}

\* Labels that no preferred name stands for.
Remainder ==
    {l \in source : \A i \in DOMAIN shown : ~EqualFold(l[1], shown[i][1])}

\* orderedLabelPairs: the preferred labels come first.
EndWhereLines ==
    /\ pass = "prefer" /\ list = "where"
    /\ nextName > Len(Priority)
    /\ shown' = shown \o SortByName(Remainder)
    /\ pass' = "done"
    /\ UNCHANGED <<labels, list, left, source, nextName>>

\* selectOnlyPreferredLabels and joinPairs: every label if none is preferred.
EndGroupContext ==
    /\ pass = "prefer" /\ list = "context"
    /\ nextName > Len(Priority)
    /\ shown' = SortByName(IF shown = <<>> THEN source ELSE Range(shown))
    /\ pass' = "done"
    /\ UNCHANGED <<labels, list, left, source, nextName>>

LabelsNext ==
    sanitizeStringMap \/ filterLabels \/ PreferName \/ EndWhereLines \/ EndGroupContext

-----------------------------------------------------------------------------
\* Properties.

\* The labels received, sanitized.
Clean == {Sanitized(l) : l \in labels}

\* Two labels whose sanitized names differ at most in case.
Twins ==
    \E l \in labels : \E m \in labels \ {l} :
        EqualFold(Sanitized(l)[1], Sanitized(m)[1])

\* Position in the list of preferred names; the others come behind them all.
PriorityOf(l) ==
    Min({i \in DOMAIN Priority : EqualFold(l[1], Priority[i])} \cup {Len(Priority) + 1})

Preferred(pairs) == {l \in pairs : PriorityOf(l) <= Len(Priority)}

ByPriority(pairs) ==
    {p \in pairs \X pairs :
        \/ PriorityOf(p[1]) < PriorityOf(p[2])
        \/ PriorityOf(p[1]) = PriorityOf(p[2]) /\ p \in ByName(pairs)}

Expected ==
    LET kept == filtered(Clean)
    IN  IF list = "where" THEN Sorted(kept, ByPriority(kept))
        ELSE SortByName(IF Preferred(kept) = {} THEN kept ELSE Preferred(kept))

\* Two renderings of an alert show the same labels in the same order, each of them
\* once, although Go iterates over a map in a random order: what is shown is a
\* function of the labels, unless two names are told apart only by their case or by
\* what sanitize cuts off.
LabelsAreCanonical == pass = "done" /\ ~Twins => shown = Expected

\* What the map may hold under the name of the label l: one of the labels that have
\* the name of l once it is sanitized, whichever the range visits last.
MayStandFor(l) == {m \in Clean : m[1] = Sanitized(l)[1]}

\* The lines of an alert hold no name twice and nothing but labels of the alert that
\* are neither noisy nor an exporter's pod; and every label received has its name
\* among them, in one of its spellings.  The exception is a name for which the map
\* may hold a label that is filtered: " p" and "p" are one name, and when the value
\* of the second is an exporter's pod the first may disappear with it.
EveryNameIsShown ==
    pass = "done" /\ list = "where" =>
        /\ \A i, j \in DOMAIN shown : shown[i][1] = shown[j][1] => i = j
        /\ \A i \in DOMAIN shown : shown[i] \in filtered(Clean)
        /\ \A l \in labels : MayStandFor(l) \subseteq filtered(Clean) =>
              \E i \in DOMAIN shown : EqualFold(shown[i][1], Sanitized(l)[1])
=============================================================================
