----------------------------- MODULE MCPayload -----------------------------
EXTENDS Payload

\* A frame whose counters gain a character at the third alert, one that leaves no
\* room for alerts and one whose text for "no alerts" is the longest.
MCUsual == [m \in 0..MaxAlerts |-> IF m = 0 THEN 3 ELSE IF m < 3 THEN 4 ELSE 5]
MCLarge == [m \in 0..MaxAlerts |-> 11]
MCShrinking == [m \in 0..MaxAlerts |-> IF m = 0 THEN 5 ELSE 3]
MCFrames == {MCUsual, MCLarge, MCShrinking}
MCTitles == {<<>>, <<"other">>, <<"blank", "ink", "ink", "blank", "ink", "ink", "ink", "ink", "ink">>}

\* Letters: a, b, n, P, p, x, y, z.
a == 97
b == 98
n == 110
P == 80
p == 112
x == 120
y == 121
z == 122

\* Maps with up to two pairs, in either order, with values that hold separators.
Names == {<<a>>, <<b>>}
Values == {<<>>, <<x>>, <<Equals, x>>, <<x, Comma, b, Equals>>}
Pair == Names \X Values
MCMaps == {<<>>} \cup {<<q>> : q \in Pair}
            \cup {<<q, r>> : q \in Pair, r \in Pair}
TwoNames(map) == Len(map) = 2 => map[1][1] # map[2][1]

MCFew == {<<>>, <<<<<<a>>, <<x>>>>, <<<<b>>, <<>>>>>>, <<<<<<b>>, <<>>>>, <<<<a>>, <<x>>>>>>}
MCAlert(map, v) == [head |-> <<<<>>, <<z>>>>, maps |-> <<map>>, tail |-> <<v>>]
MCAlerts == {MCAlert(map, v) : map \in MCFew, v \in {<<>>, <<x>>}}
MCPayload(s, t, map, few) == [head |-> <<s, t>>, maps |-> <<map, <<>>>>, alerts |-> few]

\* Webhooks that differ in their maps, in their fields, and in their alerts.
MCPayloads ==
    {MCPayload(<<>>, <<>>, map, <<>>) : map \in {m \in MCMaps : TwoNames(m)}}
    \cup {MCPayload(s, t, map, <<>>) :
            s \in {<<>>, <<x>>}, t \in {<<>>, <<x>>, <<Bar>>}, map \in MCFew}
    \cup {MCPayload(<<>>, <<>>, <<>>, few) : few \in UNION {[1..k -> MCAlerts] : k \in 1..2}}

\* Two spellings of "p" (the pod) and of "b", blanks, a character to escape, and
\* names that are the same once cut to three characters.
LabelNames == {<<a>>, <<b>>, <<b - 32>>, <<n>>, <<P>>, <<p>>, <<Blank, p>>, <<Less>>,
               <<x, y, z, a>>, <<x, y, z, b>>}
MCLabelSets ==
    UNION {{{<<m, v[m]>> : m \in names} : v \in [names -> {<<y>>, <<z>>}]} :
            names \in UNION {kSubset(k, LabelNames) : k \in 0..3}}
MCNoisy == {<<n>>}
MCPod == <<p>>
MCExporterPods == {<<z>>}
MCWherePriority == <<<<b>>, <<p>>>>
MCContextPriority == <<<<p>>, <<b>>>>
=============================================================================
