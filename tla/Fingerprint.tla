---------------------------- MODULE Fingerprint ----------------------------
(***************************************************************************)
(* The idempotency key: ComputeFingerprint and stableMapString of          *)
(* internal/service/alert_service.go, and the lookup they serve.           *)
(*                                                                         *)
(* A map is the sequence of its <<name, value>> pairs in the order Go      *)
(* happens to iterate over it.  head stands for the scalar fields in front *)
(* of the maps, tail for the field behind them; fields that do not enter   *)
(* the key are left out.  SHA-256 is taken to be free of collisions: the   *)
(* key is the string that is hashed.                                       *)
(***************************************************************************)
EXTENDS Text

CONSTANT Payloads    \* webhooks that may arrive

\* A map as the sequence of its pairs, and the fields of a webhook and of an alert.
IsMap(map) ==
    /\ map \in Seq(Strings \X Strings)
    /\ \A i, j \in 1..Len(map) : map[i][1] = map[j][1] => i = j

IsMaps(maps) == maps \in Seq(Seq(Strings \X Strings)) /\ \A i \in 1..Len(maps) : IsMap(maps[i])

IsAlert(alert) ==
    /\ alert.head \in Seq(Strings) /\ IsMaps(alert.maps) /\ alert.tail \in Seq(Strings)
    /\ Len(alert.head) + Len(alert.maps) + Len(alert.tail) > 1

IsPayload(p) ==
    /\ p.head \in Seq(Strings) /\ IsMaps(p.maps) /\ Len(p.head) + Len(p.maps) > 0
    /\ p.alerts \in Seq(Range(p.alerts)) /\ \A alert \in Range(p.alerts) : IsAlert(alert)

\* The lines of ComputeFingerprint fix how many fields there are of each kind.
SameFields(r, s) == Len(r.head) = Len(s.head) /\ Len(r.maps) = Len(s.maps)

ASSUME FingerprintAssumption ==
    /\ \A p \in Payloads : IsPayload(p)
    /\ \A p, q \in Payloads :
          /\ SameFields(p, q)
          /\ \A r \in Range(p.alerts), s \in Range(q.alerts) :
                SameFields(r, s) /\ Len(r.tail) = Len(s.tail)

VARIABLES
    payload,    \* the webhook that has arrived
    stored,     \* the webhook a row was stored for
    key,        \* idempotencyKey, of the webhook that has arrived
    column,     \* the idempotency_key of the row
    found       \* what GetByIdempotencyKey says: "", "row" or "none"

fingerprintVars == <<payload, stored, key, column, found>>

Pairs(map) == [i \in DOMAIN map |-> map[i][1] \o <<Equals>> \o map[i][2]]

\* A slip: the pairs stay in iteration order.
unstableMapString(map) == Join(Pairs(map), <<Comma>>)

stableMapString(map) ==
    Join(Pairs(SortByName(Range(map))), <<Comma>>)

MapStrings(maps) == [i \in DOMAIN maps |-> stableMapString(maps[i])]

AlertString(alert) ==
    Join(alert.head \o MapStrings(alert.maps) \o alert.tail, <<Bar>>)

ComputeFingerprint(p) ==
    LET alerts == [i \in DOMAIN p.alerts |-> AlertString(p.alerts[i])] IN
    Join(p.head \o MapStrings(p.maps), <<Bar>>) \o <<Bar>>
        \o Join(SortStrings(alerts), <<Bar, Bar>>)

FingerprintInit ==
    /\ payload \in Payloads
    /\ stored \in Payloads
    /\ key = ComputeFingerprint(payload)
    /\ column = ComputeFingerprint(stored)
    /\ found = ""

\* GetByIdempotencyKey: a row with the same key makes the webhook a duplicate.
LookupKey ==
    /\ found = ""
    /\ found' = IF key = column THEN "row" ELSE "none"
    /\ UNCHANGED <<payload, stored, key, column>>

-----------------------------------------------------------------------------
\* Properties.

\* Maps without their order, alerts without theirs.
Content(alert) ==
    [head |-> alert.head, maps |-> [i \in DOMAIN alert.maps |-> Range(alert.maps[i])],
     tail |-> alert.tail]

Copies(alert, p) == {i \in DOMAIN p.alerts : Content(p.alerts[i]) = Content(alert)}

\* Every alert comes as often in one as in the other.
SameAlerts(p, q) ==
    \A alert \in Range(p.alerts) \cup Range(q.alerts) :
        Cardinality(Copies(alert, p)) = Cardinality(Copies(alert, q))

Identical(p, q) ==
    /\ p.head = q.head
    /\ \A i \in DOMAIN p.maps : Range(p.maps[i]) = Range(q.maps[i])
    /\ SameAlerts(p, q)

\* No string holds what separates it from the next one.  A value may hold "=", as
\* URLs and descriptions do, since only the first "=" of a pair separates.
PlainFields(fields) == \A i \in DOMAIN fields : ~HoldsAny(fields[i], {Bar})

PlainMaps(maps) ==
    \A i \in DOMAIN maps : \A pair \in Range(maps[i]) :
        /\ ~HoldsAny(pair[1], {Equals, Comma, Bar})
        /\ ~HoldsAny(pair[2], {Comma, Bar})

Unambiguous(p) ==
    /\ PlainFields(p.head) /\ PlainMaps(p.maps)
    /\ \A alert \in Range(p.alerts) :
          PlainFields(alert.head) /\ PlainMaps(alert.maps) /\ PlainFields(alert.tail)

\* README.md:802: a webhook finds a row exactly when it is identical to the one the
\* row was stored for, in whatever order its alerts and its labels come, as long as
\* no string holds the separators of the canonical string.
KeyIsTheContent ==
    found # "" /\ Unambiguous(payload) /\ Unambiguous(stored)
        => (found = "row" <=> Identical(payload, stored))
=============================================================================
