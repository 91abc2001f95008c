------------------------------- MODULE Outbox -------------------------------
(***************************************************************************)
(* What the proxy promises for every event it stores: an at-least-once     *)
(* outbox.  An event is open until the chat has received all of it or the  *)
(* proxy has given up on it; it may be opened again, and it is forgotten   *)
(* only once it is closed.                                                 *)
(***************************************************************************)
CONSTANTS Keys, Alerts

VARIABLES
    box,   \* the state of each event
    got    \* what the chat has received of it

outboxVars == <<box, got>>

Closed == {"delivered", "given_up"}

OutboxTypeOK ==
    /\ box \in [Keys -> {"none", "open"} \cup Closed]
    /\ got \in [Keys -> SUBSET Alerts]

OutboxInit ==
    /\ box = [k \in Keys |-> "none"]
    /\ got = [k \in Keys |-> {}]

\* A webhook is persisted: a new event, of which nothing has been sent.
Store(k) ==
    /\ box[k] = "none"
    /\ box' = [box EXCEPT ![k] = "open"]
    /\ got' = [got EXCEPT ![k] = {}]

\* The chat receives some of the event; what it has, it keeps.
Post(k, part) ==
    /\ box[k] # "none"
    /\ got' = [got EXCEPT ![k] = got[k] \cup part]
    /\ UNCHANGED box

\* 'delivered' only when nothing is missing.
Complete(k) ==
    /\ box[k] # "none"
    /\ got[k] = Alerts
    /\ box' = [box EXCEPT ![k] = "delivered"]
    /\ UNCHANGED got

GiveUp(k) ==
    /\ box[k] # "none"
    /\ box' = [box EXCEPT ![k] = "given_up"]
    /\ UNCHANGED got

\* A closed event may be tried again: nothing is promised about duplicates.
Reopen(k) ==
    /\ box[k] \in Closed
    /\ box' = [box EXCEPT ![k] = "open"]
    /\ UNCHANGED got

Retire(ks) ==
    /\ \A k \in ks : box[k] \in Closed
    /\ box' = [k \in Keys |-> IF k \in ks THEN "none" ELSE box[k]]
    /\ UNCHANGED got

OutboxNext ==
    \/ \E k \in Keys : \/ Store(k) \/ Complete(k) \/ GiveUp(k) \/ Reopen(k)
                       \/ \E part \in SUBSET Alerts : Post(k, part)
    \/ \E ks \in SUBSET Keys : Retire(ks)

OutboxSpec == OutboxInit /\ [][OutboxNext]_outboxVars
=============================================================================
