----------------------------- MODULE FanOutOnce -----------------------------
(***************************************************************************)
(* What the durable lane of the domain-event bus promises to webhook       *)
(* receivers: a published event leads to at most one delivery for each     *)
(* endpoint, and nothing is delivered that was not published.  Outbox is   *)
(* shown to implement it.                                                  *)
(***************************************************************************)
EXTENDS Naturals

CONSTANTS Events, Endpoints

VARIABLES
    published,  \* events that have been published
    deliveries  \* how many deliveries of an event an endpoint was given

vars == <<published, deliveries>>

Init ==
    /\ published = {}
    /\ deliveries = [e \in Events |-> [p \in Endpoints |-> 0]]

Publish(e) ==
    /\ e \notin published
    /\ published' = published \union {e}
    /\ UNCHANGED deliveries

Deliver(e, p) ==
    /\ e \in published
    /\ deliveries[e][p] = 0
    /\ deliveries' = [deliveries EXCEPT ![e][p] = 1]
    /\ UNCHANGED published

Next ==
    \E e \in Events :
        \/ Publish(e)
        \/ \E p \in Endpoints : Deliver(e, p)

Spec == Init /\ [][Next]_vars
=============================================================================
