----------------------------- MODULE MCWebhooks -----------------------------
(* A small instance of Webhooks for TLC. *)
EXTENDS Webhooks

CONSTANTS d1, w1, w2, r1

OneDelivery == {d1}
TwoWorkers == {w1, w2}
OneRequest == {r1}
EveryFault == FaultKinds
=============================================================================
