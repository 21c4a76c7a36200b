------------------------------ MODULE MCOutbox ------------------------------
(* A small instance of Outbox for TLC. *)
EXTENDS Outbox, TLC

CONSTANTS w1, w2, p1

TwoEvents == 1..2
OneEndpoint == {p1}
TwoWorkers == {w1, w2}
EveryFault == FaultKinds

WorkerSymmetry == Permutations(Workers)
=============================================================================
