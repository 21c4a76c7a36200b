--------------------------- MODULE MCCrmSequences ---------------------------
(* A small instance of CrmSequences for TLC. *)
EXTENDS CrmSequences

CONSTANTS e1, e2, w1, w2

TwoEnrollments == {e1, e2}
TwoWorkers == {w1, w2}
=============================================================================
