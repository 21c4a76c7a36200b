---------------------------- MODULE MCEscalation ----------------------------
(* A small instance of Escalation for TLC. *)
EXTENDS Escalation, TLC

CONSTANTS p0, p1, p2, p3, i1, s1, s2

Staff == {p0, p1, p2, p3}
OneHr == {p3}
Chain == (p0 :> p1) @@ (p1 :> p2) @@ (p2 :> p3) @@ (p3 :> Nobody)
OneItem == {i1}
TwoSweeps == {s1, s2}
=============================================================================
