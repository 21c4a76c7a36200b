----------------------------- MODULE MCSessions -----------------------------
(* A small instance of Sessions for TLC. *)
EXTENDS Sessions, TLC

CONSTANTS b1, b2, c1, c2

TwoBrowsers == {b1, b2}
TwoTabs == {c1, c2}
TabsOfTwo == (c1 :> b1) @@ (c2 :> b1)
=============================================================================
