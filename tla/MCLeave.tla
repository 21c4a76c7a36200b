------------------------------ MODULE MCLeave -------------------------------
(* A small instance of Leave for TLC. *)
EXTENDS Leave, TLC

CONSTANTS r1, r2, v1, v2

TwoRequests == {r1, r2}
TwoReviewers == {v1, v2}
SomeRanges == {{1, 2}, {2}, {3}}

\* Bound: behaviours are followed up to the first decision that overtakes another.
NotYetOvertaken == overtaken = {}

Symmetry == Permutations(Requests) \union Permutations(Reviewers)
=============================================================================
