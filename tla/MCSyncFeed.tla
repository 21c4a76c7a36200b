----------------------------- MODULE MCSyncFeed -----------------------------
(* Small instances of SyncFeed for TLC. *)
EXTENDS SyncFeed, TLC

CONSTANTS r1, c1, w1, w2

OneRow == {r1}
OneClient == {c1}
OneWriter == {w1}
TwoWriters == {w1, w2}
NothingAged == {}
FirstTwoAged == {1, 2}
WriterSymmetry == Permutations(TwoWriters)

\* Bounds on what one run explores.
OnePing == \A c \in Clients : Cardinality(pings[c]) <= 1
NoPing == \A c \in Clients : pings[c] = {}
NoSnapshots == \A c \in Clients : ~saved[c].present
NoResets == \A c \in Clients : live[c] => boot[c].phase = "idle"

PollsOnly == NoPing /\ NoSnapshots /\ NoResets
=============================================================================
