-------------------------- MODULE MCMutationQueue --------------------------
(* Small instances of MutationQueue for TLC. *)
EXTENDS MutationQueue, TLC

CONSTANTS f1, t1, t2, s1, s2

OneField == {f1}
OneTab == {t1}
TwoTabs == {t1, t2}
OneSlot == {1}
TwoSlots == {s1, s2}
SlotSymmetry == Permutations(TwoSlots)

TabFaults == {"reject", "same_ms"}
OneTabFaults == FaultKinds \ {"same_ms"}

\* Bound: versions of the issue a run goes on from (lost answers repeat an edit
\* for ever).
FewVersions == srv.ver <= MaxEdits

\* Bound: after another user's edit, while a tab's saved queue is destroyed or not
\* read, and after it lost edits, one execution at a time.
OneTrouble ==
    others > 0 \/ forgotten # {} \/ (\E t \in Tabs : db[t] # "open" \/ Exposed(t) # {}) =>
        Cardinality({k \in Slots : exec[k].phase # "free"}) <= 1
=============================================================================
