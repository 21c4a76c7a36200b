----------------------- MODULE MCSubscriptionBilling ------------------------
(* Small instances of SubscriptionBilling and of Payments under it, for TLC. *)
EXTENDS SubscriptionBilling, TLC

CONSTANTS k1, e1, e2, c1, job

OneClerk == {k1}
TwoCaptures == {e1, e2}
OneCapture == {e2}
Nobody == {}
OneCharge == {c1}
OneChargeAndJob == {c1, job}
JustJob == {job}
Half == {1, 2}
Whole == {1}

\* Bounds: behaviours are followed up to the third payment, the third caller at
\* once, or the first recording that goes on from an outdated amount.
FewPayments ==
    /\ Len(payments) <= 2
    /\ Cardinality({p \in Payers : ~At(p, "free")}) <= 2
    /\ slipped = {}

\* Payments alone: no subscription runs.
PaymentsSpec == SubInit /\ [][PayNext /\ UNCHANGED subVars]_vars
=============================================================================
