------------------------ MODULE SubscriptionBilling -------------------------
(***************************************************************************)
(* One invoice subscription collected by mandate, on top of Payments: the  *)
(* hourly generation of invoices, Razorpay's subscription events, and the  *)
(* settling of a charge that may arrive before or after its invoice.       *)
(* Only the recording of a payment is a transaction of several statements. *)
(***************************************************************************)
EXTENDS Payments

CONSTANTS
    Charges,      \* subscription.charged events
    Sweep,        \* the generation job, a caller of recordPayment too
    MaxCycles,    \* billing periods that begin (bound)
    EndAfter,     \* end_after_cycles
    MAX_FAILED    \* MAX_FAILED_CHARGES (3)

ASSUME SubscriptionAssumption ==
    /\ OtherPayers = Charges \union {Sweep}
    /\ Sweep \notin Charges
    /\ {MaxCycles, EndAfter, MAX_FAILED} \subseteq Nat \ {0}

VARIABLES
    sub,     \* status (ACTIVE is TRIALING too), the period billed next, ended (no such period),
             \* billed (total_cycles_billed), failures, auto (collection_mode is auto_debit)
    clock,   \* periods that have begun
    attempt, \* subscription_charge_attempts: the invoice each captured charge is stamped with
    sweep,   \* what the generation job is doing
    shared   \* history: charges two callers were settling, or one that died before the stamp

subVars == <<sub, clock, attempt, sweep, shared>>
vars == <<payVars, subVars>>

NoStamp == 0
NoAttempt == -1
Idle == [phase |-> "idle"]

SubInit ==
    /\ Init
    /\ sub = [status |-> "ACTIVE", next |-> 1, ended |-> FALSE, billed |-> 0, failures |-> 0, auto |-> TRUE]
    /\ clock = 1
    /\ attempt = [c \in Charges |-> NoAttempt]
    /\ sweep = Idle
    /\ shared = {}

Generated == {i \in Invoices : invoice[i].cycle > 0}
Newest(S) == CHOOSE i \in S : \A j \in S : j <= i

NextPeriod ==
    /\ clock < MaxCycles
    /\ clock' = clock + 1
    /\ UNCHANGED <<payVars, sub, attempt, sweep, shared>>

-----------------------------------------------------------------------------
(* subscriptions.service: the status is read and set in one transaction,   *)
(* by one person (bound).                                                  *)

SetStatus(from, to) ==
    /\ sub.status \in from
    /\ sub' = [sub EXCEPT !.status = to]
    /\ UNCHANGED <<payVars, clock, attempt, sweep, shared>>

Pause == SetStatus({"ACTIVE", "PAST_DUE"}, "PAUSED")
Resume ==
    /\ sub.status = "PAUSED"
    /\ sub' = [sub EXCEPT !.status = "ACTIVE", !.failures = 0]
    /\ UNCHANGED <<payVars, clock, attempt, sweep, shared>>
Cancel == SetStatus({"ACTIVE", "PAST_DUE", "PAUSED"}, "CANCELLED")

\* runDunningSweep: a subscription stranded in PAST_DUE is paused.
Strand == SetStatus({"PAST_DUE"}, "PAUSED")

-----------------------------------------------------------------------------
(* applyRazorpayEvent. *)

\* pending: a strike; from the last one on it pauses (the count stops there: bound).
ChargeFailed ==
    /\ sub' = [sub EXCEPT !.failures = Smaller(@ + 1, MAX_FAILED),
                          !.status = IF sub.failures + 1 >= MAX_FAILED THEN "PAUSED" ELSE "PAST_DUE"]
    /\ UNCHANGED <<payVars, clock, attempt, sweep, shared>>

\* halted and paused; resumed.  (authenticated changes nothing that is modelled.)
MandateStops == SetStatus({"ACTIVE", "PAST_DUE", "PAUSED", "CANCELLED", "EXPIRED"}, "PAUSED")
MandateResumes == SetStatus({"PAST_DUE", "PAUSED", "CANCELLED", "EXPIRED"}, "ACTIVE")

\* activated: the strikes are forgotten too.
MandateStarts ==
    /\ sub' = [sub EXCEPT !.status = "ACTIVE", !.failures = 0]
    /\ UNCHANGED <<payVars, clock, attempt, sweep, shared>>

\* cancelled: back to manual collection (bound: for good).
MandateRevoked ==
    /\ sub.auto
    /\ sub' = [sub EXCEPT !.auto = FALSE]
    /\ UNCHANGED <<payVars, clock, attempt, sweep, shared>>

Go(c, phase) == payer' = [payer EXCEPT ![c] = [phase |-> phase]]

\* charged: the attempt is stored ...
Charged(c) ==
    /\ attempt[c] = NoAttempt
    /\ attempt' = [attempt EXCEPT ![c] = NoStamp]
    /\ Go(c, "activate")
    /\ UNCHANGED <<invoice, payments, credit, event, crashes, slipped, sub, clock, sweep, shared>>

\* ... the subscription is active again ...
Activate(c) ==
    /\ At(c, "activate")
    /\ sub' = [sub EXCEPT !.status = "ACTIVE", !.failures = 0]
    /\ Go(c, "find")
    /\ UNCHANGED <<invoice, payments, credit, event, crashes, slipped, clock, attempt, sweep, shared>>

\* ... and pays the newest open invoice, if there is one (settleGeneratedInvoice).
SettleGenerated(c) ==
    /\ At(c, "find")
    /\ LET open == {i \in Generated : invoice[i].status \in Payable} IN
        IF open = {} THEN Go(c, "refused") ELSE Fetch(c, Newest(open), Price, c)
    /\ UNCHANGED <<invoice, payments, credit, event, crashes, slipped, sub, clock, attempt, sweep, shared>>

\* The attempt is stamped once its payment is recorded.
Stamp(c) ==
    /\ payer[c].phase \in {"recorded", "refused"}
    /\ attempt' = [attempt EXCEPT ![c] = IF At(c, "recorded") THEN payer[c].inv ELSE @]
    /\ Go(c, "free")
    /\ UNCHANGED <<invoice, payments, credit, event, crashes, slipped, sub, clock, sweep, shared>>

-----------------------------------------------------------------------------
(* runSubscriptionGeneration, for this subscription.  `sweep.sub` is the    *)
(* row as the job selected it.                                             *)

\* Fault: a period is passed over while an older one has just ended.
SelectLatest ==
    /\ sweep = Idle
    /\ sub.status = "ACTIVE" /\ ~sub.ended
    /\ sub.next <= clock
    /\ sweep' = [phase |-> "create", sub |-> [sub EXCEPT !.next = clock]]
    /\ UNCHANGED <<payVars, sub, clock, attempt, shared>>

\* Fault: a period that was missed is not due any more.
SelectMissed ==
    /\ sweep = Idle
    /\ sub.status = "ACTIVE" /\ ~sub.ended
    /\ sub.next = clock
    /\ sweep' = [phase |-> "create", sub |-> sub]
    /\ UNCHANGED <<payVars, sub, clock, attempt, shared>>

\* A subscription that is active and due.
Select ==
    /\ sweep = Idle
    /\ sub.status = "ACTIVE" /\ ~sub.ended
    /\ sub.next <= clock
    /\ sweep' = [phase |-> "create", sub |-> sub]
    /\ UNCHANGED <<payVars, sub, clock, attempt, shared>>

\* The invoice is created and sent; when sending fails it stays a draft.
Generate ==
    /\ sweep.phase = "create"
    /\ \/ \E i \in Invoices, status \in {"SENT", "DRAFT"} :
            /\ NextInvoice(i)
            /\ invoice' = [invoice EXCEPT ![i] = [NoInvoice EXCEPT !.status = status, !.cycle = sweep.sub.next]]
            /\ sweep' = [phase |-> "settle", sub |-> sweep.sub, inv |-> i]
       \/ /\ \A i \in Invoices : invoice[i].status # "none"  \* (bound)
          /\ sweep' = Idle
          /\ UNCHANGED invoice
    /\ UNCHANGED <<payments, credit, payer, event, crashes, slipped, sub, clock, attempt, shared>>

\* settleUnreconciledCharge: a captured charge without a stamp pays it, if the
\* subscription was collected by mandate when it was selected.
SettleUnreconciled ==
    /\ sweep.phase = "settle"
    /\ \/ \E c \in Charges :
            /\ sweep.sub.auto
            /\ attempt[c] = NoStamp
            /\ Fetch(Sweep, sweep.inv, Price, c)
            /\ sweep' = [phase |-> "stamp", sub |-> sweep.sub, inv |-> sweep.inv, c |-> c]
            /\ shared' = IF At(c, "free") THEN shared ELSE shared \union {c}
       \/ /\ sweep.sub.auto => \A c \in Charges : attempt[c] # NoStamp
          /\ sweep' = [phase |-> "advance", sub |-> sweep.sub]
          /\ UNCHANGED <<payer, shared>>
    /\ UNCHANGED <<invoice, payments, credit, event, crashes, slipped, sub, clock, attempt>>

\* Fault: the attempt is left as it is.
StampNot ==
    /\ sweep.phase = "stamp"
    /\ payer[Sweep].phase \in {"recorded", "refused"}
    /\ Go(Sweep, "free")
    /\ sweep' = [phase |-> "advance", sub |-> sweep.sub]
    /\ UNCHANGED <<invoice, payments, credit, event, crashes, slipped, sub, clock, attempt, shared>>

StampReconciled ==
    /\ sweep.phase = "stamp"
    /\ payer[Sweep].phase \in {"recorded", "refused"}
    /\ attempt' = [attempt EXCEPT ![sweep.c] = IF At(Sweep, "recorded") THEN sweep.inv ELSE @]
    /\ Go(Sweep, "free")
    /\ sweep' = [phase |-> "advance", sub |-> sweep.sub]
    /\ UNCHANGED <<invoice, payments, credit, event, crashes, slipped, sub, clock, shared>>

\* The period and the counters move on from the row that was selected; so
\* does the status.
Advance ==
    /\ sweep.phase = "advance"
    /\ LET ended == sweep.sub.billed + 1 >= EndAfter IN
        sub' = [sub EXCEPT !.next = sweep.sub.next + 1, !.billed = sweep.sub.billed + 1, !.ended = ended,
                           !.status = IF ended THEN "EXPIRED" ELSE sweep.sub.status]
    /\ sweep' = Idle
    /\ UNCHANGED <<payVars, clock, attempt, shared>>

\* The job or the webhook's handler dies, or a statement of it fails; a payment without its stamp stays.
SubDies(p) ==
    /\ crashes < MaxCrashes
    /\ crashes' = crashes + 1
    /\ \/ /\ p = Sweep /\ sweep # Idle
          /\ sweep' = Idle
          /\ shared' = IF At(p, "recorded") THEN shared \union {sweep.c} ELSE shared
       \/ /\ p \in Charges /\ ~At(p, "free")
          /\ shared' = IF At(p, "recorded") THEN shared \union {p} ELSE shared
          /\ UNCHANGED sweep
    /\ Go(p, "free")
    /\ UNCHANGED <<invoice, payments, credit, event, slipped, sub, clock, attempt>>

-----------------------------------------------------------------------------
Generation == Generate \/ SettleUnreconciled \/ StampReconciled \/ Advance

Next ==
    \/ PayNext /\ UNCHANGED subVars
    \/ NextPeriod \/ Pause \/ Resume \/ Cancel \/ Strand
    \/ ChargeFailed \/ MandateStops \/ MandateResumes \/ MandateStarts \/ MandateRevoked
    \/ \E c \in Charges : Charged(c) \/ Activate(c) \/ SettleGenerated(c) \/ Stamp(c)
    \/ Select \/ Generation
    \/ \E p \in OtherPayers : (Recording(p) /\ UNCHANGED subVars) \/ SubDies(p)

Spec == SubInit /\ [][Next]_vars

\* The generation job runs every hour and works on what it selected.
Fairness ==
    /\ WF_vars(Select)
    /\ WF_vars(Generation)
    /\ WF_vars(Recording(Sweep) /\ UNCHANGED subVars)

FairSpec == Spec /\ Fairness

-----------------------------------------------------------------------------
(* Properties. *)

\* The type invariant.
TypeOK ==
    /\ invoice \in [Invoices -> [status : Statuses, paid : 0..Price, cycle : 0..MaxCycles, deleted : BOOLEAN]]
    /\ \A n \in DOMAIN payments : payments[n] \in [inv : Invoices, amount : Amounts \union {Price}, for : Payers]
    /\ credit \in Nat
    /\ event \in [Captures -> [state : {"none", "stored", "processed", "failed"}, verified : BOOLEAN]]
    /\ sub.status \in {"ACTIVE", "PAST_DUE", "PAUSED", "CANCELLED", "EXPIRED"}
    /\ sub.next \in 1..(MaxCycles + 1) /\ sub.ended \in BOOLEAN /\ sub.billed \in 0..EndAfter
    /\ sub.failures \in 0..MAX_FAILED /\ sub.auto \in BOOLEAN
    /\ attempt \in [Charges -> {NoAttempt, NoStamp} \union Invoices]
    /\ sweep.phase \in {"idle", "create", "settle", "stamp", "advance"}

\* A captured charge pays more than once only if the webhook and the job were
\* settling it at the same time, or one died before it could stamp it: failures,
\* refusals and later periods alone never use it again
\* ("the stamp prevents a second settle", subscription-mandates.service.ts:573-580).
DoubleUseIsExplained == \A c \in Charges : Cardinality(Uses(c)) > 1 => c \in shared

\* The model is well typed; no period is passed over, and one is billed twice
\* only by a job started again after it died (invoicing.jobs.ts:244-305).
PeriodsAreBilledOnce ==
    /\ TypeOK
    /\ \A d \in 1..MaxCycles :
        LET bills == Cardinality({i \in Generated : invoice[i].cycle = d})
        IN /\ d < sub.next => bills >= 1
           /\ bills <= 1 + crashes

\* A period that has begun is billed, unless the subscription stops.
PeriodsGetBilled ==
    \A d \in 1..MaxCycles :
        clock >= d /\ sub.next = d
            ~> sub.next > d \/ sub.ended \/ sub.status # "ACTIVE" \/ \A i \in Invoices : invoice[i].status # "none"

=============================================================================
