------------------------------ MODULE Payments ------------------------------
(***************************************************************************)
(* Invoices of one customer and the payments recorded on them: by staff,   *)
(* by Razorpay's payment.captured events, and (in SubscriptionBilling) by  *)
(* the charges of a mandate.  recordPayment is one transaction at READ     *)
(* COMMITTED; the unique index on the payment number makes the later of    *)
(* two recordings that counted the same payments fail.                     *)
(***************************************************************************)
EXTENDS Integers, Sequences, FiniteSets

CONSTANTS
    MaxInvoices,  \* invoices, in order of creation (bound)
    Clerks,       \* staff at the invoicing pages
    Captures,     \* payment.captured events, each of an order of its own
    Nameless,     \* those that come without an event id, so that each delivery is given a new one
    OtherPayers,  \* further callers of recordPayment
    Price,        \* the total of an invoice
    Amounts,      \* amounts paid or captured
    MaxCrashes    \* deaths of the API process in mid-request (bound)

Invoices == 1..MaxInvoices
Payers == Clerks \union Captures \union OtherPayers

ASSUME PaymentsAssumption ==
    /\ MaxInvoices \in Nat
    /\ Price \in Nat \ {0}
    /\ Amounts \subseteq Nat \ {0}
    /\ MaxCrashes \in Nat
    /\ Nameless \subseteq Captures
    /\ Clerks \intersect Captures = {}
    /\ OtherPayers \intersect (Clerks \union Captures) = {}

VARIABLES
    invoice,  \* status, amount_paid, deleted_at; `cycle` is the billing period of a generated one
    payments, \* invoice_payments in the order of their numbers PMT-0001, PMT-0002, ...
    credit,   \* the customer's credit balance
    payer,    \* what each caller is doing
    event,    \* razorpay_webhook_events: the row of each capture that is not nameless
    crashes,
    slipped   \* history: invoices that were paid between the fetch and the count of a recording

payVars == <<invoice, payments, credit, payer, event, crashes, slipped>>

NoInvoice == [status |-> "none", paid |-> 0, cycle |-> 0, deleted |-> FALSE]
NoEvent == [state |-> "none", verified |-> FALSE]
Free == [phase |-> "free"]

Init ==
    /\ invoice = [i \in Invoices |-> NoInvoice]
    /\ payments = <<>>
    /\ credit = 0
    /\ payer = [p \in Payers |-> Free]
    /\ event = [e \in Captures |-> NoEvent]
    /\ crashes = 0
    /\ slipped = {}

At(p, phase) == payer[p].phase = phase
Payable == {"SENT", "OVERDUE", "PARTIALLY_PAID"}  \* SENT stands for VIEWED and DISPUTED too
CanPay(i) == invoice[i].status \in Payable /\ ~invoice[i].deleted
NextInvoice(i) == invoice[i].status = "none" /\ \A j \in Invoices : j < i => invoice[j].status # "none"

-----------------------------------------------------------------------------
(* recordPayment.  `for` is what the payment is recorded for.              *)

\* The invoice is fetched; one that is not payable is refused.
Fetch(p, i, amount, for) ==
    payer' = [payer EXCEPT ![p] =
        IF CanPay(i)
        THEN [phase |-> "fetched", inv |-> i, amount |-> amount, for |-> for,
              seen |-> invoice[i].paid, number |-> 0]
        ELSE [phase |-> "refused"]]

\* The payments of the workspace are counted for the number.
CountPayments(p) ==
    /\ At(p, "fetched")
    /\ payer' = [payer EXCEPT ![p].phase = "counted", ![p].number = Len(payments) + 1]
    /\ slipped' = IF invoice[payer[p].inv].paid = payer[p].seen THEN slipped
                  ELSE slipped \union {payer[p].inv}
    /\ UNCHANGED <<invoice, payments, credit, event, crashes>>

Smaller(m, n) == IF m < n THEN m ELSE n

\* The payment, the invoice as it was fetched plus the amount, what is paid
\* too much as credit.
Credited(p) ==
    LET i == payer[p].inv
        paid == payer[p].seen + payer[p].amount
    IN  /\ payments' = Append(payments, [inv |-> i, amount |-> payer[p].amount, for |-> payer[p].for])
        /\ invoice' = [invoice EXCEPT ![i].paid = Smaller(paid, Price),
                                      ![i].status = IF paid >= Price THEN "PAID" ELSE "PARTIALLY_PAID"]
        /\ credit' = credit + paid - Smaller(paid, Price)

\* Fault: payment numbers need not be unique.
RecordAnyNumber(p) ==
    /\ At(p, "counted")
    /\ Credited(p)
    /\ payer' = [payer EXCEPT ![p].phase = "recorded"]
    /\ UNCHANGED <<event, crashes, slipped>>

\* The rest of the transaction; it fails on a number that is taken.
Record(p) ==
    /\ At(p, "counted")
    /\ \/ /\ payer[p].number = Len(payments) + 1
          /\ Credited(p)
          /\ payer' = [payer EXCEPT ![p].phase = "recorded"]
       \/ /\ payer[p].number <= Len(payments)
          /\ payer' = [payer EXCEPT ![p] = [phase |-> "refused"]]
          /\ UNCHANGED <<invoice, payments, credit>>
    /\ UNCHANGED <<event, crashes, slipped>>

-----------------------------------------------------------------------------
(* Staff. *)

\* create and send.
IssueInvoice(i) ==
    /\ NextInvoice(i)
    /\ invoice' = [invoice EXCEPT ![i].status = "SENT"]
    /\ UNCHANGED <<payments, credit, payer, event, crashes, slipped>>

ClerkPays(k, i, amount) ==
    /\ At(k, "free")
    /\ invoice[i].status # "none"
    /\ Fetch(k, i, amount, k)
    /\ UNCHANGED <<invoice, payments, credit, event, crashes, slipped>>

ClerkIsTold(k) ==
    /\ payer[k].phase \in {"recorded", "refused", "decided"}
    /\ payer' = [payer EXCEPT ![k] = Free]
    /\ UNCHANGED <<invoice, payments, credit, event, crashes, slipped>>

Paid(i) == invoice[i].paid > 0 \/ \E n \in DOMAIN payments : payments[n].inv = i

\* Which invoices cancel (void, which takes fewer, stands with it), writeOff
\* and softDelete take.
Takes(to, i) ==
    /\ ~invoice[i].deleted
    /\ \/ to = "CANCELLED" /\ invoice[i].status \in {"SENT", "OVERDUE", "DRAFT"}
       \/ to = "WRITE_OFF" /\ invoice[i].status \in Payable
       \/ to = "deleted" /\ invoice[i].status # "none" /\ ~Paid(i)

\* The invoice is read ...
Decide(k, i, to) ==
    /\ At(k, "free")
    /\ Takes(to, i)
    /\ payer' = [payer EXCEPT ![k] = [phase |-> "deciding", inv |-> i, to |-> to]]
    /\ UNCHANGED <<invoice, payments, credit, event, crashes, slipped>>

\* ... and then changed, whatever it is by now.
Settle(k) ==
    /\ At(k, "deciding")
    /\ invoice' = [invoice EXCEPT ![payer[k].inv] =
            IF payer[k].to = "deleted" THEN [@ EXCEPT !.deleted = TRUE]
                                       ELSE [@ EXCEPT !.status = payer[k].to]]
    /\ payer' = [payer EXCEPT ![k] = [phase |-> "decided"]]
    /\ UNCHANGED <<payments, credit, event, crashes, slipped>>

Restore(i) ==
    /\ invoice[i].deleted
    /\ invoice' = [invoice EXCEPT ![i].deleted = FALSE]
    /\ UNCHANGED <<payments, credit, payer, event, crashes, slipped>>

\* markOverdueInvoices, one statement.
MarkOverdue(i) ==
    /\ invoice[i].status \in {"SENT", "PARTIALLY_PAID"}
    /\ invoice' = [invoice EXCEPT ![i].status = "OVERDUE"]
    /\ UNCHANGED <<payments, credit, payer, event, crashes, slipped>>

-----------------------------------------------------------------------------
(* The Razorpay webhook: payment.captured.                                 *)

\* The row of a delivery without an id is never looked at again, and not modelled.
Note(e, row) == event' = IF e \in Nameless THEN event ELSE [event EXCEPT ![e] = row]

\* Fault: a repeated event is applied again.
ReceiveAgain(e, i, amount, verified) ==
    /\ At(e, "free")
    /\ invoice[i].status # "none"
    /\ Note(e, [state |-> "stored", verified |-> verified])
    /\ IF verified THEN Fetch(e, i, amount, e) ELSE payer' = [payer EXCEPT ![e] = [phase |-> "ignored"]]
    /\ UNCHANGED <<invoice, payments, credit, crashes, slipped>>

\* The event is stored if its id was not there yet, and applied if its
\* signature verifies; a repeated id is only acknowledged.  (Bound: deliveries
\* of a nameless capture come one at a time.)
Receive(e, i, amount, verified) ==
    /\ event[e].state = "none"
    /\ At(e, "free")
    /\ invoice[i].status # "none"
    /\ Note(e, [state |-> "stored", verified |-> verified])
    /\ IF verified THEN Fetch(e, i, amount, e) ELSE payer' = [payer EXCEPT ![e] = [phase |-> "ignored"]]
    /\ UNCHANGED <<invoice, payments, credit, crashes, slipped>>

\* The outcome is noted: processed when nothing was thrown, which holds of an
\* event that was not applied; failed also when the payment is recorded and
\* what follows it throws.  Razorpay is answered 200 in any case.
NoteOutcome(e) ==
    /\ payer[e].phase \in {"recorded", "refused", "ignored"}
    /\ \E state \in {"processed", "failed"} :
        /\ At(e, "refused") => state = "failed"
        /\ At(e, "ignored") => state = "processed"
        /\ Note(e, [event[e] EXCEPT !.state = state])
    /\ payer' = [payer EXCEPT ![e] = Free]
    /\ UNCHANGED <<invoice, payments, credit, crashes, slipped>>

\* The API dies under the request of a clerk or of Razorpay.
Dies(p) ==
    /\ ~At(p, "free")
    /\ crashes < MaxCrashes
    /\ crashes' = crashes + 1
    /\ payer' = [payer EXCEPT ![p] = Free]
    /\ UNCHANGED <<invoice, payments, credit, event, slipped>>

-----------------------------------------------------------------------------
Recording(p) == CountPayments(p) \/ Record(p)

PayNext ==
    \/ \E i \in Invoices : IssueInvoice(i) \/ MarkOverdue(i) \/ Restore(i)
    \/ \E k \in Clerks :
        \/ \E i \in Invoices, amount \in Amounts : ClerkPays(k, i, amount)
        \/ \E i \in Invoices, to \in {"CANCELLED", "WRITE_OFF", "deleted"} : Decide(k, i, to)
        \/ ClerkIsTold(k) \/ Settle(k)
    \/ \E e \in Captures :
        \/ \E i \in Invoices, amount \in Amounts, verified \in BOOLEAN : Receive(e, i, amount, verified)
        \/ NoteOutcome(e)
    \/ \E p \in Clerks \union Captures : Recording(p) \/ Dies(p)

-----------------------------------------------------------------------------
(* Properties. *)

Statuses == {"none", "DRAFT", "SENT", "OVERDUE", "PARTIALLY_PAID", "PAID", "CANCELLED", "WRITE_OFF"}

\* The units of money in amounts f, one by one.
Units(f) == UNION {{x} \X (1..f[x]) : x \in DOMAIN f}
Total(f) == Cardinality(Units(f))

OnInvoices == [i \in Invoices |-> invoice[i].paid]
Received == [n \in DOMAIN payments |-> payments[n].amount]

\* No money is made or lost: what was paid is on the invoices or is credit,
\* through any overlap of recordings except the one the payment number does not
\* catch, a payment between the fetch and the count (invoices.service.ts:946-1002).
MoneyIsConserved == slipped = {} => Total(OnInvoices) + credit = Total(Received)

Uses(x) == {n \in DOMAIN payments : payments[n].for = x}

\* However often a capture is delivered under its event id, it is recorded at
\* most once, only if the delivery that was stored verified, and exactly once
\* when that delivery is noted as processed (razorpay-webhook.controller.ts:105-164).
\* Three things the row does not say: one that did not verify is noted as
\* processed too, with nothing recorded, and a verified repetition of it is
\* then only acknowledged; one that failed may have been recorded; and the
\* deliveries of a capture without an id are events of their own (line 87).
CapturesAreRecordedOnce ==
    \A e \in Captures \ Nameless :
        /\ Cardinality(Uses(e)) <= 1
        /\ Uses(e) # {} => event[e].verified
        /\ event[e].state = "processed" /\ event[e].verified => Uses(e) # {}

=============================================================================
