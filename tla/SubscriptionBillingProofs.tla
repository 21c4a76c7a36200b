---------------------- MODULE SubscriptionBillingProofs ----------------------
(***************************************************************************)
(* Proofs about SubscriptionBilling and Payments under it, for any staff,  *)
(* captures, charges, amounts and bounds: the money adds up, a capture and *)
(* a charge are used once, and every period is billed once.                *)
(***************************************************************************)
EXTENDS SubscriptionBilling, FiniteSetTheorems, WellFoundedInduction, TLAPS

-----------------------------------------------------------------------------
(* The inductive invariant: the types.                                     *)

Sums == Amounts \union {Price}
InvoiceRow == [status : Statuses, paid : 0..Price, cycle : 0..MaxCycles, deleted : BOOLEAN]
PaymentRow == [inv : Invoices, amount : Sums, for : Payers]

\* What a caller may be doing: nothing with an invoice, deciding about one, or
\* recording a payment on one.
Waiting == [phase : {"free", "refused", "decided", "ignored", "activate", "find"}]
Deciding == [phase : {"deciding"}, inv : Invoices, to : {"CANCELLED", "WRITE_OFF", "deleted"}]
Paying == [phase : {"fetched", "counted", "recorded"}, inv : Invoices, amount : Sums, for : Payers,
           seen : 0..Price, number : Nat]

SubRow == [status : {"ACTIVE", "PAST_DUE", "PAUSED", "CANCELLED", "EXPIRED"}, next : 1..(MaxCycles + 1),
           ended : BOOLEAN, billed : 0..EndAfter, failures : 0..MAX_FAILED, auto : BOOLEAN]
SweepRow ==
    [phase : {"idle"}] \union [phase : {"create", "advance"}, sub : SubRow]
    \union [phase : {"settle"}, sub : SubRow, inv : Invoices]
    \union [phase : {"stamp"}, sub : SubRow, inv : Invoices, c : Charges]
EventRow == [state : {"none", "stored", "processed", "failed"}, verified : BOOLEAN]

PayTypes ==
    /\ invoice \in [Invoices -> InvoiceRow]
    /\ payments \in Seq(PaymentRow)
    /\ credit \in Nat
    /\ payer \in [Payers -> Waiting \union Deciding \union Paying]
    /\ event \in [Captures -> EventRow]
    /\ crashes \in Nat
    /\ slipped \subseteq Invoices

SubTypes ==
    /\ sub \in SubRow
    /\ clock \in 1..MaxCycles
    /\ attempt \in [Charges -> {NoAttempt, NoStamp} \union Invoices]
    /\ sweep \in SweepRow
    /\ shared \subseteq Charges

-----------------------------------------------------------------------------
(* The money. *)

\* An invoice that was not created is empty; whoever decides or pays works on
\* one that was.
InvoicesAreReal ==
    /\ \A i \in Invoices : invoice[i].status = "none" => invoice[i] = NoInvoice
    /\ \A p \in Payers :
        payer[p].phase \in {"deciding", "fetched", "counted", "recorded"}
            => invoice[payer[p].inv].status # "none"

\* Unless a payment slipped in, whoever still holds the next number has seen what
\* is paid on the invoice.
CountsAreFresh ==
    \A p \in Payers : At(p, "counted") =>
        /\ payer[p].number <= Len(payments) + 1
        /\ payer[p].number = Len(payments) + 1 /\ payer[p].inv \notin slipped
            => invoice[payer[p].inv].paid = payer[p].seen

Money == CountsAreFresh /\ IsFiniteSet(Units(Received)) /\ MoneyIsConserved

-----------------------------------------------------------------------------
(* Captures and charges. *)

\* The charge the job is settling.
OnIt(c) == sweep.phase = "stamp" /\ sweep.c = c

\* Who records a payment records it for itself, the job for the charge it is at.
PayersAreTrue ==
    \A p \in Payers : payer[p].phase \in {"fetched", "counted", "recorded"} =>
        IF p = Sweep THEN OnIt(payer[p].for) ELSE payer[p].for = p

SweepIsTrue == sweep.phase # "stamp" => At(Sweep, "free")

AtMostOnce(x) == \A m, n \in Uses(x) : m = n

\* A capture is recorded by the request that stored its event, while that is
\* being handled, and only if that verified.
CaptureOK(e) ==
    /\ AtMostOnce(e)
    /\ event[e].state = "none" => Uses(e) = {}
    /\ event[e].state # "stored" => At(e, "free")
    /\ payer[e].phase \in {"fetched", "counted"} => Uses(e) = {} /\ event[e].verified
    /\ Uses(e) # {} => event[e].verified
    /\ At(e, "ignored") => ~event[e].verified
    /\ At(e, "recorded") => Uses(e) # {}
    /\ event[e].state = "processed" /\ event[e].verified => Uses(e) # {}

\* One of the two has recorded the charge and not stamped it yet.
Settled(c) == At(c, "recorded") \/ (OnIt(c) /\ At(Sweep, "recorded"))

\* A charge nobody shared is settled by one of the two, and used by the time it
\* is stamped and not before one of them has recorded it.
ChargeOK(c) ==
    /\ AtMostOnce(c)
    /\ attempt[c] # NoStamp => At(c, "free") /\ ~OnIt(c)
    /\ attempt[c] = NoAttempt => Uses(c) = {}
    /\ attempt[c] = NoStamp => (At(c, "free") \/ ~OnIt(c)) /\ (Uses(c) # {} => Settled(c))

Used ==
    /\ PayersAreTrue /\ SweepIsTrue
    /\ \A e \in Captures \ Nameless : CaptureOK(e)
    /\ \A c \in Charges \ shared : ChargeOK(c)

-----------------------------------------------------------------------------
(* Periods. *)

Billed(d) == {i \in Generated : invoice[i].cycle = d}
HasBilled == sweep.phase \in {"settle", "stamp", "advance"}

\* The job works on the row as it still is, but for its status.
RowIsCurrent ==
    /\ ~sub.ended => sub.billed < EndAfter
    /\ sweep.phase # "idle" =>
        /\ ~sub.ended /\ sub.next <= clock
        /\ sweep.sub.next = sub.next /\ sweep.sub.billed = sub.billed

\* The periods before the next one are billed, those after it are not; a period
\* is billed once more only for a death of the job.
PeriodsOK ==
    \A d \in 1..MaxCycles :
        /\ d < sub.next \/ (d = sub.next /\ HasBilled) => Billed(d) # {}
        /\ d > sub.next => Billed(d) = {}
        /\ Cardinality(Billed(d)) <= 1 + crashes
        /\ d = sub.next /\ ~HasBilled => Cardinality(Billed(d)) <= crashes

IInv ==
    /\ PayTypes /\ SubTypes /\ InvoicesAreReal
    /\ Money /\ Used /\ RowIsCurrent /\ PeriodsOK

-----------------------------------------------------------------------------
(* Counting money. *)

\* An amount is as many units as it says.
LEMMA OneAmount ==
    ASSUME NEW x, NEW a \in Nat
    PROVE  IsFiniteSet({x} \X (1..a)) /\ Cardinality({x} \X (1..a)) = a
<1> DEFINE f == [k \in 1..a |-> <<x, k>>]
<1>1. f \in Surjection(1..a, {x} \X (1..a))
  <2>1. f \in [1..a -> {x} \X (1..a)]
    OBVIOUS
  <2>2. ASSUME NEW t \in {x} \X (1..a) PROVE \E k \in 1..a : f[k] = t
    <3>1. t[2] \in 1..a /\ t = <<x, t[2]>>
      OBVIOUS
    <3>2. f[t[2]] = t
      BY <3>1
    <3> QED
      BY <3>1, <3>2
  <2> QED
    BY <2>1, <2>2 DEF Surjection
<1>2. f \in Injection(1..a, {x} \X (1..a))
  BY DEF Injection, IsInjective
<1>3. IsFiniteSet(1..a) /\ Cardinality(1..a) = a
  BY FS_Interval
<1> QED
  BY <1>1, <1>2, <1>3, FS_Surjection

\* One amount more adds its units.
LEMMA AddAmount ==
    ASSUME NEW f, NEW x, NEW g, x \notin DOMAIN f, DOMAIN g = DOMAIN f \union {x},
           \A y \in DOMAIN f : g[y] = f[y], g[x] \in Nat, IsFiniteSet(Units(f))
    PROVE  IsFiniteSet(Units(g)) /\ Total(g) = Total(f) + g[x]
<1> DEFINE S == {x} \X (1..g[x])
<1>1. IsFiniteSet(S) /\ Cardinality(S) = g[x]
  BY OneAmount
<1>2. Units(g) = Units(f) \union S
  BY DEF Units
<1>3. Units(f) \intersect S = {}
  BY DEF Units
<1>4. Cardinality(Units(f) \intersect S) = 0
  BY <1>3, FS_EmptySet
<1>5. Cardinality(Units(f)) \in Nat
  BY FS_CardinalityType
<1> HIDE DEF S
<1>6. /\ IsFiniteSet(Units(f) \union S)
      /\ Cardinality(Units(f) \union S)
            = Cardinality(Units(f)) + Cardinality(S) - Cardinality(Units(f) \intersect S)
  BY <1>1, FS_Union
<1> QED
  BY <1>1, <1>2, <1>4, <1>5, <1>6 DEF Total

\* Changing one amount changes the total as much.
LEMMA ChangeAmount ==
    ASSUME NEW f, NEW g, NEW x \in DOMAIN f, DOMAIN g = DOMAIN f, f[x] \in Nat, g[x] \in Nat,
           \A y \in DOMAIN f \ {x} : g[y] = f[y], IsFiniteSet(Units(f))
    PROVE  IsFiniteSet(Units(g)) /\ Total(g) = Total(f) + g[x] - f[x]
<1> DEFINE h == [y \in DOMAIN f \ {x} |-> f[y]]
<1>1. Units(h) \subseteq Units(f)
  BY DEF Units
<1>2. IsFiniteSet(Units(h))
  BY <1>1, FS_Subset
<1>3. x \notin DOMAIN h /\ DOMAIN f = DOMAIN h \union {x} /\ \A y \in DOMAIN h : f[y] = h[y] /\ g[y] = h[y]
  OBVIOUS
<1> HIDE DEF h
<1>4. Total(f) = Total(h) + f[x]
  BY <1>2, <1>3, AddAmount
<1>5. IsFiniteSet(Units(g)) /\ Total(g) = Total(h) + g[x]
  BY <1>2, <1>3, AddAmount
<1>6. Total(h) \in Nat
  BY <1>2, FS_CardinalityType DEF Total
<1> QED
  BY <1>4, <1>5, <1>6

\* Amounts of nothing are no units.
LEMMA NoAmount ==
    ASSUME NEW f, \A x \in DOMAIN f : f[x] = 0
    PROVE  IsFiniteSet(Units(f)) /\ Total(f) = 0
<1>1. Units(f) = {}
  BY DEF Units
<1> QED
  BY <1>1, FS_EmptySet DEF Total

\* Bounded amounts of finitely many are finitely many units.
LEMMA FiniteAmounts ==
    ASSUME NEW f, NEW b \in Nat, IsFiniteSet(DOMAIN f), \A x \in DOMAIN f : f[x] \in 0..b
    PROVE  IsFiniteSet(Units(f))
<1>1. IsFiniteSet(1..b)
  BY FS_Interval
<1>2. IsFiniteSet((DOMAIN f) \X (1..b))
  BY <1>1, FS_Product
<1>3. Units(f) \subseteq (DOMAIN f) \X (1..b)
  BY DEF Units
<1> QED
  BY <1>2, <1>3, FS_Subset

-----------------------------------------------------------------------------
(* Callers. *)

\* Staff, captures, charges and the job are callers, and nobody is two of them.
LEMMA CallersApart ==
    /\ Sweep \in Payers /\ Charges \subseteq Payers /\ OtherPayers = Charges \union {Sweep}
    /\ Sweep \notin Charges \union Captures \union Clerks
    /\ Charges \intersect (Captures \union Clerks) = {}
    /\ Captures \intersect Clerks = {}
BY PaymentsAssumption, SubscriptionAssumption DEF Payers

\* The bounds are numbers.
LEMMA Bounds ==
    /\ Price \in Nat \ {0} /\ Sums \subseteq Nat \ {0} /\ Price \in Sums
    /\ MaxInvoices \in Nat /\ MaxCycles \in Nat \ {0} /\ EndAfter \in Nat \ {0} /\ MAX_FAILED \in Nat \ {0}
BY PaymentsAssumption, SubscriptionAssumption DEF Sums

\* What a caller's phase says of its row.
LEMMA CallerRow ==
    ASSUME PayTypes, NEW p \in Payers
    PROVE  /\ payer[p].phase \in {"fetched", "counted", "recorded"} => payer[p] \in Paying
           /\ At(p, "deciding") => payer[p] \in Deciding
           /\ payer[p].phase \in {"free", "refused", "decided", "ignored", "activate", "find"}
                => payer[p] \in Waiting
           /\ payer[p].phase \in {"fetched", "counted", "recorded", "deciding", "free", "refused", "decided",
                                  "ignored", "activate", "find"}
<1>1. payer[p] \in Waiting \union Deciding \union Paying
  BY DEF PayTypes
<1> QED
  BY <1>1 DEF Waiting, Deciding, Paying, At

\* A step of one caller.
LEMMA CallerMoves ==
    ASSUME PayTypes, NEW p \in Payers, NEW x, payer' = [payer EXCEPT ![p] = x]
    PROVE  /\ payer'[p] = x
           /\ \A q \in Payers \ {p} : payer'[q] = payer[q]
           /\ x \in Waiting \union Deciding \union Paying => payer' \in [Payers -> Waiting \union Deciding \union Paying]
BY DEF PayTypes

\* A fetch refuses, or begins a payment on an invoice that can be paid.
LEMMA FetchMoves ==
    ASSUME PayTypes, NEW p \in Payers, NEW i \in Invoices, NEW amount \in Sums, NEW for \in Payers,
           Fetch(p, i, amount, for)
    PROVE  /\ payer' \in [Payers -> Waiting \union Deciding \union Paying]
           /\ \A q \in Payers \ {p} : payer'[q] = payer[q]
           /\ \/ payer'[p] = [phase |-> "refused"]
              \/ /\ CanPay(i)
                 /\ payer'[p] \in Paying
                 /\ payer'[p].phase = "fetched" /\ payer'[p].inv = i /\ payer'[p].for = for
<1> DEFINE row == [phase |-> "fetched", inv |-> i, amount |-> amount, for |-> for,
                   seen |-> invoice[i].paid, number |-> 0]
<1>1. invoice[i].paid \in 0..Price
  BY DEF PayTypes, InvoiceRow
<1>2. row \in Paying
  BY <1>1 DEF Paying
<1>3. [phase |-> "refused"] \in Waiting
  BY DEF Waiting
<1>4. CASE CanPay(i)
  <2>1. payer' = [payer EXCEPT ![p] = row]
    BY <1>4 DEF Fetch
  <2>2. row.phase = "fetched" /\ row.inv = i /\ row.for = for
    OBVIOUS
  <2> HIDE DEF row
  <2> QED
    BY <1>2, <1>4, <2>1, <2>2, CallerMoves
<1>5. CASE ~CanPay(i)
  BY <1>3, <1>5, CallerMoves DEF Fetch
<1> QED
  BY <1>4, <1>5

\* The count gives the payment its number.
LEMMA CountMoves ==
    ASSUME PayTypes, NEW p \in Payers, CountPayments(p)
    PROVE  /\ payer' \in [Payers -> Waiting \union Deciding \union Paying]
           /\ \A q \in Payers \ {p} : payer'[q] = payer[q]
           /\ payer'[p] \in Paying
           /\ payer'[p].phase = "counted" /\ payer'[p].number = Len(payments) + 1
           /\ payer'[p].inv = payer[p].inv /\ payer'[p].for = payer[p].for /\ payer'[p].seen = payer[p].seen
<1> DEFINE row == [payer[p] EXCEPT !.phase = "counted", !.number = Len(payments) + 1]
<1>1. payer[p] \in Paying
  BY CallerRow DEF CountPayments, At
<1>2. Len(payments) \in Nat
  BY DEF PayTypes
<1>3. /\ row \in Paying /\ row.phase = "counted" /\ row.number = Len(payments) + 1
      /\ row.inv = payer[p].inv /\ row.for = payer[p].for /\ row.seen = payer[p].seen
  <2>1. PICK x : x = payer[p]
    OBVIOUS
  <2>2. PICK n : n = Len(payments) + 1
    OBVIOUS
  <2>3. x \in Paying /\ n \in Nat
    BY <1>1, <1>2, <2>1, <2>2
  <2> QED
    BY <2>1, <2>2, <2>3 DEF Paying
<1>4. payer' = [payer EXCEPT ![p] = row]
  BY DEF CountPayments, PayTypes
<1> HIDE DEF row
<1> QED
  BY <1>3, <1>4, CallerMoves

\* A recording keeps the caller's row, or refuses.
LEMMA RecordMoves ==
    ASSUME PayTypes, NEW p \in Payers, Record(p)
    PROVE  /\ payer' \in [Payers -> Waiting \union Deciding \union Paying]
           /\ \A q \in Payers \ {p} : payer'[q] = payer[q]
           /\ \/ /\ payer[p].number = Len(payments) + 1 /\ Credited(p)
                 /\ payer'[p] \in Paying
                 /\ payer'[p].phase = "recorded" /\ payer'[p].inv = payer[p].inv /\ payer'[p].for = payer[p].for
              \/ payer'[p] = [phase |-> "refused"] /\ UNCHANGED <<invoice, payments, credit>>
<1> DEFINE row == [payer[p] EXCEPT !.phase = "recorded"]
<1>1. payer[p] \in Paying
  BY CallerRow DEF Record, At
<1>2. row \in Paying /\ row.phase = "recorded" /\ row.inv = payer[p].inv /\ row.for = payer[p].for
  BY <1>1 DEF Paying
<1>3. [phase |-> "refused"] \in Waiting
  BY DEF Waiting
<1>4. CASE payer[p].number = Len(payments) + 1 /\ Credited(p) /\ payer' = [payer EXCEPT ![p].phase = "recorded"]
  <2>1. payer' = [payer EXCEPT ![p] = row]
    BY <1>4 DEF PayTypes
  <2> HIDE DEF row
  <2> QED
    BY <1>2, <1>4, <2>1, CallerMoves
<1>5. CASE payer' = [payer EXCEPT ![p] = [phase |-> "refused"]] /\ UNCHANGED <<invoice, payments, credit>>
  BY <1>3, <1>5, CallerMoves
<1> QED
  BY <1>4, <1>5 DEF Record

\* What a recording writes: one payment, and the invoice and the credit by its
\* amount.
LEMMA CreditedWrites ==
    ASSUME PayTypes, NEW p \in Payers, payer[p] \in Paying, Credited(p)
    PROVE  LET i == payer[p].inv
               sum == payer[p].seen + payer[p].amount
               row == [inv |-> i, amount |-> payer[p].amount, for |-> payer[p].for]
           IN  /\ row \in PaymentRow
               /\ payments' = Append(payments, row) /\ payments' \in Seq(PaymentRow)
               /\ Len(payments') = Len(payments) + 1
               /\ payments'[Len(payments) + 1] = row
               /\ \A n \in 1..Len(payments) : payments'[n] = payments[n]
               /\ invoice' \in [Invoices -> InvoiceRow]
               /\ invoice'[i].paid = Smaller(sum, Price)
               /\ invoice'[i].status # "none" /\ invoice'[i].cycle = invoice[i].cycle
               /\ \A j \in Invoices \ {i} : invoice'[j] = invoice[j]
               /\ credit' = credit + sum - Smaller(sum, Price) /\ credit' \in Nat
<1> DEFINE i == payer[p].inv
           sum == payer[p].seen + payer[p].amount
           row == [inv |-> i, amount |-> payer[p].amount, for |-> payer[p].for]
           status == IF sum >= Price THEN "PAID" ELSE "PARTIALLY_PAID"
           new == [invoice[i] EXCEPT !.paid = Smaller(sum, Price), !.status = status]
<1>1. i \in Invoices /\ payer[p].amount \in Nat /\ payer[p].seen \in Nat /\ row \in PaymentRow
  <2>1. i \in Invoices /\ payer[p].amount \in Sums /\ payer[p].seen \in 0..Price /\ payer[p].for \in Payers
    BY DEF Paying
  <2>2. payer[p].amount \in Nat /\ payer[p].seen \in Nat
    <3>1. Price \in Nat /\ Sums \subseteq Nat
      BY Bounds
    <3>2. \A k \in 0..Price : k \in Nat
      BY <3>1
    <3> QED
      BY <2>1, <3>1, <3>2, Zenon
  <2> QED
    BY <2>1, <2>2 DEF PaymentRow
<1>2. sum \in Nat /\ Smaller(sum, Price) \in 0..Price /\ Smaller(sum, Price) <= sum
  BY <1>1, Bounds DEF Smaller
<1>3. payments' = Append(payments, row)
  BY DEF Credited
<1>4. /\ payments' \in Seq(PaymentRow) /\ Len(payments') = Len(payments) + 1
      /\ payments'[Len(payments) + 1] = row
      /\ \A n \in 1..Len(payments) : payments'[n] = payments[n]
  <2> HIDE DEF row
  <2> QED
    BY <1>1, <1>3 DEF PayTypes
<1>5. invoice' = [invoice EXCEPT ![i] = new]
  BY DEF Credited, PayTypes
<1>6. invoice[i] \in InvoiceRow /\ status \in Statuses \ {"none"}
  BY <1>1 DEF PayTypes, Statuses
<1>7. /\ new \in InvoiceRow /\ new.paid = Smaller(sum, Price) /\ new.status # "none"
      /\ new.cycle = invoice[i].cycle
  <2> HIDE DEF status, sum
  <2> QED
    BY <1>2, <1>6 DEF InvoiceRow
<1>8. credit' = credit + sum - Smaller(sum, Price)
  BY DEF Credited
<1>9. credit' \in Nat
  <2> HIDE DEF sum
  <2> QED
    BY <1>2, <1>8 DEF PayTypes
<1>10. /\ invoice' \in [Invoices -> InvoiceRow] /\ invoice'[i] = new
       /\ \A j \in Invoices \ {i} : invoice'[j] = invoice[j]
  <2> HIDE DEF new
  <2> QED
    BY <1>1, <1>5, <1>7 DEF PayTypes
<1> QED
  BY <1>1, <1>3, <1>4, <1>7, <1>8, <1>9, <1>10

-----------------------------------------------------------------------------
(* What leaves a part of the invariant as it is. *)

\* Invoices stay created, and whoever is at an invoice is at a created one.
LEMMA RealFrame ==
    ASSUME InvoicesAreReal,
           \A i \in Invoices : invoice'[i].status = "none" => invoice'[i] = invoice[i],
           \A p \in Payers :
               payer'[p].phase \in {"deciding", "fetched", "counted", "recorded"}
                   => payer'[p].inv \in Invoices /\ invoice[payer'[p].inv].status # "none"
    PROVE  InvoicesAreReal'
<1>1. \A i \in Invoices : invoice[i].status # "none" => invoice'[i].status # "none"
  OBVIOUS
<1> QED
  BY <1>1 DEF InvoicesAreReal

\* Nothing is paid, and nobody counts.
LEMMA MoneyFrame ==
    ASSUME PayTypes, Money, UNCHANGED <<payments, credit, slipped>>,
           \A i \in Invoices : invoice'[i].paid = invoice[i].paid,
           \A p \in Payers : At(p, "counted")' => payer'[p] = payer[p]
    PROVE  Money'
<1>1. ASSUME NEW p \in Payers, At(p, "counted")'
      PROVE  /\ payer'[p] = payer[p] /\ At(p, "counted") /\ payer[p].inv \in Invoices
             /\ invoice'[payer[p].inv].paid = invoice[payer[p].inv].paid
  <2>1. payer'[p] = payer[p] /\ At(p, "counted")
    BY <1>1 DEF At
  <2>2. payer[p].inv \in Invoices
    BY <2>1, CallerRow DEF At, Paying
  <2> QED
    BY <2>1, <2>2
<1>2. CountsAreFresh'
  BY <1>1 DEF Money, CountsAreFresh
<1>3. OnInvoices' = OnInvoices /\ Received' = Received
  BY DEF OnInvoices, Received
<1>4. IsFiniteSet(Units(Received))'
  BY <1>3 DEF Money
<1>5. MoneyIsConserved'
  BY <1>3 DEF Money, MoneyIsConserved
<1> QED
  BY <1>2, <1>4, <1>5 DEF Money

\* A caller that is not at a payment, or at one that is its own, before or after.
LEMMA TrueFrame ==
    ASSUME PayersAreTrue, NEW p \in Payers, \A q \in Payers \ {p} : payer'[q] = payer[q],
           p # Sweep => \A c \in Charges : OnIt(c)' = OnIt(c),
           payer[Sweep].phase \in {"fetched", "counted", "recorded"} => payer[Sweep].for \in Charges,
           payer'[p].phase \in {"fetched", "counted", "recorded"}
               => IF p = Sweep THEN OnIt(payer[p].for)' ELSE payer'[p].for = p
    PROVE  PayersAreTrue'
<1> SUFFICES ASSUME NEW q \in Payers, payer'[q].phase \in {"fetched", "counted", "recorded"}
             PROVE  IF q = Sweep THEN OnIt(payer[q].for)' ELSE payer'[q].for = q
  BY DEF PayersAreTrue, OnIt
<1>1. CASE q = p
  BY <1>1 DEF OnIt
<1>2. CASE q # p
  BY <1>2 DEF PayersAreTrue, OnIt
<1> QED
  BY <1>1, <1>2

\* A capture whose event, caller and payments stay.
LEMMA CaptureFrame ==
    ASSUME NEW e, CaptureOK(e), Uses(e)' = Uses(e), event'[e] = event[e], payer'[e] = payer[e]
    PROVE  CaptureOK(e)'
BY DEF CaptureOK, AtMostOnce, At

\* A charge whose attempt, callers and payments stay.
LEMMA ChargeFrame ==
    ASSUME NEW c, ChargeOK(c), Uses(c)' = Uses(c), attempt'[c] = attempt[c],
           At(c, "free")' = At(c, "free"), OnIt(c)' = OnIt(c), Settled(c)' = Settled(c)
    PROVE  ChargeOK(c)'
BY DEF ChargeOK, AtMostOnce

\* No period is billed, and the job does not come to or go from a billed one.
LEMMA PeriodsFrame ==
    ASSUME PeriodsOK, SubTypes, PayTypes, crashes' \in Nat, crashes <= crashes',
           \A i \in Invoices : invoice'[i].cycle = invoice[i].cycle,
           sub'.next = sub.next,
           HasBilled' = HasBilled
    PROVE  PeriodsOK'
<1>1. \A d : Billed(d)' = Billed(d)
  BY DEF Billed, Generated
<1>2. ASSUME NEW d \in 1..MaxCycles PROVE Cardinality(Billed(d)) \in Nat
  <2>1. Billed(d) \subseteq 1..MaxInvoices
    BY DEF Billed, Generated, Invoices
  <2>2. IsFiniteSet(1..MaxInvoices)
    BY Bounds, FS_Interval
  <2> QED
    BY <2>1, <2>2, FS_Subset, FS_CardinalityType
<1>3. crashes \in Nat
  BY DEF PayTypes
<1> QED
  BY <1>1, <1>2, <1>3 DEF PeriodsOK

\* The job and the row it works on stay.
LEMMA RowFrame ==
    ASSUME RowIsCurrent, SubTypes, clock' \in Nat, clock <= clock',
           sub'.next = sub.next, sub'.billed = sub.billed, sub'.ended = sub.ended,
           sweep'.phase = "idle" \/ (sweep.phase # "idle" /\ sweep'.sub = sweep.sub)
    PROVE  RowIsCurrent'
<1>1. sub.next \in Nat /\ clock \in Nat
  BY Bounds DEF SubTypes, SubRow
<1> QED
  BY <1>1 DEF RowIsCurrent

\* Who is paying is a caller that works for a charge or for itself.
LEMMA JobsCharge ==
    ASSUME SubTypes, Used, payer[Sweep].phase \in {"fetched", "counted", "recorded"}
    PROVE  payer[Sweep].for \in Charges /\ OnIt(payer[Sweep].for)
<1>1. OnIt(payer[Sweep].for)
  BY CallersApart DEF Used, PayersAreTrue
<1>2. sweep.phase = "stamp" => sweep.c \in Charges
  BY DEF SubTypes, SweepRow
<1> QED
  BY <1>1, <1>2 DEF OnIt

\* Whoever is at an invoice is at one that was created.
LEMMA AtCreated ==
    ASSUME PayTypes, InvoicesAreReal, NEW p \in Payers,
           payer[p].phase \in {"deciding", "fetched", "counted", "recorded"}
    PROVE  payer[p].inv \in Invoices /\ invoice[payer[p].inv].status # "none"
<1>1. payer[p] \in Paying \/ payer[p] \in Deciding
  BY CallerRow DEF At
<1> QED
  BY <1>1 DEF InvoicesAreReal, Paying, Deciding

\* A step that changes invoices but pays nothing, and no caller.
LEMMA InvoiceStep ==
    ASSUME IInv, UNCHANGED <<payments, credit, payer, event, crashes, slipped, subVars>>,
           invoice' \in [Invoices -> InvoiceRow],
           \A i \in Invoices :
               /\ invoice'[i].paid = invoice[i].paid /\ invoice'[i].cycle = invoice[i].cycle
               /\ invoice'[i].status = "none" => invoice'[i] = invoice[i]
    PROVE  IInv'
<1>1. PayTypes' /\ SubTypes'
  BY DEF IInv, PayTypes, SubTypes, subVars
<1>2. InvoicesAreReal'
  BY AtCreated, RealFrame DEF IInv
<1>3. Money'
  BY MoneyFrame DEF IInv
<1>4. Used'
  BY DEF IInv, Used, PayersAreTrue, SweepIsTrue, CaptureOK, ChargeOK, Settled, OnIt, AtMostOnce, Uses, At, subVars
<1>5. RowIsCurrent'
  BY DEF IInv, RowIsCurrent, subVars
<1>6. PeriodsOK'
  <2>1. crashes \in Nat
    BY DEF IInv, PayTypes
  <2> QED
    BY <2>1, PeriodsFrame DEF IInv, HasBilled, subVars
<1> QED
  BY <1>1, <1>2, <1>3, <1>4, <1>5, <1>6 DEF IInv

\* A row with another status, or with another deletion mark.
LEMMA RowWith ==
    ASSUME NEW r \in InvoiceRow, NEW status \in Statuses, NEW deleted \in BOOLEAN
    PROVE  /\ LET new == [r EXCEPT !.status = status]
              IN  new \in InvoiceRow /\ new.paid = r.paid /\ new.cycle = r.cycle /\ new.status = status
           /\ LET new == [r EXCEPT !.deleted = deleted]
              IN  new \in InvoiceRow /\ new.paid = r.paid /\ new.cycle = r.cycle /\ new.status = r.status
BY DEF InvoiceRow

\* A new invoice, one that falls due, one that is restored.
LEMMA InvoiceChanges ==
    ASSUME IInv, NEW i \in Invoices, IssueInvoice(i) \/ MarkOverdue(i) \/ Restore(i), UNCHANGED subVars
    PROVE  IInv'
<1>1. invoice[i] \in InvoiceRow /\ invoice \in [Invoices -> InvoiceRow]
  BY DEF IInv, PayTypes
<1>2. PICK new \in InvoiceRow :
        /\ invoice' = [invoice EXCEPT ![i] = new]
        /\ new.paid = invoice[i].paid /\ new.cycle = invoice[i].cycle
        /\ new.status = "none" => new = invoice[i]
  <2>1. CASE IssueInvoice(i)
    <3>1. invoice' = [invoice EXCEPT ![i] = [invoice[i] EXCEPT !.status = "SENT"]]
      BY <1>1, <2>1 DEF IssueInvoice
    <3>2. "SENT" \in Statuses \ {"none"}
      BY DEF Statuses
    <3> QED
      BY <1>1, <3>1, <3>2, RowWith
  <2>2. CASE MarkOverdue(i)
    <3>1. invoice' = [invoice EXCEPT ![i] = [invoice[i] EXCEPT !.status = "OVERDUE"]]
      BY <1>1, <2>2 DEF MarkOverdue
    <3>2. "OVERDUE" \in Statuses \ {"none"}
      BY DEF Statuses
    <3> QED
      BY <1>1, <3>1, <3>2, RowWith
  <2>3. CASE Restore(i)
    <3>1. invoice' = [invoice EXCEPT ![i] = [invoice[i] EXCEPT !.deleted = FALSE]]
      BY <1>1, <2>3 DEF Restore
    <3>2. invoice[i].status # "none"
      BY <2>3 DEF Restore, IInv, InvoicesAreReal, NoInvoice
    <3>3. "SENT" \in Statuses
      BY DEF Statuses
    <3> QED
      BY <1>1, <3>1, <3>2, <3>3, RowWith
  <2> QED
    BY <2>1, <2>2, <2>3
<1>3. /\ invoice' \in [Invoices -> InvoiceRow]
      /\ \A j \in Invoices :
               /\ invoice'[j].paid = invoice[j].paid /\ invoice'[j].cycle = invoice[j].cycle
               /\ invoice'[j].status = "none" => invoice'[j] = invoice[j]
  BY <1>1, <1>2
<1> QED
  BY <1>3, InvoiceStep DEF IssueInvoice, MarkOverdue, Restore

-----------------------------------------------------------------------------
(* Requests of staff and of Razorpay. *)

\* A step of one such request that pays nothing and does not count.
LEMMA RequestStep ==
    ASSUME IInv, NEW p \in Clerks \union Captures,
           UNCHANGED <<payments, credit, slipped, subVars>>,
           payer' \in [Payers -> Waiting \union Deciding \union Paying],
           \A q \in Payers \ {p} : payer'[q] = payer[q],
           event' \in [Captures -> EventRow],
           \A e \in Captures \ {p} : event'[e] = event[e],
           crashes' \in Nat, crashes <= crashes',
           invoice' \in [Invoices -> InvoiceRow],
           \A i \in Invoices :
               /\ invoice'[i].paid = invoice[i].paid /\ invoice'[i].cycle = invoice[i].cycle
               /\ invoice'[i].status = "none" => invoice'[i] = invoice[i],
           payer'[p].phase # "counted",
           payer'[p].phase \in {"deciding", "fetched", "counted", "recorded"}
               => payer'[p].inv \in Invoices /\ invoice[payer'[p].inv].status # "none",
           payer'[p].phase \in {"fetched", "counted", "recorded"} => payer'[p].for = p,
           p \in Captures \ Nameless => CaptureOK(p)'
    PROVE  IInv'
<1>1. PayTypes' /\ SubTypes'
  BY DEF IInv, PayTypes, SubTypes, subVars
<1>2. p \in Payers /\ p # Sweep /\ p \notin Charges
  BY CallersApart DEF Payers
<1>3. InvoicesAreReal'
  <2>1. ASSUME NEW q \in Payers, payer'[q].phase \in {"deciding", "fetched", "counted", "recorded"}
        PROVE  payer'[q].inv \in Invoices /\ invoice[payer'[q].inv].status # "none"
    <3>1. CASE q = p
      BY <2>1, <3>1
    <3>2. CASE q # p
      BY <2>1, <3>2, AtCreated DEF IInv
    <3> QED
      BY <3>1, <3>2
  <2> QED
    BY <2>1, RealFrame DEF IInv
<1>4. Money'
  <2>1. ASSUME NEW q \in Payers, At(q, "counted")' PROVE payer'[q] = payer[q]
    BY <2>1 DEF At
  <2> QED
    BY <2>1, MoneyFrame DEF IInv
<1>5. \A x : Uses(x)' = Uses(x)
  BY DEF Uses
<1>6. PayersAreTrue'
  <2>1. \A c : OnIt(c)' = OnIt(c)
    BY DEF OnIt, subVars
  <2>2. payer[Sweep].phase \in {"fetched", "counted", "recorded"} => payer[Sweep].for \in Charges
    BY JobsCharge DEF IInv
  <2> QED
    BY <1>2, <2>1, <2>2, TrueFrame DEF IInv, Used
<1>7. payer'[Sweep] = payer[Sweep] /\ \A c \in Charges : payer'[c] = payer[c]
  BY <1>2, CallersApart
<1>8. SweepIsTrue'
  BY <1>7 DEF IInv, Used, SweepIsTrue, At, subVars
<1>9. \A c \in Charges \ shared' : ChargeOK(c)'
  <2>1. ASSUME NEW c \in Charges \ shared PROVE ChargeOK(c)'
    BY <1>5, <1>7, ChargeFrame DEF IInv, Used, At, OnIt, Settled, subVars
  <2> QED
    BY <2>1 DEF subVars
<1>10. \A e \in Captures \ Nameless : CaptureOK(e)'
  <2>1. ASSUME NEW e \in Captures \ Nameless, e # p PROVE CaptureOK(e)'
    <3>1. payer'[e] = payer[e] /\ event'[e] = event[e]
      BY <2>1 DEF Payers
    <3> QED
      BY <1>5, <3>1, CaptureFrame DEF IInv, Used
  <2> QED
    BY <2>1
<1>11. RowIsCurrent'
  BY DEF IInv, RowIsCurrent, subVars
<1>12. PeriodsOK'
  BY PeriodsFrame DEF IInv, HasBilled, subVars
<1> QED
  BY <1>1, <1>3, <1>4, <1>6, <1>8, <1>9, <1>10, <1>11, <1>12 DEF IInv, Used

\* Staff look at an invoice, hear of the outcome, or the API dies under them.
LEMMA ClerkChanges ==
    ASSUME IInv, NEW k \in Clerks, UNCHANGED subVars,
           \/ \E i \in Invoices, amount \in Amounts : ClerkPays(k, i, amount)
           \/ \E i \in Invoices, to \in {"CANCELLED", "WRITE_OFF", "deleted"} : Decide(k, i, to)
           \/ ClerkIsTold(k) \/ Dies(k)
    PROVE  IInv'
<1>1. k \in Payers /\ k \notin Captures /\ crashes \in Nat /\ PayTypes
  BY CallersApart DEF Payers, IInv, PayTypes
<1>2. /\ invoice' = invoice /\ UNCHANGED <<payments, credit, slipped, event>>
      /\ crashes' \in Nat /\ crashes <= crashes'
  BY <1>1 DEF ClerkPays, Decide, ClerkIsTold, Dies
<1>3. /\ payer' \in [Payers -> Waiting \union Deciding \union Paying]
      /\ \A q \in Payers \ {k} : payer'[q] = payer[q]
      /\ payer'[k].phase # "counted"
      /\ payer'[k].phase \in {"deciding", "fetched", "counted", "recorded"}
               => payer'[k].inv \in Invoices /\ invoice[payer'[k].inv].status # "none"
      /\ payer'[k].phase \in {"fetched", "counted", "recorded"} => payer'[k].for = k
  <2>1. ASSUME NEW i \in Invoices, NEW amount \in Amounts, ClerkPays(k, i, amount) PROVE <1>3
    <3>1. amount \in Sums
      BY DEF Sums
    <3>2. invoice[i].status # "none"
      BY <2>1 DEF ClerkPays
    <3> QED
      BY <1>1, <2>1, <3>1, <3>2, FetchMoves DEF ClerkPays
  <2>2. ASSUME NEW i \in Invoices, NEW to \in {"CANCELLED", "WRITE_OFF", "deleted"}, Decide(k, i, to) PROVE <1>3
    <3> DEFINE row == [phase |-> "deciding", inv |-> i, to |-> to]
    <3>1. row \in Deciding /\ row.phase = "deciding" /\ row.inv = i
      BY DEF Deciding
    <3>2. invoice[i].status # "none"
      BY <2>2 DEF Decide, Takes, Payable
    <3>3. payer' = [payer EXCEPT ![k] = row]
      BY <2>2 DEF Decide
    <3> HIDE DEF row
    <3> QED
      BY <1>1, <3>1, <3>2, <3>3, CallerMoves
  <2>3. ASSUME ClerkIsTold(k) \/ Dies(k) PROVE <1>3
    <3>1. payer' = [payer EXCEPT ![k] = Free]
      BY <2>3 DEF ClerkIsTold, Dies
    <3>2. Free \in Waiting /\ Free.phase = "free"
      BY DEF Free, Waiting
    <3> QED
      BY <1>1, <3>1, <3>2, CallerMoves
  <2> QED
    BY <2>1, <2>2, <2>3
<1> QED
  BY <1>1, <1>2, <1>3, RequestStep DEF IInv, PayTypes

\* A decision is carried out on an invoice that was created.
LEMMA SettleChanges ==
    ASSUME IInv, NEW k \in Clerks, UNCHANGED subVars, Settle(k)
    PROVE  IInv'
<1>1. k \in Payers /\ k \notin Captures /\ crashes \in Nat
  BY CallersApart DEF Payers, IInv, PayTypes
<1> DEFINE i == payer[k].inv
           to == payer[k].to
           new == IF to = "deleted" THEN [invoice[i] EXCEPT !.deleted = TRUE] ELSE [invoice[i] EXCEPT !.status = to]
<1>2. payer[k] \in Deciding
  BY <1>1, CallerRow DEF Settle, IInv, At
<1>3. i \in Invoices /\ to \in {"CANCELLED", "WRITE_OFF", "deleted"} /\ invoice[i].status # "none"
  BY <1>1, <1>2, AtCreated DEF IInv, Deciding, Settle, At
<1>4. invoice[i] \in InvoiceRow
  BY <1>3 DEF IInv, PayTypes
<1>5. new \in InvoiceRow /\ new.paid = invoice[i].paid /\ new.cycle = invoice[i].cycle /\ new.status # "none"
  <2>1. CASE to = "deleted"
    <3>1. new = [invoice[i] EXCEPT !.deleted = TRUE]
      BY <2>1
    <3>2. "SENT" \in Statuses
      BY DEF Statuses
    <3>3. /\ new \in InvoiceRow /\ new.paid = invoice[i].paid /\ new.cycle = invoice[i].cycle
          /\ new.status = invoice[i].status
      <4> HIDE DEF new
      <4> QED
        BY <1>4, <3>1, <3>2, RowWith
    <3> QED
      BY <1>3, <3>3
  <2>2. CASE to # "deleted"
    <3>1. to \in Statuses /\ to # "none"
      BY <1>3, <2>2 DEF Statuses
    <3> QED
      BY <1>4, <2>2, <3>1, RowWith
  <2> QED
    BY <2>1, <2>2
<1>6. invoice' = [invoice EXCEPT ![i] = new]
  BY <1>3 DEF Settle, IInv, PayTypes
<1>7. /\ invoice' \in [Invoices -> InvoiceRow]
      /\ \A j \in Invoices :
               /\ invoice'[j].paid = invoice[j].paid /\ invoice'[j].cycle = invoice[j].cycle
               /\ invoice'[j].status = "none" => invoice'[j] = invoice[j]
  <2> HIDE DEF new
  <2> QED
    BY <1>3, <1>5, <1>6 DEF IInv, PayTypes
<1>8. [phase |-> "decided"] \in Waiting
  BY DEF Waiting
<1>9. /\ payer' \in [Payers -> Waiting \union Deciding \union Paying]
      /\ \A q \in Payers \ {k} : payer'[q] = payer[q]
      /\ payer'[k].phase = "decided"
  BY <1>1, <1>8, CallerMoves DEF Settle, IInv
<1>10. /\ UNCHANGED <<payments, credit, slipped, event, crashes>>
       /\ event' \in [Captures -> EventRow]
       /\ crashes' \in Nat /\ crashes <= crashes'
  BY <1>1 DEF Settle, IInv, PayTypes
<1> HIDE DEF i, to, new
<1> QED
  BY <1>1, <1>7, <1>9, <1>10, RequestStep

\* A delivery is stored and perhaps applied: the caller's row is a waiting one or
\* a payment on an invoice that was created.
LEMMA ReceiveMoves ==
    ASSUME PayTypes, NEW e \in Captures, NEW i \in Invoices, NEW amount \in Amounts, NEW verified \in BOOLEAN,
           Receive(e, i, amount, verified)
    PROVE  /\ payer' \in [Payers -> Waiting \union Deciding \union Paying]
           /\ \A q \in Payers \ {e} : payer'[q] = payer[q]
           /\ payer'[e].phase \in {"refused", "fetched", "ignored"}
           /\ payer'[e].phase = "ignored" => ~verified
           /\ payer'[e].phase = "fetched"
                => verified /\ payer'[e].inv = i /\ payer'[e].for = e /\ invoice[i].status # "none"
<1>1. e \in Payers
  BY DEF Payers
<1>2. CASE verified
  <2>1. amount \in Sums
    BY DEF Sums
  <2>2. Fetch(e, i, amount, e) /\ invoice[i].status # "none"
    BY <1>2 DEF Receive
  <2>3. /\ payer' \in [Payers -> Waiting \union Deciding \union Paying]
        /\ \A q \in Payers \ {e} : payer'[q] = payer[q]
        /\ \/ payer'[e] = [phase |-> "refused"]
           \/ payer'[e].phase = "fetched" /\ payer'[e].inv = i /\ payer'[e].for = e
    BY <1>1, <2>1, <2>2, FetchMoves
  <2> QED
    BY <1>2, <2>2, <2>3
<1>3. CASE ~verified
  <2>1. payer' = [payer EXCEPT ![e] = [phase |-> "ignored"]]
    BY <1>3 DEF Receive
  <2>2. [phase |-> "ignored"] \in Waiting
    BY DEF Waiting
  <2> QED
    BY <1>1, <1>3, <2>1, <2>2, CallerMoves
<1> QED
  BY <1>2, <1>3

\* What is noted is a row, of this capture only.
LEMMA Noted ==
    ASSUME PayTypes, NEW e \in Captures, NEW row \in EventRow, Note(e, row)
    PROVE  /\ event' \in [Captures -> EventRow]
           /\ \A d \in Captures \ {e} : event'[d] = event[d]
           /\ e \notin Nameless => event'[e] = row
BY DEF PayTypes, Note

\* An event is stored, its outcome noted, or the API dies in between.
LEMMA CaptureChanges ==
    ASSUME IInv, NEW e \in Captures, UNCHANGED subVars,
           \/ \E i \in Invoices, amount \in Amounts, verified \in BOOLEAN : Receive(e, i, amount, verified)
           \/ NoteOutcome(e) \/ Dies(e)
    PROVE  IInv'
<1>1. e \in Payers /\ crashes \in Nat /\ PayTypes /\ (e \notin Nameless => CaptureOK(e)) /\ event[e] \in EventRow
  BY DEF Payers, IInv, PayTypes, Used
<1>2. /\ invoice' = invoice /\ UNCHANGED <<payments, credit, slipped>>
      /\ crashes' \in Nat /\ crashes <= crashes'
  <2>1. CASE Dies(e)
    BY <1>1, <2>1 DEF Dies
  <2>2. CASE NoteOutcome(e)
    BY <1>1, <2>2 DEF NoteOutcome
  <2>3. CASE \E i \in Invoices, amount \in Amounts, verified \in BOOLEAN : Receive(e, i, amount, verified)
    BY <1>1, <2>3 DEF Receive
  <2> QED
    BY <2>1, <2>2, <2>3
<1>3. Uses(e)' = Uses(e)
  BY <1>2 DEF Uses
<1>4. Free \in Waiting /\ Free.phase = "free"
  BY DEF Free, Waiting
<1>5. /\ event' \in [Captures -> EventRow]
      /\ \A d \in Captures \ {e} : event'[d] = event[d]
      /\ payer' \in [Payers -> Waiting \union Deciding \union Paying]
      /\ \A q \in Payers \ {e} : payer'[q] = payer[q]
      /\ payer'[e].phase \in {"free", "refused", "ignored", "fetched"}
      /\ payer'[e].phase = "fetched" => payer'[e].inv \in Invoices /\ invoice[payer'[e].inv].status # "none"
      /\ payer'[e].phase = "fetched" => payer'[e].for = e
      /\ e \notin Nameless => CaptureOK(e)'
  <2>1. ASSUME NEW i \in Invoices, NEW amount \in Amounts, NEW verified \in BOOLEAN,
               Receive(e, i, amount, verified)
        PROVE <1>5
    <3>1. PICK row : row = [state |-> "stored", verified |-> verified]
      OBVIOUS
    <3>2. row \in EventRow /\ row.state = "stored" /\ row.verified = verified
      BY <3>1 DEF EventRow
    <3>3. Note(e, row) /\ event[e].state = "none"
      BY <2>1, <3>1 DEF Receive
    <3>4. /\ event' \in [Captures -> EventRow]
          /\ \A d \in Captures \ {e} : event'[d] = event[d]
          /\ e \notin Nameless => event'[e] = row
      BY <1>1, <3>2, <3>3, Noted
    <3>5. /\ payer' \in [Payers -> Waiting \union Deciding \union Paying]
          /\ \A q \in Payers \ {e} : payer'[q] = payer[q]
          /\ payer'[e].phase \in {"refused", "fetched", "ignored"}
          /\ payer'[e].phase = "ignored" => ~verified
          /\ payer'[e].phase = "fetched"
                => verified /\ payer'[e].inv = i /\ payer'[e].for = e /\ invoice[i].status # "none"
      BY <1>1, <2>1, ReceiveMoves
    <3>6. ASSUME e \notin Nameless PROVE CaptureOK(e)'
      <4>1. Uses(e) = {}
        BY <1>1, <3>3, <3>6 DEF CaptureOK
      <4> QED
        BY <1>3, <3>2, <3>4, <3>5, <3>6, <4>1 DEF CaptureOK, AtMostOnce, At
    <3> QED
      BY <3>4, <3>5, <3>6
  <2>2. ASSUME NoteOutcome(e) PROVE <1>5
    <3>1. payer' = [payer EXCEPT ![e] = Free] /\ payer[e].phase \in {"recorded", "refused", "ignored"}
      BY <2>2 DEF NoteOutcome
    <3>2. /\ payer' \in [Payers -> Waiting \union Deciding \union Paying]
          /\ \A q \in Payers \ {e} : payer'[q] = payer[q]
          /\ payer'[e].phase = "free"
      BY <1>1, <1>4, <3>1, CallerMoves
    <3>3. PICK state \in {"processed", "failed"} :
            /\ At(e, "refused") => state = "failed"
            /\ Note(e, [event[e] EXCEPT !.state = state])
      BY <2>2 DEF NoteOutcome
    <3>4. PICK row : row = [event[e] EXCEPT !.state = state]
      OBVIOUS
    <3>5. row \in EventRow /\ row.state = state /\ row.verified = event[e].verified
      BY <1>1, <3>4 DEF EventRow
    <3>6. /\ event' \in [Captures -> EventRow]
          /\ \A d \in Captures \ {e} : event'[d] = event[d]
          /\ e \notin Nameless => event'[e] = row
      BY <1>1, <3>3, <3>4, <3>5, Noted
    <3>7. ASSUME e \notin Nameless PROVE CaptureOK(e)'
      BY <1>1, <1>3, <3>1, <3>2, <3>3, <3>5, <3>6, <3>7 DEF CaptureOK, AtMostOnce, At
    <3> QED
      BY <3>2, <3>6, <3>7
  <2>3. ASSUME Dies(e) PROVE <1>5
    <3>1. payer' = [payer EXCEPT ![e] = Free] /\ event' = event
      BY <2>3 DEF Dies
    <3>2. /\ payer' \in [Payers -> Waiting \union Deciding \union Paying]
          /\ \A q \in Payers \ {e} : payer'[q] = payer[q]
          /\ payer'[e].phase = "free"
      BY <1>1, <1>4, <3>1, CallerMoves
    <3>3. ASSUME e \notin Nameless PROVE CaptureOK(e)'
      BY <1>1, <1>3, <3>1, <3>2, <3>3 DEF CaptureOK, AtMostOnce, At
    <3> QED
      BY <1>1, <3>1, <3>2, <3>3 DEF PayTypes
  <2> QED
    BY <2>1, <2>2, <2>3
<1> QED
  BY <1>1, <1>2, <1>5, RequestStep DEF IInv, PayTypes

-----------------------------------------------------------------------------
(* The recording of a payment. *)

\* Who is paying for what: staff and events for themselves, the job for the
\* charge it is settling.
LEMMA WhoPays ==
    ASSUME SubTypes, Used, NEW p \in Payers, payer[p].phase \in {"fetched", "counted", "recorded"}
    PROVE  \/ p # Sweep /\ payer[p].for = p
           \/ p = Sweep /\ payer[p].for \in Charges /\ OnIt(payer[p].for)
<1>1. CASE p = Sweep
  BY <1>1, JobsCharge
<1>2. CASE p # Sweep
  BY <1>2 DEF Used, PayersAreTrue
<1> QED
  BY <1>1, <1>2

\* A caller at a payment that neither is nor becomes recorded: nothing is used.
LEMMA UsedFrame ==
    ASSUME PayTypes, SubTypes, Used, NEW p \in Payers, payer[p].phase \in {"fetched", "counted"},
           UNCHANGED <<payments, event, subVars>>,
           \A q \in Payers \ {p} : payer'[q] = payer[q],
           payer'[p].phase \in {"counted", "refused"},
           At(p, "counted")' => payer'[p].for = payer[p].for
    PROVE  Used'
<1>1. \A x : Uses(x)' = Uses(x) /\ OnIt(x)' = OnIt(x)
  BY DEF Uses, OnIt, subVars
<1>2. PayersAreTrue'
  <2>1. payer'[p].phase \in {"fetched", "counted", "recorded"} => payer'[p].for = payer[p].for
    BY DEF At
  <2>2. payer'[p].phase \in {"fetched", "counted", "recorded"}
            => IF p = Sweep THEN OnIt(payer[p].for)' ELSE payer'[p].for = p
    BY <2>1, WhoPays DEF OnIt, subVars
  <2>3. payer[Sweep].phase \in {"fetched", "counted", "recorded"} => payer[Sweep].for \in Charges
    BY JobsCharge
  <2> QED
    BY <1>1, <2>2, <2>3, TrueFrame DEF Used
<1>3. SweepIsTrue'
  <2>1. CASE p = Sweep
    BY <2>1 DEF Used, SweepIsTrue, At, subVars
  <2>2. CASE p # Sweep
    BY <2>2, CallersApart DEF Used, SweepIsTrue, At, subVars
  <2> QED
    BY <2>1, <2>2
<1>4. ASSUME NEW e \in Captures \ Nameless PROVE CaptureOK(e)'
  <2>1. CaptureOK(e)
    BY DEF Used
  <2>2. CASE e = p
    BY <1>1, <2>1, <2>2 DEF CaptureOK, AtMostOnce, At
  <2>3. CASE e # p
    <3>1. payer'[e] = payer[e]
      BY <2>3 DEF Payers
    <3> QED
      BY <1>1, <2>1, <3>1, CaptureFrame
  <2> QED
    BY <2>2, <2>3
<1>5. ASSUME NEW c \in Charges \ shared PROVE ChargeOK(c)'
  <2>1. ChargeOK(c)
    BY DEF Used
  <2>2. \A q \in Payers : At(q, "free")' = At(q, "free") /\ At(q, "recorded")' = At(q, "recorded")
    BY DEF At
  <2>3. c \in Payers /\ Sweep \in Payers
    BY CallersApart
  <2>4. Settled(c)' = Settled(c)
    BY <1>1, <2>2, <2>3 DEF Settled
  <2> QED
    BY <1>1, <2>1, <2>2, <2>3, <2>4, ChargeFrame DEF subVars
<1>6. \A c \in Charges \ shared' : ChargeOK(c)'
  BY <1>5 DEF subVars
<1> QED
  BY <1>2, <1>3, <1>4, <1>6 DEF Used

\* The payments are counted.
LEMMA CountChanges ==
    ASSUME IInv, NEW p \in Payers, CountPayments(p), UNCHANGED subVars
    PROVE  IInv'
<1> USE DEF IInv
<1>1. At(p, "fetched") /\ UNCHANGED <<invoice, payments, credit, event, crashes>>
  BY DEF CountPayments
<1>2. /\ payer' \in [Payers -> Waiting \union Deciding \union Paying]
      /\ \A q \in Payers \ {p} : payer'[q] = payer[q]
      /\ payer'[p] \in Paying
      /\ payer'[p].phase = "counted" /\ payer'[p].number = Len(payments) + 1
      /\ payer'[p].inv = payer[p].inv /\ payer'[p].for = payer[p].for /\ payer'[p].seen = payer[p].seen
  BY CountMoves
<1>3. payer[p].inv \in Invoices /\ invoice[payer[p].inv].status # "none"
  BY <1>1, AtCreated DEF At
<1>4. slipped \subseteq slipped' /\ slipped' \subseteq Invoices
      /\ (invoice[payer[p].inv].paid # payer[p].seen => payer[p].inv \in slipped')
  BY <1>3 DEF CountPayments, PayTypes
<1>5. PayTypes' /\ SubTypes'
  BY <1>1, <1>2, <1>4 DEF PayTypes, SubTypes, subVars
<1>6. InvoicesAreReal'
  <2>1. ASSUME NEW q \in Payers, payer'[q].phase \in {"deciding", "fetched", "counted", "recorded"}
        PROVE  payer'[q].inv \in Invoices /\ invoice[payer'[q].inv].status # "none"
    <3>1. CASE q = p
      BY <1>2, <1>3, <3>1
    <3>2. CASE q # p
      BY <1>2, <2>1, <3>2, AtCreated
    <3> QED
      BY <3>1, <3>2
  <2> QED
    BY <1>1, <2>1, RealFrame
<1>7. Money'
  <2>1. CountsAreFresh'
    <3> SUFFICES ASSUME NEW q \in Payers, payer'[q].phase = "counted"
                 PROVE  /\ payer'[q].number <= Len(payments') + 1
                        /\ payer'[q].number = Len(payments') + 1 /\ payer'[q].inv \notin slipped'
                              => invoice'[payer'[q].inv].paid = payer'[q].seen
      BY DEF CountsAreFresh, At
    <3>1. Len(payments) \in Nat
      BY DEF PayTypes
    <3>2. CASE q = p
      BY <1>1, <1>2, <1>4, <3>1, <3>2
    <3>3. CASE q # p
      BY <1>1, <1>2, <1>4, <3>3 DEF Money, CountsAreFresh, At
    <3> QED
      BY <3>2, <3>3
  <2>2. OnInvoices' = OnInvoices /\ Received' = Received
    BY <1>1 DEF OnInvoices, Received
  <2>3. IsFiniteSet(Units(Received))' /\ MoneyIsConserved'
    BY <1>1, <1>4, <2>2 DEF Money, MoneyIsConserved
  <2> QED
    BY <2>1, <2>3 DEF Money
<1>8. Used'
  BY <1>1, <1>2, UsedFrame DEF At
<1>9. RowIsCurrent'
  BY DEF RowIsCurrent, subVars
<1>10. PeriodsOK'
  <2>1. crashes \in Nat
    BY DEF PayTypes
  <2> QED
    BY <1>1, <2>1, PeriodsFrame DEF HasBilled, subVars
<1> QED
  BY <1>5, <1>6, <1>7, <1>8, <1>9, <1>10

\* A number that was taken: the caller is refused and nothing else happens.
LEMMA RefusedRecord ==
    ASSUME IInv, NEW p \in Payers, Record(p), UNCHANGED subVars,
           payer'[p] = [phase |-> "refused"], UNCHANGED <<invoice, payments, credit>>
    PROVE  IInv'
<1> USE DEF IInv
<1>1. At(p, "counted") /\ UNCHANGED <<event, crashes, slipped>>
  BY DEF Record
<1>2. /\ payer' \in [Payers -> Waiting \union Deciding \union Paying]
      /\ \A q \in Payers \ {p} : payer'[q] = payer[q]
      /\ payer'[p].phase = "refused"
  BY RecordMoves
<1>3. PayTypes' /\ SubTypes'
  BY <1>1, <1>2 DEF PayTypes, SubTypes, subVars
<1>4. InvoicesAreReal'
  <2>1. ASSUME NEW q \in Payers, payer'[q].phase \in {"deciding", "fetched", "counted", "recorded"}
        PROVE  payer'[q].inv \in Invoices /\ invoice[payer'[q].inv].status # "none"
    BY <1>2, <2>1, AtCreated
  <2> QED
    BY <1>1, <2>1, RealFrame
<1>5. Money'
  BY <1>1, <1>2, MoneyFrame DEF At
<1>6. Used'
  BY <1>1, <1>2, UsedFrame DEF At
<1>7. RowIsCurrent'
  BY DEF RowIsCurrent, subVars
<1>8. PeriodsOK'
  <2>1. crashes \in Nat
    BY DEF PayTypes
  <2> QED
    BY <1>1, <2>1, PeriodsFrame DEF HasBilled, subVars
<1> QED
  BY <1>3, <1>4, <1>5, <1>6, <1>7, <1>8

\* One payment more: it is a use of what it was recorded for and of nothing else.
LEMMA OneUseMore ==
    ASSUME PayTypes, NEW row \in PaymentRow, Len(payments') = Len(payments) + 1,
           payments' \in Seq(PaymentRow), payments'[Len(payments) + 1] = row,
           \A n \in 1..Len(payments) : payments'[n] = payments[n]
    PROVE  \A x : Uses(x)' = IF x = row.for THEN Uses(x) \union {Len(payments) + 1} ELSE Uses(x)
<1>1. Len(payments) \in Nat /\ DOMAIN payments = 1..Len(payments) /\ DOMAIN payments' = 1..(Len(payments) + 1)
  BY DEF PayTypes
<1>2. DOMAIN payments' = DOMAIN payments \union {Len(payments) + 1} /\ Len(payments) + 1 \notin DOMAIN payments
  BY <1>1
<1>3. \A n \in DOMAIN payments : payments'[n] = payments[n]
  BY <1>1
<1>4. ASSUME NEW x PROVE Uses(x)' = {n \in DOMAIN payments' : payments'[n].for = x}
  BY DEF Uses
<1> QED
  BY <1>2, <1>3, <1>4 DEF Uses

\* The money after a recording with the next number: the invoice was as the
\* caller had seen it, so its amount and the credit grow by what was paid.
LEMMA RecordMoney ==
    ASSUME IInv, NEW p \in Payers, At(p, "counted"), payer[p].number = Len(payments) + 1, Credited(p),
           payer'[p].phase = "recorded", \A q \in Payers \ {p} : payer'[q] = payer[q], slipped' = slipped
    PROVE  Money'
<1> USE DEF IInv
<1> DEFINE i == payer[p].inv
           amount == payer[p].amount
           sum == payer[p].seen + amount
           last == Len(payments) + 1
<1>1. payer[p] \in Paying
  BY CallerRow DEF At
<1>2. /\ payments' \in Seq(PaymentRow) /\ Len(payments') = last
      /\ payments'[last].amount = amount
      /\ \A n \in 1..Len(payments) : payments'[n] = payments[n]
      /\ invoice' \in [Invoices -> InvoiceRow]
      /\ invoice'[i].paid = Smaller(sum, Price)
      /\ \A j \in Invoices \ {i} : invoice'[j] = invoice[j]
      /\ credit' = credit + sum - Smaller(sum, Price)
  <2> DEFINE row == [inv |-> i, amount |-> amount, for |-> payer[p].for]
  <2>1. /\ payments' \in Seq(PaymentRow) /\ Len(payments') = last
        /\ payments'[last] = row
        /\ \A n \in 1..Len(payments) : payments'[n] = payments[n]
    BY <1>1, CreditedWrites
  <2>2. /\ invoice' \in [Invoices -> InvoiceRow]
        /\ invoice'[i].paid = Smaller(sum, Price)
        /\ \A j \in Invoices \ {i} : invoice'[j] = invoice[j]
        /\ credit' = credit + sum - Smaller(sum, Price)
    BY <1>1, CreditedWrites
  <2>3. row.amount = amount
    OBVIOUS
  <2> HIDE DEF row, i, sum, last, amount
  <2> QED
    BY <2>1, <2>2, <2>3
<1>3. i \in Invoices /\ amount \in Nat /\ payer[p].seen \in Nat /\ Len(payments) \in Nat
  <2>1. i \in Invoices /\ amount \in Sums /\ payer[p].seen \in 0..Price
    BY <1>1 DEF Paying
  <2>2. Sums \subseteq Nat /\ \A k \in 0..Price : k \in Nat
    BY Bounds
  <2>3. Len(payments) \in Nat
    BY DEF PayTypes
  <2> QED
    BY <2>1, <2>2, <2>3
<1>4. CountsAreFresh'
  <2> SUFFICES ASSUME NEW q \in Payers, payer'[q].phase = "counted"
               PROVE  /\ payer'[q].number <= Len(payments') + 1
                      /\ payer'[q].number # Len(payments') + 1
    BY DEF CountsAreFresh, At
  <2>1. q # p
    OBVIOUS
  <2>2. payer'[q] = payer[q] /\ payer[q].number <= last /\ payer[q].number \in Nat
    BY <2>1, CallerRow DEF Money, CountsAreFresh, At, Paying
  <2> QED
    BY <1>2, <1>3, <2>2
<1>5. IsFiniteSet(Units(Received))' /\ Total(Received)' = Total(Received) + amount
  <2>1. DOMAIN payments = 1..Len(payments) /\ DOMAIN payments' = 1..last
    BY <1>2 DEF PayTypes
  <2> DEFINE f == Received
             g == [n \in DOMAIN payments' |-> payments'[n].amount]
  <2>2. last \notin DOMAIN f /\ DOMAIN g = DOMAIN f \union {last}
    BY <1>3, <2>1 DEF Received
  <2>3. (\A n \in DOMAIN f : g[n] = f[n]) /\ g[last] = amount
    BY <1>2, <1>3, <2>1 DEF Received
  <2>4. IsFiniteSet(Units(f))
    BY DEF Money
  <2> HIDE DEF f, g
  <2>5. IsFiniteSet(Units(g)) /\ Total(g) = Total(f) + amount
    <3>1. g[last] \in Nat
      BY <1>3, <2>3
    <3> HIDE DEF last, amount
    <3> QED
      BY <2>2, <2>3, <2>4, <3>1, AddAmount
  <2> QED
    BY <2>5 DEF f, g, Received, Total, Units
<1>6. Total(OnInvoices)' = Total(OnInvoices) + Smaller(sum, Price) - invoice[i].paid
  <2> DEFINE f == OnInvoices
             g == [j \in Invoices |-> invoice'[j].paid]
  <2>1. i \in DOMAIN f /\ DOMAIN g = DOMAIN f /\ \A j \in DOMAIN f : f[j] \in 0..Price /\ g[j] \in 0..Price
    <3>1. DOMAIN f = Invoices /\ DOMAIN g = Invoices
      BY DEF OnInvoices
    <3>2. invoice \in [Invoices -> InvoiceRow] /\ invoice' \in [Invoices -> InvoiceRow]
      BY <1>2 DEF PayTypes
    <3>3. ASSUME NEW j \in Invoices PROVE invoice[j].paid \in 0..Price /\ invoice'[j].paid \in 0..Price
      BY <3>2 DEF InvoiceRow
    <3>4. ASSUME NEW j \in Invoices PROVE f[j] = invoice[j].paid /\ g[j] = invoice'[j].paid
      BY DEF OnInvoices
    <3> HIDE DEF f, g
    <3> QED
      BY <1>3, <3>1, <3>3, <3>4
  <2>2. (\A j \in DOMAIN f \ {i} : g[j] = f[j]) /\ g[i] = Smaller(sum, Price) /\ f[i] = invoice[i].paid
    BY <1>2, <1>3 DEF OnInvoices
  <2>3. IsFiniteSet(DOMAIN f)
    <3>1. DOMAIN f = 1..MaxInvoices
      BY DEF OnInvoices, Invoices
    <3>2. IsFiniteSet(1..MaxInvoices)
      BY Bounds, FS_Interval
    <3> QED
      BY <3>1, <3>2
  <2> HIDE DEF f, g
  <2>4. Price \in Nat /\ \A k \in 0..Price : k \in Nat
    BY Bounds
  <2>5. IsFiniteSet(Units(f))
    BY <2>1, <2>3, <2>4, FiniteAmounts
  <2>6. f[i] \in Nat /\ g[i] \in Nat
    BY <2>1, <2>4
  <2>7. Total(g) = Total(f) + g[i] - f[i]
    BY <2>1, <2>2, <2>5, <2>6, ChangeAmount
  <2> QED
    BY <2>2, <2>7 DEF f, g, OnInvoices, Total, Units
<1>7. MoneyIsConserved'
  <2> SUFFICES ASSUME slipped = {} PROVE Total(OnInvoices)' + credit' = Total(Received)'
    BY DEF MoneyIsConserved
  <2>1. invoice[i].paid = payer[p].seen
    BY DEF Money, CountsAreFresh
  <2>2. Total(OnInvoices) + credit = Total(Received)
    BY DEF Money, MoneyIsConserved
  <2>3. Total(OnInvoices) \in Nat
    <3> DEFINE f == OnInvoices
    <3>1. \A j \in DOMAIN f : f[j] \in 0..Price
      BY DEF OnInvoices, PayTypes, InvoiceRow
    <3>2. IsFiniteSet(DOMAIN f) /\ Price \in Nat
      BY Bounds, FS_Interval DEF OnInvoices, Invoices
    <3> HIDE DEF f
    <3>3. IsFiniteSet(Units(f))
      BY <3>1, <3>2, FiniteAmounts
    <3> QED
      BY <3>3, FS_CardinalityType DEF f, Total
  <2>4. credit \in Nat /\ Smaller(sum, Price) \in Nat
    BY <1>3, Bounds DEF PayTypes, Smaller
  <2> QED
    BY <1>2, <1>3, <1>5, <1>6, <2>1, <2>2, <2>3, <2>4
<1> QED
  BY <1>4, <1>5, <1>7 DEF Money

\* The uses after a recording: the payment is the first of its capture, and the
\* first of its charge unless the charge is shared.
LEMMA RecordUses ==
    ASSUME PayTypes, SubTypes, Used, NEW p \in Payers, At(p, "counted"), NEW n,
           \A x : Uses(x)' = IF x = payer[p].for THEN Uses(x) \union {n} ELSE Uses(x),
           payer'[p].phase = "recorded", payer'[p].for = payer[p].for,
           \A q \in Payers \ {p} : payer'[q] = payer[q], UNCHANGED <<event, subVars>>
    PROVE  Used'
<1>1. \A c : OnIt(c)' = OnIt(c)
  BY DEF OnIt, subVars
<1>2. \/ p # Sweep /\ payer[p].for = p
      \/ p = Sweep /\ payer[p].for \in Charges /\ OnIt(payer[p].for)
  BY WhoPays DEF At
<1>3. PayersAreTrue'
  <2>1. IF p = Sweep THEN OnIt(payer[p].for)' ELSE payer'[p].for = p
    BY <1>2 DEF OnIt, subVars
  <2>2. payer[Sweep].phase \in {"fetched", "counted", "recorded"} => payer[Sweep].for \in Charges
    BY JobsCharge
  <2> QED
    BY <1>1, <2>1, <2>2, TrueFrame DEF Used
<1>4. SweepIsTrue'
  <2>1. CASE p = Sweep
    BY <2>1 DEF Used, SweepIsTrue, At, subVars
  <2>2. CASE p # Sweep
    BY <2>2, CallersApart DEF Used, SweepIsTrue, At, subVars
  <2> QED
    BY <2>1, <2>2
<1>5. ASSUME NEW e \in Captures \ Nameless PROVE CaptureOK(e)'
  <2>1. CaptureOK(e)
    BY DEF Used
  <2>2. CASE e = p
    <3>1. payer[p].for = e
      BY <1>2, <2>2, CallersApart
    <3>2. Uses(e) = {} /\ Uses(e)' = {n}
      BY <2>1, <2>2, <3>1 DEF CaptureOK, At
    <3> QED
      BY <2>1, <2>2, <3>2 DEF CaptureOK, AtMostOnce, At
  <2>3. CASE e # p
    <3>1. payer'[e] = payer[e]
      BY <2>3 DEF Payers
    <3>2. Uses(e)' = Uses(e)
      BY <1>2, <2>3, CallersApart
    <3> QED
      BY <2>1, <3>1, <3>2, CaptureFrame
  <2> QED
    BY <2>2, <2>3
<1>6. ASSUME NEW c \in Charges \ shared PROVE ChargeOK(c)'
  <2>1. ChargeOK(c)
    BY DEF Used
  <2>2. c \in Payers /\ Sweep \in Payers /\ c # Sweep
    BY CallersApart
  <2>3. \A q \in Payers : At(q, "free")' = At(q, "free")
    BY DEF At
  <2>4. attempt' = attempt
    BY DEF subVars
  <2>5. CASE c = payer[p].for
    <3>1. attempt[c] = NoStamp
      BY <1>2, <2>1, <2>5 DEF ChargeOK, At
    <3>2. ~Settled(c) /\ Settled(c)'
      BY <1>1, <1>2, <2>1, <2>2, <2>5, <3>1 DEF ChargeOK, Settled, At
    <3>3. Uses(c) = {} /\ Uses(c)' = {n}
      BY <2>1, <2>5, <3>1, <3>2 DEF ChargeOK
    <3> QED
      BY <1>1, <2>1, <2>2, <2>3, <2>4, <3>1, <3>2, <3>3 DEF ChargeOK, AtMostOnce, NoStamp, NoAttempt
  <2>6. CASE c # payer[p].for
    <3>1. c # p /\ (p = Sweep => ~OnIt(c))
      BY <1>2, <2>6, CallersApart DEF OnIt
    <3>2. Settled(c)' = Settled(c)
      BY <1>1, <2>2, <3>1 DEF Settled, At
    <3>3. Uses(c)' = Uses(c)
      BY <2>6
    <3> QED
      BY <1>1, <2>1, <2>2, <2>3, <2>4, <3>2, <3>3, ChargeFrame
  <2> QED
    BY <2>5, <2>6
<1>7. \A c \in Charges \ shared' : ChargeOK(c)'
  BY <1>6 DEF subVars
<1> QED
  BY <1>3, <1>4, <1>5, <1>7 DEF Used

\* A recording is refused, or pays.
LEMMA RecordChanges ==
    ASSUME IInv, NEW p \in Payers, Record(p), UNCHANGED subVars
    PROVE  IInv'
<1> USE DEF IInv
<1>1. At(p, "counted") /\ UNCHANGED <<event, crashes, slipped>>
  BY DEF Record
<1>2. /\ payer' \in [Payers -> Waiting \union Deciding \union Paying]
      /\ \A q \in Payers \ {p} : payer'[q] = payer[q]
  BY RecordMoves
<1>3. CASE payer'[p] = [phase |-> "refused"] /\ UNCHANGED <<invoice, payments, credit>>
  BY <1>3, RefusedRecord
<1>4. CASE /\ payer[p].number = Len(payments) + 1 /\ Credited(p)
           /\ payer'[p].phase = "recorded" /\ payer'[p].inv = payer[p].inv /\ payer'[p].for = payer[p].for
  <2> DEFINE i == payer[p].inv
             row == [inv |-> i, amount |-> payer[p].amount, for |-> payer[p].for]
  <2>1. payer[p] \in Paying
    BY <1>1, CallerRow DEF At
  <2>2. /\ row \in PaymentRow /\ payments' \in Seq(PaymentRow)
        /\ Len(payments') = Len(payments) + 1 /\ payments'[Len(payments) + 1] = row
        /\ \A n \in 1..Len(payments) : payments'[n] = payments[n]
    BY <1>4, <2>1, CreditedWrites
  <2>3. /\ invoice' \in [Invoices -> InvoiceRow]
        /\ invoice'[i].status # "none" /\ invoice'[i].cycle = invoice[i].cycle
        /\ \A j \in Invoices \ {i} : invoice'[j] = invoice[j]
        /\ credit' \in Nat
    BY <1>4, <2>1, CreditedWrites
  <2>4. i \in Invoices
    BY <2>1 DEF Paying
  <2>5. row.for = payer[p].for
    OBVIOUS
  <2> HIDE DEF row, i
  <2>6. PayTypes' /\ SubTypes'
    BY <1>1, <1>2, <2>2, <2>3 DEF PayTypes, SubTypes, subVars
  <2>7. InvoicesAreReal'
    <3>1. ASSUME NEW q \in Payers, payer'[q].phase \in {"deciding", "fetched", "counted", "recorded"}
          PROVE  payer'[q].inv \in Invoices /\ invoice[payer'[q].inv].status # "none"
      <4>1. CASE q = p
        BY <1>1, <1>4, <4>1, AtCreated DEF At
      <4>2. CASE q # p
        BY <1>2, <3>1, <4>2, AtCreated
      <4> QED
        BY <4>1, <4>2
    <3>2. \A j \in Invoices : invoice'[j].status = "none" => invoice'[j] = invoice[j]
      BY <2>3
    <3> QED
      BY <3>1, <3>2, RealFrame
  <2>8. Money'
    BY <1>1, <1>2, <1>4, RecordMoney
  <2>9. Used'
    <3>1. \A x : Uses(x)' = IF x = payer[p].for THEN Uses(x) \union {Len(payments) + 1} ELSE Uses(x)
      BY <2>2, <2>5, OneUseMore
    <3> QED
      BY <1>1, <1>2, <1>4, <3>1, RecordUses
  <2>10. RowIsCurrent'
    BY DEF RowIsCurrent, subVars
  <2>11. PeriodsOK'
    <3>1. crashes \in Nat
      BY DEF PayTypes
    <3>2. \A j \in Invoices : invoice'[j].cycle = invoice[j].cycle
      BY <2>3
    <3> QED
      BY <1>1, <3>1, <3>2, PeriodsFrame DEF HasBilled, subVars
  <2> QED
    BY <2>6, <2>7, <2>8, <2>9, <2>10, <2>11
<1> QED
  BY <1>3, <1>4, RecordMoves

-----------------------------------------------------------------------------
(* The subscription and its charges. *)

\* A step that only sets the status or the failures, or begins a period.
LEMMA StatusStep ==
    ASSUME IInv, UNCHANGED <<payVars, attempt, sweep, shared>>, sub' \in SubRow,
           sub'.next = sub.next, sub'.billed = sub.billed, sub'.ended = sub.ended,
           clock' \in 1..MaxCycles, clock <= clock'
    PROVE  IInv'
<1> USE DEF IInv
<1>1. PayTypes' /\ SubTypes'
  BY DEF PayTypes, SubTypes, payVars
<1>2. InvoicesAreReal'
  BY DEF InvoicesAreReal, payVars
<1>3. Money'
  BY MoneyFrame DEF payVars
<1>4. Used'
  BY DEF Used, PayersAreTrue, SweepIsTrue, CaptureOK, ChargeOK, Settled, OnIt, AtMostOnce, Uses, At, payVars
<1>5. RowIsCurrent'
  <2>1. sweep'.phase = "idle" \/ (sweep.phase # "idle" /\ sweep'.sub = sweep.sub)
    OBVIOUS
  <2>2. clock' \in Nat
    BY Bounds
  <2> QED
    BY <2>1, <2>2, RowFrame
<1>6. PeriodsOK'
  <2>1. crashes \in Nat
    BY DEF PayTypes
  <2> QED
    BY <2>1, PeriodsFrame DEF HasBilled, payVars
<1> QED
  BY <1>1, <1>2, <1>3, <1>4, <1>5, <1>6

\* A new period, and whatever sets the status.
LEMMA StatusChanges ==
    ASSUME IInv,
           \/ NextPeriod \/ Pause \/ Resume \/ Cancel \/ Strand
           \/ ChargeFailed \/ MandateStops \/ MandateResumes \/ MandateStarts \/ MandateRevoked
    PROVE  IInv'
<1>1. sub \in SubRow /\ clock \in 1..MaxCycles /\ sub.failures \in 0..MAX_FAILED
  BY DEF IInv, SubTypes, SubRow
<1>2. MaxCycles \in Nat /\ MAX_FAILED \in Nat \ {0}
  BY Bounds
<1>3. UNCHANGED <<payVars, attempt, sweep, shared>>
  BY DEF NextPeriod, Pause, Resume, Cancel, Strand, ChargeFailed, MandateStops, MandateResumes, MandateStarts,
         MandateRevoked, SetStatus
<1>4. CASE NextPeriod
  <2>1. clock' \in 1..MaxCycles /\ clock <= clock' /\ sub' = sub
    BY <1>1, <1>2, <1>4 DEF NextPeriod
  <2> QED
    BY <1>1, <1>3, <2>1, StatusStep
<1>5. CASE Pause \/ Cancel \/ Strand \/ MandateStops \/ MandateResumes
  <2>1. PICK to \in {"ACTIVE", "PAUSED", "CANCELLED"} : sub' = [sub EXCEPT !.status = to]
    BY <1>5 DEF Pause, Cancel, Strand, MandateStops, MandateResumes, SetStatus
  <2>2. sub' \in SubRow /\ sub'.next = sub.next /\ sub'.billed = sub.billed /\ sub'.ended = sub.ended
    BY <1>1, <2>1 DEF SubRow
  <2>3. clock' = clock /\ clock <= clock
    BY <1>1, <1>5 DEF Pause, Cancel, Strand, MandateStops, MandateResumes, SetStatus
  <2> QED
    BY <1>1, <1>3, <2>2, <2>3, StatusStep
<1>6. CASE Resume \/ MandateStarts \/ ChargeFailed
  <2>1. PICK to \in {"ACTIVE", "PAUSED", "PAST_DUE"}, n \in 0..MAX_FAILED :
            sub' = [sub EXCEPT !.status = to, !.failures = n] \/ sub' = [sub EXCEPT !.failures = n, !.status = to]
    <3>1. CASE Resume \/ MandateStarts
      <4>1. sub' = [sub EXCEPT !.status = "ACTIVE", !.failures = 0] /\ 0 \in 0..MAX_FAILED
        BY <1>2, <3>1 DEF Resume, MandateStarts
      <4> QED
        BY <4>1
    <3>2. CASE ChargeFailed
      <4>1. Smaller(sub.failures + 1, MAX_FAILED) \in 0..MAX_FAILED
        BY <1>1, <1>2 DEF Smaller
      <4>2. sub' = [sub EXCEPT !.failures = Smaller(sub.failures + 1, MAX_FAILED),
                               !.status = IF sub.failures + 1 >= MAX_FAILED THEN "PAUSED" ELSE "PAST_DUE"]
        BY <3>2 DEF ChargeFailed
      <4> QED
        BY <4>1, <4>2
    <3> QED
      BY <1>6, <3>1, <3>2
  <2>2. sub' \in SubRow /\ sub'.next = sub.next /\ sub'.billed = sub.billed /\ sub'.ended = sub.ended
    BY <1>1, <2>1 DEF SubRow
  <2>3. clock' = clock /\ clock <= clock
    BY <1>1, <1>6 DEF Resume, MandateStarts, ChargeFailed
  <2> QED
    BY <1>1, <1>3, <2>2, <2>3, StatusStep
<1>7. CASE MandateRevoked
  <2>1. sub' = [sub EXCEPT !.auto = FALSE] /\ clock' = clock /\ clock <= clock
    BY <1>1, <1>7 DEF MandateRevoked
  <2>2. sub' \in SubRow /\ sub'.next = sub.next /\ sub'.billed = sub.billed /\ sub'.ended = sub.ended
    BY <1>1, <2>1 DEF SubRow
  <2> QED
    BY <1>1, <1>3, <2>1, <2>2, StatusStep
<1> QED
  BY <1>4, <1>5, <1>6, <1>7

\* A step of the handler of one charge.
LEMMA ChargeStep ==
    ASSUME IInv, NEW c \in Charges,
           UNCHANGED <<invoice, payments, credit, event, slipped, clock, sweep>>,
           crashes' \in Nat, crashes <= crashes', shared \subseteq shared', shared' \subseteq Charges,
           sub' \in SubRow, sub'.next = sub.next, sub'.billed = sub.billed, sub'.ended = sub.ended,
           payer' \in [Payers -> Waiting \union Deciding \union Paying],
           \A q \in Payers \ {c} : payer'[q] = payer[q],
           payer'[c].phase \notin {"deciding", "counted"},
           payer'[c].phase \in {"fetched", "recorded"}
               => payer'[c].inv \in Invoices /\ invoice[payer'[c].inv].status # "none" /\ payer'[c].for = c,
           attempt' \in [Charges -> {NoAttempt, NoStamp} \union Invoices],
           \A d \in Charges \ {c} : attempt'[d] = attempt[d],
           c \in shared' \/ ChargeOK(c)'
    PROVE  IInv'
<1> USE DEF IInv
<1>1. c \in Payers /\ Sweep \in Payers /\ c # Sweep /\ c \notin Captures
  BY CallersApart
<1>2. PayTypes' /\ SubTypes'
  BY DEF PayTypes, SubTypes
<1>3. InvoicesAreReal'
  <2>1. ASSUME NEW q \in Payers, payer'[q].phase \in {"deciding", "fetched", "counted", "recorded"}
        PROVE  payer'[q].inv \in Invoices /\ invoice[payer'[q].inv].status # "none"
    <3>1. CASE q = c
      BY <2>1, <3>1
    <3>2. CASE q # c
      BY <2>1, <3>2, AtCreated
    <3> QED
      BY <3>1, <3>2
  <2> QED
    BY <2>1, RealFrame
<1>4. Money'
  <2>1. ASSUME NEW q \in Payers, At(q, "counted")' PROVE payer'[q] = payer[q]
    BY <2>1 DEF At
  <2> QED
    BY <2>1, MoneyFrame
<1>5. \A x : Uses(x)' = Uses(x) /\ OnIt(x)' = OnIt(x)
  BY DEF Uses, OnIt
<1>6. PayersAreTrue'
  <2>1. payer[Sweep].phase \in {"fetched", "counted", "recorded"} => payer[Sweep].for \in Charges
    BY JobsCharge
  <2>2. payer'[c].phase \in {"fetched", "counted", "recorded"} => payer'[c].for = c
    OBVIOUS
  <2> QED
    BY <1>1, <1>5, <2>1, <2>2, TrueFrame DEF Used
<1>7. SweepIsTrue'
  BY <1>1 DEF Used, SweepIsTrue, At
<1>8. ASSUME NEW e \in Captures \ Nameless PROVE CaptureOK(e)'
  <2>1. payer'[e] = payer[e] /\ event'[e] = event[e]
    BY <1>1 DEF Payers
  <2> QED
    BY <1>5, <2>1, CaptureFrame DEF Used
<1>9. ASSUME NEW d \in Charges \ shared' PROVE ChargeOK(d)'
  <2>1. CASE d = c
    BY <1>9, <2>1
  <2>2. CASE d # c
    <3>1. ChargeOK(d) /\ payer'[d] = payer[d] /\ payer'[Sweep] = payer[Sweep] /\ attempt'[d] = attempt[d]
      BY <1>1, <1>9, <2>2, CallersApart DEF Used
    <3> QED
      BY <1>5, <3>1, ChargeFrame DEF At, Settled
  <2> QED
    BY <2>1, <2>2
<1>10. RowIsCurrent'
  <2>1. sweep'.phase = "idle" \/ (sweep.phase # "idle" /\ sweep'.sub = sweep.sub)
    OBVIOUS
  <2>2. clock' \in Nat /\ clock <= clock'
    BY Bounds DEF SubTypes
  <2> QED
    BY <2>1, <2>2, RowFrame
<1>11. PeriodsOK'
  BY PeriodsFrame DEF HasBilled
<1> QED
  BY <1>2, <1>3, <1>4, <1>6, <1>7, <1>8, <1>9, <1>10, <1>11 DEF Used

\* There is a newest among some invoices.
LEMMA NewestIs ==
    ASSUME NEW S \in SUBSET Invoices, S # {}
    PROVE  Newest(S) \in S
<1> DEFINE T == {n \in Nat : MaxInvoices - n \in S}
           R == OpToRel(<, Nat)
<1>1. MaxInvoices \in Nat /\ S \subseteq 1..MaxInvoices
  BY Bounds DEF Invoices
<1>2. PICK s \in S : TRUE
  OBVIOUS
<1>3. MaxInvoices - s \in T
  BY <1>1, <1>2
<1>4. IsWellFoundedOn(R, Nat)
  BY NatLessThanWellFounded
<1>5. PICK n \in T : \A m \in T : ~(<<m, n>> \in R)
  <2>1. T \subseteq Nat /\ T # {}
    BY <1>3
  <2> HIDE DEF T, R
  <2> QED
    BY <1>4, <2>1, WFMin
<1>6. MaxInvoices - n \in S /\ n \in Nat
  BY <1>5
<1>7. ASSUME NEW j \in S PROVE j <= MaxInvoices - n
  <2>1. MaxInvoices - j \in T
    BY <1>1
  <2>2. ~(MaxInvoices - j < n)
    <3>1. ~(<<MaxInvoices - j, n>> \in R)
      BY <1>5, <2>1
    <3> QED
      BY <1>6, <2>1, <3>1 DEF OpToRel
  <2> QED
    BY <1>1, <1>6, <2>2
<1> QED
  BY <1>6, <1>7 DEF Newest

\* The handler of a charge, step by step.
LEMMA ChargeChanges ==
    ASSUME IInv, NEW c \in Charges, Charged(c) \/ Activate(c) \/ SettleGenerated(c) \/ Stamp(c)
    PROVE  IInv'
<1> USE DEF IInv
<1>1. c \in Payers /\ crashes \in Nat /\ crashes <= crashes /\ PayTypes
  BY CallersApart DEF PayTypes
<1>2. sub \in SubRow /\ attempt \in [Charges -> {NoAttempt, NoStamp} \union Invoices]
  BY DEF SubTypes
<1>3. /\ UNCHANGED <<invoice, payments, credit, event, slipped, crashes, clock, sweep, shared>>
      /\ shared \subseteq Charges
  BY DEF Charged, Activate, SettleGenerated, Stamp, SubTypes
<1>4. sub' \in SubRow /\ sub'.next = sub.next /\ sub'.billed = sub.billed /\ sub'.ended = sub.ended
  <2>1. CASE Activate(c)
    <3>1. 0 \in 0..MAX_FAILED
      BY Bounds
    <3> QED
      BY <1>2, <2>1, <3>1 DEF Activate, SubRow
  <2>2. CASE ~Activate(c)
    BY <1>2, <2>2 DEF Charged, SettleGenerated, Stamp
  <2> QED
    BY <2>1, <2>2
<1>5. /\ attempt' \in [Charges -> {NoAttempt, NoStamp} \union Invoices]
      /\ \A d \in Charges \ {c} : attempt'[d] = attempt[d]
  <2>1. CASE Charged(c)
    BY <1>2, <2>1 DEF Charged
  <2>2. CASE Stamp(c)
    <3>1. At(c, "recorded") => payer[c].inv \in Invoices
      BY <1>1, AtCreated DEF At
    <3> QED
      BY <1>2, <2>2, <3>1 DEF Stamp
  <2>3. CASE Activate(c) \/ SettleGenerated(c)
    BY <1>2, <2>3 DEF Activate, SettleGenerated
  <2> QED
    BY <2>1, <2>2, <2>3
<1>6. \A x : Uses(x)' = Uses(x) /\ OnIt(x)' = OnIt(x)
  BY <1>3 DEF Uses, OnIt
<1>7. \A x \in {"activate", "find", "refused", "free"} : [phase |-> x] \in Waiting
  BY DEF Waiting
<1>8. NoAttempt # NoStamp /\ NoAttempt \notin Invoices /\ NoStamp \notin Invoices
  BY Bounds DEF NoAttempt, NoStamp, Invoices
<1>9. /\ payer' \in [Payers -> Waiting \union Deciding \union Paying]
      /\ \A q \in Payers \ {c} : payer'[q] = payer[q]
      /\ payer'[c].phase \in {"activate", "find", "refused", "free", "fetched"}
      /\ payer'[c].phase = "fetched"
               => payer'[c].inv \in Invoices /\ invoice[payer'[c].inv].status # "none" /\ payer'[c].for = c
      /\ c \in shared \/ ChargeOK(c)'
  <2>1. CASE Charged(c)
    <3>1. /\ payer' \in [Payers -> Waiting \union Deciding \union Paying]
          /\ \A q \in Payers \ {c} : payer'[q] = payer[q]
          /\ payer'[c].phase = "activate"
      BY <1>1, <1>7, <2>1, CallerMoves DEF Charged, Go
    <3>2. attempt[c] = NoAttempt /\ attempt'[c] = NoStamp
      BY <1>2, <2>1 DEF Charged
    <3>3. ChargeOK(c) => ChargeOK(c)'
      BY <1>6, <1>8, <3>1, <3>2 DEF ChargeOK, AtMostOnce
    <3> QED
      BY <3>1, <3>3 DEF Used
  <2>2. CASE Activate(c)
    <3>1. /\ payer' \in [Payers -> Waiting \union Deciding \union Paying]
          /\ \A q \in Payers \ {c} : payer'[q] = payer[q]
          /\ payer'[c].phase = "find" /\ At(c, "activate")
      BY <1>1, <1>7, <2>2, CallerMoves DEF Activate, Go
    <3>2. attempt' = attempt
      BY <2>2 DEF Activate
    <3>3. ChargeOK(c) => ChargeOK(c)'
      BY <1>6, <1>8, <3>1, <3>2 DEF ChargeOK, AtMostOnce, At, Settled
    <3> QED
      BY <3>1, <3>3 DEF Used
  <2>3. CASE SettleGenerated(c)
    <3> DEFINE open == {i \in Generated : invoice[i].status \in Payable}
    <3>1. /\ payer' \in [Payers -> Waiting \union Deciding \union Paying]
          /\ \A q \in Payers \ {c} : payer'[q] = payer[q]
          /\ payer'[c].phase \in {"refused", "fetched"}
          /\ payer'[c].phase = "fetched"
               => payer'[c].inv \in Invoices /\ invoice[payer'[c].inv].status # "none" /\ payer'[c].for = c
      <4>1. CASE open = {}
        BY <1>1, <1>7, <2>3, <4>1, CallerMoves DEF SettleGenerated, Go
      <4>2. CASE open # {}
        <5>1. open \in SUBSET Invoices
          BY DEF Generated
        <5>2. PICK i \in open : i = Newest(open)
          <6> HIDE DEF open
          <6> QED
            BY <4>2, <5>1, NewestIs
        <5>3. i \in Invoices /\ invoice[i].status # "none" /\ Price \in Sums
          BY <5>1, <5>2, Bounds DEF Payable
        <5>4. Fetch(c, i, Price, c)
          BY <2>3, <4>2, <5>2 DEF SettleGenerated
        <5> HIDE DEF open
        <5> QED
          BY <1>1, <5>3, <5>4, FetchMoves
      <4> QED
        BY <4>1, <4>2
    <3>2. attempt' = attempt /\ At(c, "find")
      BY <2>3 DEF SettleGenerated
    <3>3. ChargeOK(c) => ChargeOK(c)'
      BY <1>6, <1>8, <3>1, <3>2 DEF ChargeOK, AtMostOnce, At, Settled
    <3> HIDE DEF open
    <3> QED
      BY <3>1, <3>3 DEF Used
  <2>4. CASE Stamp(c)
    <3>1. /\ payer' \in [Payers -> Waiting \union Deciding \union Paying]
          /\ \A q \in Payers \ {c} : payer'[q] = payer[q]
          /\ payer'[c].phase = "free" /\ payer[c].phase \in {"recorded", "refused"}
      BY <1>1, <1>7, <2>4, CallerMoves DEF Stamp, Go
    <3>2. IF At(c, "recorded") THEN attempt'[c] \in Invoices ELSE attempt'[c] = attempt[c]
      BY <1>1, <1>2, <2>4, AtCreated DEF Stamp, At
    <3>3. ChargeOK(c) => ChargeOK(c)'
      BY <1>6, <1>8, <3>1, <3>2 DEF ChargeOK, AtMostOnce, At, Settled
    <3> QED
      BY <3>1, <3>3 DEF Used
  <2> QED
    BY <2>1, <2>2, <2>3, <2>4
<1> QED
  BY <1>1, <1>3, <1>4, <1>5, <1>9, ChargeStep

\* The handler of a charge dies.
LEMMA ChargeDies ==
    ASSUME IInv, NEW c \in Charges, SubDies(c)
    PROVE  IInv'
<1> USE DEF IInv
<1>1. c \in Payers /\ c # Sweep /\ crashes \in Nat /\ shared \subseteq Charges /\ PayTypes
  BY CallersApart DEF PayTypes, SubTypes
<1>2. /\ UNCHANGED <<invoice, payments, credit, event, slipped, sub, clock, attempt, sweep>>
      /\ crashes' = crashes + 1 /\ ~At(c, "free")
      /\ shared' = IF At(c, "recorded") THEN shared \union {c} ELSE shared
  BY <1>1 DEF SubDies
<1>3. [phase |-> "free"] \in Waiting
  BY DEF Waiting
<1>4. /\ payer' \in [Payers -> Waiting \union Deciding \union Paying]
      /\ \A q \in Payers \ {c} : payer'[q] = payer[q]
      /\ payer'[c].phase = "free"
  BY <1>1, <1>3, CallerMoves DEF SubDies, Go
<1>5. \A x : Uses(x)' = Uses(x) /\ OnIt(x)' = OnIt(x)
  BY <1>2 DEF Uses, OnIt
<1>6. c \in shared' \/ ChargeOK(c)'
  <2>1. CASE At(c, "recorded")
    BY <1>2, <2>1
  <2>2. CASE ~At(c, "recorded") /\ c \notin shared
    BY <1>2, <1>4, <1>5, <2>2 DEF Used, ChargeOK, AtMostOnce, At, Settled
  <2> QED
    BY <1>2, <2>1, <2>2
<1>7. /\ sub' \in SubRow /\ sub'.next = sub.next /\ sub'.billed = sub.billed /\ sub'.ended = sub.ended
      /\ attempt' \in [Charges -> {NoAttempt, NoStamp} \union Invoices] /\ attempt' = attempt
      /\ crashes' \in Nat /\ crashes <= crashes' /\ shared \subseteq shared' /\ shared' \subseteq Charges
  BY <1>1, <1>2 DEF SubTypes
<1> QED
  BY <1>1, <1>2, <1>4, <1>6, <1>7, ChargeStep
-----------------------------------------------------------------------------
(* The generation job. *)

\* A step of the job.
LEMMA JobStep ==
    ASSUME IInv, UNCHANGED <<payments, credit, event, slipped>>, PayTypes', SubTypes',
           \A i \in Invoices :
               /\ invoice'[i].paid = invoice[i].paid
               /\ invoice'[i].status = "none" => invoice'[i] = invoice[i],
           \A q \in Payers \ {Sweep} : payer'[q] = payer[q],
           payer'[Sweep].phase \notin {"deciding", "counted"},
           payer'[Sweep].phase \in {"fetched", "recorded"}
               => /\ payer'[Sweep].inv \in Invoices /\ invoice[payer'[Sweep].inv].status # "none"
                  /\ OnIt(payer[Sweep].for)',
           SweepIsTrue', RowIsCurrent', PeriodsOK',
           \A c \in Charges \ shared' : ChargeOK(c)'
    PROVE  IInv'
<1> USE DEF IInv
<1>1. Sweep \in Payers /\ Sweep \notin Captures
  BY CallersApart
<1>2. InvoicesAreReal'
  <2>1. ASSUME NEW q \in Payers, payer'[q].phase \in {"deciding", "fetched", "counted", "recorded"}
        PROVE  payer'[q].inv \in Invoices /\ invoice[payer'[q].inv].status # "none"
    <3>1. CASE q = Sweep
      BY <2>1, <3>1
    <3>2. CASE q # Sweep
      BY <2>1, <3>2, AtCreated
    <3> QED
      BY <3>1, <3>2
  <2> QED
    BY <2>1, RealFrame
<1>3. Money'
  <2>1. ASSUME NEW q \in Payers, At(q, "counted")' PROVE payer'[q] = payer[q]
    BY <2>1 DEF At
  <2> QED
    BY <2>1, MoneyFrame
<1>4. PayersAreTrue'
  <2>1. payer[Sweep].phase \in {"fetched", "counted", "recorded"} => payer[Sweep].for \in Charges
    BY JobsCharge
  <2>2. payer'[Sweep].phase \in {"fetched", "counted", "recorded"} => OnIt(payer[Sweep].for)'
    OBVIOUS
  <2> QED
    BY <1>1, <2>1, <2>2, TrueFrame DEF Used
<1>5. ASSUME NEW e \in Captures \ Nameless PROVE CaptureOK(e)'
  <2>1. payer'[e] = payer[e] /\ event'[e] = event[e]
    BY <1>1 DEF Payers
  <2>2. Uses(e)' = Uses(e)
    BY DEF Uses
  <2> QED
    BY <2>1, <2>2, CaptureFrame DEF Used
<1> QED
  BY <1>2, <1>3, <1>4, <1>5 DEF Used

\* What the job's phase says of its row.
LEMMA JobRow ==
    ASSUME SubTypes
    PROVE  /\ sweep.phase \in {"idle", "create", "settle", "stamp", "advance"}
           /\ sweep.phase # "idle" => sweep.sub \in SubRow
           /\ sweep.phase \in {"settle", "stamp"} => sweep.inv \in Invoices
           /\ sweep.phase = "stamp" => sweep.c \in Charges
BY DEF SubTypes, SweepRow

\* The job is at no charge before the step and at none after it, and nothing else
\* happens to the charges.
LEMMA ChargesFrame ==
    ASSUME IInv, sweep.phase # "stamp", sweep'.phase # "stamp",
           UNCHANGED <<payments, payer, attempt, shared>>
    PROVE  SweepIsTrue' /\ \A c \in Charges \ shared' : ChargeOK(c)'
<1>1. ASSUME NEW c \in Charges, ChargeOK(c) PROVE ChargeOK(c)'
  <2>1. /\ Uses(c)' = Uses(c) /\ attempt'[c] = attempt[c] /\ At(c, "free")' = At(c, "free")
        /\ At(c, "recorded")' = At(c, "recorded")
    BY DEF Uses, At
  <2>2. OnIt(c)' = OnIt(c) /\ Settled(c)' = Settled(c)
    BY <2>1 DEF Settled, OnIt
  <2> QED
    BY <1>1, <2>1, <2>2, ChargeFrame
<1> QED
  BY <1>1 DEF IInv, Used, SweepIsTrue, At

\* How many invoices bill a period.
LEMMA BilledNumber ==
    ASSUME NEW d
    PROVE  IsFiniteSet(Billed(d)) /\ Cardinality(Billed(d)) \in Nat
<1>1. Billed(d) \subseteq 1..MaxInvoices
  BY DEF Billed, Generated, Invoices
<1>2. IsFiniteSet(1..MaxInvoices)
  BY Bounds, FS_Interval
<1> QED
  BY <1>1, <1>2, FS_Subset, FS_CardinalityType

\* The job selects the subscription.
LEMMA JobSelects ==
    ASSUME IInv, Select
    PROVE  IInv'
<1> USE DEF IInv
<1>1. /\ sweep.phase = "idle" /\ ~sub.ended /\ sub.next <= clock
      /\ UNCHANGED <<payVars, sub, clock, attempt, shared>>
  BY DEF Select, Idle
<1>2. sweep' = [phase |-> "create", sub |-> sub]
  BY DEF Select
<1>3. sweep' \in SweepRow /\ sweep'.phase = "create" /\ sweep'.sub = sub
  BY <1>2 DEF SubTypes, SweepRow
<1>4. PayTypes' /\ SubTypes'
  BY <1>1, <1>3 DEF PayTypes, SubTypes, payVars
<1>5. At(Sweep, "free")
  BY <1>1 DEF Used, SweepIsTrue
<1>6. SweepIsTrue' /\ \A c \in Charges \ shared' : ChargeOK(c)'
  BY <1>1, <1>3, ChargesFrame DEF payVars
<1>7. RowIsCurrent'
  BY <1>1, <1>3 DEF RowIsCurrent
<1>8. PeriodsOK'
  <2>1. crashes \in Nat /\ HasBilled' = HasBilled
    BY <1>1, <1>3 DEF PayTypes, HasBilled
  <2> QED
    BY <1>1, <2>1, PeriodsFrame DEF payVars
<1> QED
  BY <1>1, <1>4, <1>5, <1>6, <1>7, <1>8, JobStep DEF payVars, At

\* The job creates the invoice of the period, or gives up.
LEMMA JobGenerates ==
    ASSUME IInv, Generate
    PROVE  IInv'
<1> USE DEF IInv
<1>1. /\ sweep.phase = "create" /\ sweep.sub \in SubRow
      /\ UNCHANGED <<payments, credit, payer, event, crashes, slipped, sub, clock, attempt, shared>>
  BY JobRow DEF Generate
<1>2. At(Sweep, "free") /\ crashes \in Nat /\ ~HasBilled
  BY <1>1 DEF Used, SweepIsTrue, PayTypes, HasBilled
<1>3. /\ ~sub.ended /\ sub.next <= clock /\ sweep.sub.next = sub.next /\ sweep.sub.billed = sub.billed
      /\ sub.next \in 1..MaxCycles
  <2>1. ~sub.ended /\ sub.next <= clock /\ sweep.sub.next = sub.next /\ sweep.sub.billed = sub.billed
    BY <1>1 DEF RowIsCurrent
  <2>2. sub.next \in 1..(MaxCycles + 1) /\ clock \in 1..MaxCycles
    BY DEF SubTypes, SubRow
  <2> QED
    BY <2>1, <2>2, Bounds
<1>4. ASSUME NEW i \in Invoices, NEW status \in {"SENT", "DRAFT"}, NextInvoice(i),
             invoice' = [invoice EXCEPT ![i] = [NoInvoice EXCEPT !.status = status, !.cycle = sweep.sub.next]],
             sweep' = [phase |-> "settle", sub |-> sweep.sub, inv |-> i]
      PROVE  IInv'
  <2> DEFINE new == [NoInvoice EXCEPT !.status = status, !.cycle = sweep.sub.next]
  <2>1. /\ new \in InvoiceRow /\ new.status # "none" /\ new.paid = 0 /\ new.deleted = FALSE
        /\ new.cycle = sub.next
    <3>1. 0 \in 0..Price /\ sub.next \in 0..MaxCycles /\ status \in Statuses
      BY <1>3, Bounds DEF Statuses
    <3> QED
      BY <1>3, <3>1 DEF NoInvoice, InvoiceRow
  <2>2. sweep' \in SweepRow /\ sweep'.phase = "settle" /\ sweep'.sub = sweep.sub
    BY <1>1, <1>4 DEF SweepRow
  <2>3. invoice[i] = NoInvoice /\ invoice[i].paid = 0 /\ invoice[i].cycle = 0
    BY <1>4 DEF NextInvoice, InvoicesAreReal, NoInvoice
  <2>4. /\ invoice' \in [Invoices -> InvoiceRow] /\ invoice'[i] = new
        /\ \A j \in Invoices \ {i} : invoice'[j] = invoice[j]
    <3>1. invoice' = [invoice EXCEPT ![i] = new]
      BY <1>4
    <3> HIDE DEF new
    <3> QED
      BY <2>1, <3>1 DEF PayTypes
  <2> HIDE DEF new
  <2>5. PayTypes' /\ SubTypes'
    BY <1>1, <2>2, <2>4 DEF PayTypes, SubTypes
  <2>6. \A j \in Invoices :
               /\ invoice'[j].paid = invoice[j].paid
               /\ invoice'[j].status = "none" => invoice'[j] = invoice[j]
    BY <2>1, <2>3, <2>4
  <2>7. SweepIsTrue' /\ \A c \in Charges \ shared' : ChargeOK(c)'
    BY <1>1, <2>2, ChargesFrame
  <2>8. RowIsCurrent'
    BY <1>1, <1>3, <2>2 DEF RowIsCurrent
  <2>9. PeriodsOK'
    <3> SUFFICES ASSUME NEW d \in 1..MaxCycles
                 PROVE  /\ d <= sub.next => Billed(d)' # {}
                        /\ d > sub.next => Billed(d)' = {}
                        /\ Cardinality(Billed(d)') <= 1 + crashes
      BY <1>1, <1>3, <2>2 DEF PeriodsOK, HasBilled
    <3>1. Billed(d)' = IF d = sub.next THEN Billed(d) \union {i} ELSE Billed(d)
      <4>1. \A j \in Invoices : j \in Billed(d)' <=> j \in Billed(d) \/ (j = i /\ d = sub.next)
        BY <1>3, <2>1, <2>3, <2>4 DEF Billed, Generated
      <4>2. Billed(d)' \subseteq Invoices /\ Billed(d) \subseteq Invoices
        BY DEF Billed, Generated
      <4> QED
        BY <4>1, <4>2
    <3>2. i \notin Billed(d)
      BY <2>3 DEF Billed, Generated
    <3>3. /\ d < sub.next => Billed(d) # {}
          /\ d > sub.next => Billed(d) = {}
          /\ Cardinality(Billed(d)) <= 1 + crashes
          /\ d = sub.next => Cardinality(Billed(d)) <= crashes
      BY <1>2 DEF PeriodsOK
    <3>4. IsFiniteSet(Billed(d)) /\ Cardinality(Billed(d)) \in Nat
      BY BilledNumber
    <3>5. Cardinality(Billed(d) \union {i}) = Cardinality(Billed(d)) + 1
      BY <3>2, <3>4, FS_AddElement
    <3>6. CASE d = sub.next
      BY <1>2, <1>3, <3>1, <3>3, <3>4, <3>5, <3>6
    <3>7. CASE d # sub.next
      BY <1>3, <3>1, <3>3, <3>7
    <3> QED
      BY <3>6, <3>7
  <2> QED
    BY <1>1, <1>2, <2>5, <2>6, <2>7, <2>8, <2>9, JobStep DEF At
<1>5. CASE sweep' = Idle /\ UNCHANGED invoice
  <2>1. sweep'.phase = "idle" /\ sweep' \in SweepRow
    BY <1>5 DEF Idle, SweepRow
  <2>2. PayTypes' /\ SubTypes'
    BY <1>1, <1>5, <2>1 DEF PayTypes, SubTypes
  <2>3. SweepIsTrue' /\ \A c \in Charges \ shared' : ChargeOK(c)'
    BY <1>1, <2>1, ChargesFrame
  <2>4. RowIsCurrent'
    BY <1>1, <2>1 DEF RowIsCurrent
  <2>5. PeriodsOK'
    <3>1. HasBilled' = HasBilled
      BY <1>2, <2>1 DEF HasBilled
    <3> QED
      BY <1>1, <1>2, <1>5, <3>1, PeriodsFrame
  <2> QED
    BY <1>1, <1>2, <1>5, <2>2, <2>3, <2>4, <2>5, JobStep DEF At
<1> QED
  BY <1>4, <1>5 DEF Generate
\* The job begins to settle a captured charge, or goes on without one.
LEMMA JobSettles ==
    ASSUME IInv, SettleUnreconciled
    PROVE  IInv'
<1> USE DEF IInv
<1>1. /\ sweep.phase = "settle" /\ sweep.sub \in SubRow /\ sweep.inv \in Invoices
      /\ UNCHANGED <<invoice, payments, credit, event, crashes, slipped, sub, clock, attempt>>
  BY JobRow DEF SettleUnreconciled
<1>2. At(Sweep, "free") /\ crashes \in Nat /\ PayTypes /\ shared \subseteq Charges
  BY <1>1 DEF Used, SweepIsTrue, PayTypes, SubTypes
<1>3. Sweep \in Payers /\ Charges \subseteq Payers /\ Sweep \notin Charges
  BY CallersApart
<1>4. ASSUME sweep'.phase \in {"stamp", "advance"}, sweep'.sub = sweep.sub
      PROVE  RowIsCurrent' /\ PeriodsOK'
  <2>1. clock \in Nat /\ clock <= clock
    BY DEF SubTypes
  <2>2. RowIsCurrent'
    BY <1>1, <1>4, <2>1, RowFrame
  <2>3. HasBilled' = HasBilled
    BY <1>1, <1>4 DEF HasBilled
  <2>4. PeriodsOK'
    BY <1>1, <1>2, <2>3, PeriodsFrame
  <2> QED
    BY <2>2, <2>4
<1>5. ASSUME NEW c \in Charges, attempt[c] = NoStamp, Fetch(Sweep, sweep.inv, Price, c),
             sweep' = [phase |-> "stamp", sub |-> sweep.sub, inv |-> sweep.inv, c |-> c],
             shared' = IF At(c, "free") THEN shared ELSE shared \union {c}
      PROVE  IInv'
  <2>1. sweep' \in SweepRow /\ sweep'.phase = "stamp" /\ sweep'.sub = sweep.sub /\ sweep'.c = c
    BY <1>1, <1>5 DEF SweepRow
  <2>2. /\ payer' \in [Payers -> Waiting \union Deciding \union Paying]
        /\ \A q \in Payers \ {Sweep} : payer'[q] = payer[q]
        /\ \/ payer'[Sweep] = [phase |-> "refused"]
           \/ /\ CanPay(sweep.inv)
              /\ payer'[Sweep].phase = "fetched" /\ payer'[Sweep].inv = sweep.inv /\ payer'[Sweep].for = c
    BY <1>1, <1>2, <1>3, <1>5, Bounds, FetchMoves
  <2>3. PayTypes' /\ SubTypes'
    BY <1>1, <1>2, <1>5, <2>1, <2>2 DEF PayTypes, SubTypes
  <2>4. /\ payer'[Sweep].phase \in {"refused", "fetched"}
        /\ payer'[Sweep].phase = "fetched"
               => /\ payer'[Sweep].inv \in Invoices /\ invoice[payer'[Sweep].inv].status # "none"
                  /\ OnIt(payer[Sweep].for)'
    <3>1. CanPay(sweep.inv) => invoice[sweep.inv].status # "none"
      BY DEF CanPay, Payable
    <3> QED
      BY <1>1, <2>1, <2>2, <3>1 DEF OnIt
  <2>5. SweepIsTrue'
    BY <2>1 DEF SweepIsTrue
  <2>6. ASSUME NEW d \in Charges \ shared' PROVE ChargeOK(d)'
    <3>1. ChargeOK(d) /\ ~OnIt(d) /\ ~OnIt(c)
      BY <1>1, <1>5, <2>6 DEF Used, OnIt
    <3>2. /\ Uses(d)' = Uses(d) /\ attempt'[d] = attempt[d] /\ At(d, "free")' = At(d, "free")
          /\ At(d, "recorded")' = At(d, "recorded")
      BY <1>1, <1>3, <2>2, <2>6 DEF Uses, At
    <3>3. CASE d = c
      <4>1. At(c, "free") /\ ~Settled(c)
        BY <1>5, <2>6, <3>1, <3>3 DEF Settled, At
      <4>2. Uses(c) = {}
        BY <1>5, <3>1, <3>3, <4>1 DEF ChargeOK
      <4> QED
        BY <1>5, <3>1, <3>2, <3>3, <4>1, <4>2 DEF ChargeOK, AtMostOnce
    <3>4. CASE d # c
      <4>1. OnIt(d)' = OnIt(d)
        BY <1>1, <2>1, <3>4 DEF OnIt
      <4>2. Settled(d)' = Settled(d)
        BY <3>1, <3>2, <4>1 DEF Settled
      <4> QED
        BY <3>1, <3>2, <4>1, <4>2, ChargeFrame
    <3> QED
      BY <3>3, <3>4
  <2> QED
    BY <1>1, <1>4, <2>1, <2>2, <2>3, <2>4, <2>5, <2>6, JobStep
<1>6. CASE sweep' = [phase |-> "advance", sub |-> sweep.sub] /\ UNCHANGED <<payer, shared>>
  <2>1. sweep' \in SweepRow /\ sweep'.phase = "advance" /\ sweep'.sub = sweep.sub
    BY <1>1, <1>6 DEF SweepRow
  <2>2. PayTypes' /\ SubTypes'
    BY <1>1, <1>6, <2>1 DEF PayTypes, SubTypes
  <2>3. SweepIsTrue' /\ \A c \in Charges \ shared' : ChargeOK(c)'
    BY <1>1, <1>6, <2>1, ChargesFrame
  <2> QED
    BY <1>1, <1>2, <1>4, <1>6, <2>1, <2>2, <2>3, JobStep DEF At
<1> QED
  BY <1>5, <1>6 DEF SettleUnreconciled

\* The job stamps the charge it has settled.
LEMMA JobStamps ==
    ASSUME IInv, StampReconciled
    PROVE  IInv'
<1> USE DEF IInv
<1>1. /\ sweep.phase = "stamp" /\ sweep.sub \in SubRow /\ sweep.inv \in Invoices /\ sweep.c \in Charges
      /\ payer[Sweep].phase \in {"recorded", "refused"}
      /\ attempt' = [attempt EXCEPT ![sweep.c] = IF At(Sweep, "recorded") THEN sweep.inv ELSE @]
      /\ UNCHANGED <<invoice, payments, credit, event, crashes, slipped, sub, clock, shared>>
  BY JobRow DEF StampReconciled
<1>2. crashes \in Nat /\ PayTypes /\ attempt \in [Charges -> {NoAttempt, NoStamp} \union Invoices]
  BY DEF PayTypes, SubTypes
<1>3. Sweep \in Payers /\ Charges \subseteq Payers /\ Sweep \notin Charges
  BY CallersApart
<1>4. /\ payer' \in [Payers -> Waiting \union Deciding \union Paying]
      /\ \A q \in Payers \ {Sweep} : payer'[q] = payer[q]
      /\ payer'[Sweep].phase = "free"
  <2>1. [phase |-> "free"] \in Waiting
    BY DEF Waiting
  <2> QED
    BY <1>2, <1>3, <2>1, CallerMoves DEF StampReconciled, Go
<1>5. sweep' \in SweepRow /\ sweep'.phase = "advance" /\ sweep'.sub = sweep.sub
  <2>1. sweep' = [phase |-> "advance", sub |-> sweep.sub]
    BY DEF StampReconciled
  <2> QED
    BY <1>1, <2>1 DEF SweepRow
<1>6. attempt' \in [Charges -> {NoAttempt, NoStamp} \union Invoices]
  BY <1>1, <1>2
<1>7. PayTypes' /\ SubTypes'
  BY <1>1, <1>4, <1>5, <1>6 DEF PayTypes, SubTypes
<1>8. SweepIsTrue'
  BY <1>4 DEF SweepIsTrue, At
<1>9. RowIsCurrent'
  <2>1. clock \in Nat /\ clock <= clock
    BY DEF SubTypes
  <2> QED
    BY <1>1, <1>5, <2>1, RowFrame
<1>10. PeriodsOK'
  <2>1. HasBilled' = HasBilled
    BY <1>1, <1>5 DEF HasBilled
  <2> QED
    BY <1>1, <1>2, <2>1, PeriodsFrame
<1>11. ASSUME NEW d \in Charges \ shared' PROVE ChargeOK(d)'
  <2>1. ChargeOK(d) /\ ~OnIt(d)'
    BY <1>1, <1>5, <1>11 DEF Used, OnIt
  <2>2. /\ Uses(d)' = Uses(d) /\ At(d, "free")' = At(d, "free")
        /\ At(d, "recorded")' = At(d, "recorded")
    BY <1>1, <1>3, <1>4, <1>11 DEF Uses, At
  <2>3. CASE d = sweep.c
    <3>1. OnIt(d)
      BY <1>1, <2>3 DEF OnIt
    <3>2. attempt[d] = NoStamp /\ At(d, "free")
      BY <2>1, <3>1 DEF ChargeOK
    <3>3. CASE At(Sweep, "recorded")
      <4>1. attempt'[d] \in Invoices
        BY <1>1, <1>2, <2>3, <3>3
      <4>2. attempt'[d] # NoStamp /\ attempt'[d] # NoAttempt
        BY <4>1, Bounds DEF Invoices, NoStamp, NoAttempt
      <4> QED
        BY <2>1, <2>2, <3>2, <4>2 DEF ChargeOK, AtMostOnce
    <3>4. CASE ~At(Sweep, "recorded")
      <4>1. attempt'[d] = attempt[d]
        BY <1>1, <1>2, <2>3, <3>4
      <4>2. Uses(d) = {}
        BY <2>1, <3>2, <3>4 DEF ChargeOK, Settled, At
      <4> QED
        BY <2>1, <2>2, <3>2, <4>1, <4>2 DEF ChargeOK, AtMostOnce
    <3> QED
      BY <3>3, <3>4
  <2>4. CASE d # sweep.c
    <3>1. attempt'[d] = attempt[d]
      BY <1>1, <1>2, <1>11, <2>4
    <3>2. OnIt(d)' = OnIt(d)
      BY <2>1, <2>4 DEF OnIt
    <3>3. Settled(d)' = Settled(d)
      BY <2>1, <2>2, <3>2 DEF Settled
    <3> QED
      BY <2>1, <2>2, <3>1, <3>2, <3>3, ChargeFrame
  <2> QED
    BY <2>3, <2>4
<1> QED
  BY <1>1, <1>4, <1>7, <1>8, <1>9, <1>10, <1>11, JobStep

\* The period and the counters move on.
LEMMA JobAdvances ==
    ASSUME IInv, Advance
    PROVE  IInv'
<1> USE DEF IInv
<1>1. sweep.phase = "advance" /\ sweep.sub \in SubRow /\ UNCHANGED <<payVars, clock, attempt, shared>>
  BY JobRow DEF Advance
<1>2. At(Sweep, "free") /\ crashes \in Nat /\ HasBilled
  BY <1>1 DEF Used, SweepIsTrue, PayTypes, HasBilled
<1>3. /\ sub.billed < EndAfter /\ sub.billed \in 0..EndAfter /\ sub.next \in 1..MaxCycles
      /\ sweep.sub.next = sub.next /\ sweep.sub.billed = sub.billed
  <2>1. ~sub.ended /\ sub.next <= clock /\ sweep.sub.next = sub.next /\ sweep.sub.billed = sub.billed
    BY <1>1 DEF RowIsCurrent
  <2>2. sub.next \in 1..(MaxCycles + 1) /\ clock \in 1..MaxCycles /\ sub.billed \in 0..EndAfter
    BY DEF SubTypes, SubRow
  <2> QED
    BY <2>1, <2>2, Bounds DEF RowIsCurrent
<1>4. /\ sub' \in SubRow /\ sub'.next = sub.next + 1 /\ sub'.billed = sub.billed + 1
      /\ ~sub'.ended => sub'.billed < EndAfter
  <2> DEFINE status == IF sweep.sub.billed + 1 >= EndAfter THEN "EXPIRED" ELSE sweep.sub.status
  <2>1. sub' = [sub EXCEPT !.next = sweep.sub.next + 1, !.billed = sweep.sub.billed + 1,
                           !.ended = sweep.sub.billed + 1 >= EndAfter, !.status = status]
    BY DEF Advance
  <2>2. /\ sweep.sub.next + 1 \in 1..(MaxCycles + 1) /\ sweep.sub.billed + 1 \in 0..EndAfter
        /\ (sweep.sub.billed + 1 >= EndAfter) \in BOOLEAN
        /\ status \in {"ACTIVE", "PAST_DUE", "PAUSED", "CANCELLED", "EXPIRED"}
    BY <1>1, <1>3, Bounds DEF SubRow
  <2> HIDE DEF status
  <2>3. sub' \in SubRow
    BY <2>1, <2>2 DEF SubTypes, SubRow
  <2>4. /\ sub'.next = sweep.sub.next + 1 /\ sub'.billed = sweep.sub.billed + 1
        /\ sub'.ended = (sweep.sub.billed + 1 >= EndAfter)
    BY <2>1 DEF SubTypes, SubRow
  <2>5. ASSUME ~sub'.ended PROVE sub'.billed < EndAfter
    <3>1. ~(sweep.sub.billed + 1 >= EndAfter)
      BY <2>4, <2>5
    <3> QED
      BY <1>3, <2>4, <3>1, Bounds
  <2> QED
    BY <1>3, <2>3, <2>4, <2>5
<1>5. sweep'.phase = "idle" /\ sweep' \in SweepRow
  BY DEF Advance, Idle, SweepRow
<1>6. PayTypes' /\ SubTypes'
  BY <1>1, <1>4, <1>5 DEF PayTypes, SubTypes, payVars
<1>7. SweepIsTrue' /\ \A c \in Charges \ shared' : ChargeOK(c)'
  BY <1>1, <1>5, ChargesFrame DEF payVars
<1>8. RowIsCurrent'
  BY <1>4, <1>5 DEF RowIsCurrent
<1>9. PeriodsOK'
  <2>1. ~HasBilled'
    BY <1>5 DEF HasBilled
  <2>2. ASSUME NEW d \in 1..MaxCycles
        PROVE  /\ d < sub.next + 1 => Billed(d) # {}
               /\ d >= sub.next + 1 => Billed(d) = {}
               /\ Cardinality(Billed(d)) <= 1 + crashes
    BY <1>2, <1>3 DEF PeriodsOK
  <2>3. \A d : Billed(d)' = Billed(d)
    BY <1>1 DEF Billed, Generated, payVars
  <2>4. ASSUME NEW d \in 1..MaxCycles, d = sub.next + 1
        PROVE  Cardinality(Billed(d)) <= crashes
    <3>1. Billed(d) = {}
      BY <1>3, <2>2, <2>4
    <3> QED
      BY <1>2, <3>1, FS_EmptySet
  <2>5. crashes' = crashes
    BY <1>1 DEF payVars
  <2> QED
    BY <1>3, <1>4, <2>1, <2>2, <2>3, <2>4, <2>5 DEF PeriodsOK
<1> QED
  BY <1>1, <1>2, <1>6, <1>7, <1>8, <1>9, JobStep DEF payVars, At

\* The job dies.
LEMMA JobDies ==
    ASSUME IInv, SubDies(Sweep)
    PROVE  IInv'
<1> USE DEF IInv
<1>1. Sweep \in Payers /\ Charges \subseteq Payers /\ Sweep \notin Charges
  BY CallersApart
<1>2. /\ sweep' = Idle /\ crashes' = crashes + 1
      /\ shared' = IF At(Sweep, "recorded") THEN shared \union {sweep.c} ELSE shared
      /\ UNCHANGED <<invoice, payments, credit, event, slipped, sub, clock, attempt>>
  BY <1>1 DEF SubDies
<1>3. sweep'.phase = "idle" /\ sweep' \in SweepRow
  BY <1>2 DEF Idle, SweepRow
<1>4. crashes \in Nat /\ crashes' \in Nat /\ PayTypes
  BY <1>2 DEF PayTypes
<1>5. At(Sweep, "recorded") => sweep.phase = "stamp" /\ sweep.c \in Charges
  BY JobsCharge DEF OnIt, At
<1>6. /\ payer' \in [Payers -> Waiting \union Deciding \union Paying]
      /\ \A q \in Payers \ {Sweep} : payer'[q] = payer[q]
      /\ payer'[Sweep].phase = "free"
  <2>1. [phase |-> "free"] \in Waiting
    BY DEF Waiting
  <2> QED
    BY <1>1, <1>4, <2>1, CallerMoves DEF SubDies, Go
<1>7. PayTypes' /\ SubTypes'
  BY <1>2, <1>3, <1>4, <1>5, <1>6 DEF PayTypes, SubTypes
<1>8. SweepIsTrue'
  BY <1>6 DEF SweepIsTrue, At
<1>9. RowIsCurrent'
  BY <1>2, <1>3 DEF RowIsCurrent
<1>10. PeriodsOK'
  <2>1. ~HasBilled'
    BY <1>3 DEF HasBilled
  <2>2. \A d : Billed(d)' = Billed(d) /\ Cardinality(Billed(d)) \in Nat
    BY <1>2, BilledNumber DEF Billed, Generated
  <2> QED
    BY <1>2, <1>4, <2>1, <2>2 DEF PeriodsOK
<1>11. ASSUME NEW d \in Charges \ shared' PROVE ChargeOK(d)'
  <2>1. ChargeOK(d) /\ ~OnIt(d)'
    BY <1>2, <1>3, <1>11 DEF Used, OnIt
  <2>2. /\ Uses(d)' = Uses(d) /\ attempt'[d] = attempt[d] /\ At(d, "free")' = At(d, "free")
        /\ At(d, "recorded")' = At(d, "recorded")
    BY <1>1, <1>2, <1>6, <1>11 DEF Uses, At
  <2>3. Settled(d) => Settled(d)'
    BY <1>2, <1>11, <2>2 DEF Settled, OnIt
  <2> QED
    BY <2>1, <2>2, <2>3 DEF ChargeOK, AtMostOnce
<1> QED
  BY <1>2, <1>6, <1>7, <1>8, <1>9, <1>10, <1>11, JobStep
-----------------------------------------------------------------------------
(* The invariant is inductive. *)

LEMMA InitIInv == SubInit => IInv
<1> SUFFICES ASSUME SubInit PROVE IInv
  OBVIOUS
<1> USE DEF SubInit, Init
<1>1. PayTypes
  <2>1. NoInvoice \in InvoiceRow
    BY Bounds DEF NoInvoice, InvoiceRow, Statuses
  <2>2. Free \in Waiting
    BY DEF Free, Waiting
  <2>3. <<>> \in Seq(PaymentRow)
    OBVIOUS
  <2>4. NoEvent \in EventRow
    BY DEF NoEvent, EventRow
  <2> QED
    BY <2>1, <2>2, <2>3, <2>4 DEF PayTypes
<1>2. SubTypes
  <2>1. sub \in SubRow
    BY Bounds DEF SubRow
  <2>2. clock \in 1..MaxCycles
    BY Bounds
  <2>3. sweep \in SweepRow
    BY DEF Idle, SweepRow
  <2> QED
    BY <2>1, <2>2, <2>3 DEF SubTypes
<1>3. \A p \in Payers : At(p, "free")
  BY DEF Free, At
<1>4. InvoicesAreReal
  BY <1>3 DEF InvoicesAreReal, At
<1>5. Money
  <2>1. CountsAreFresh
    BY <1>3 DEF CountsAreFresh, At
  <2>2. \A n \in DOMAIN Received : Received[n] = 0
    BY DEF Received
  <2>3. \A i \in DOMAIN OnInvoices : OnInvoices[i] = 0
    BY DEF OnInvoices, NoInvoice
  <2>4. IsFiniteSet(Units(Received)) /\ Total(Received) = 0
    BY <2>2, NoAmount
  <2>5. Total(OnInvoices) = 0
    BY <2>3, NoAmount
  <2> QED
    BY <2>1, <2>4, <2>5 DEF Money, MoneyIsConserved
<1>6. Used
  <2>1. \A x : Uses(x) = {}
    BY DEF Uses
  <2>2. PayersAreTrue /\ SweepIsTrue
    BY <1>3, CallersApart DEF PayersAreTrue, SweepIsTrue, At
  <2>3. ASSUME NEW e \in Captures \ Nameless PROVE CaptureOK(e)
    <3>1. e \in Payers
      BY DEF Payers
    <3> QED
      BY <1>3, <2>1, <3>1 DEF CaptureOK, AtMostOnce, At, NoEvent
  <2>4. ASSUME NEW c \in Charges PROVE ChargeOK(c)
    <3>1. c \in Payers /\ attempt[c] = NoAttempt
      BY CallersApart
    <3>2. ~OnIt(c)
      BY DEF OnIt, Idle
    <3>3. NoAttempt # NoStamp
      BY DEF NoAttempt, NoStamp
    <3> QED
      BY <1>3, <2>1, <3>1, <3>2, <3>3 DEF ChargeOK, AtMostOnce
  <2> QED
    BY <2>2, <2>3, <2>4 DEF Used
<1>7. RowIsCurrent
  BY Bounds DEF RowIsCurrent, Idle
<1>8. PeriodsOK
  <2>1. \A d : Billed(d) = {}
    BY DEF Billed, Generated, NoInvoice
  <2>2. Cardinality({}) = 0
    BY FS_EmptySet
  <2>3. sub.next = 1 /\ crashes = 0 /\ ~HasBilled
    BY DEF HasBilled, Idle
  <2>4. \A d \in 1..MaxCycles : ~(d < 1)
    BY Bounds
  <2>5. 0 <= 1 + 0
    OBVIOUS
  <2>6. ASSUME NEW d \in 1..MaxCycles
        PROVE  ~(d < sub.next) /\ Cardinality(Billed(d)) = 0 /\ Billed(d) = {}
    BY <2>1, <2>2, <2>3, <2>4
  <2> QED
    BY <2>3, <2>5, <2>6 DEF PeriodsOK
<1> QED
  BY <1>1, <1>2, <1>4, <1>5, <1>6, <1>7, <1>8 DEF IInv

LEMMA NextIInv == IInv /\ [Next]_vars => IInv'
<1> SUFFICES ASSUME IInv, [Next]_vars PROVE IInv'
  OBVIOUS
<1>1. CASE PayNext /\ UNCHANGED subVars
  <2>1. CASE \E i \in Invoices : IssueInvoice(i) \/ MarkOverdue(i) \/ Restore(i)
    BY <1>1, <2>1, InvoiceChanges
  <2>2. ASSUME NEW k \in Clerks,
               \/ \E i \in Invoices, amount \in Amounts : ClerkPays(k, i, amount)
               \/ \E i \in Invoices, to \in {"CANCELLED", "WRITE_OFF", "deleted"} : Decide(k, i, to)
               \/ ClerkIsTold(k) \/ Settle(k)
        PROVE  IInv'
    BY <1>1, <2>2, ClerkChanges, SettleChanges
  <2>3. ASSUME NEW e \in Captures,
               \/ \E i \in Invoices, amount \in Amounts, verified \in BOOLEAN : Receive(e, i, amount, verified)
               \/ NoteOutcome(e)
        PROVE  IInv'
    BY <1>1, <2>3, CaptureChanges
  <2>4. ASSUME NEW p \in Clerks \union Captures, Recording(p) \/ Dies(p)
        PROVE  IInv'
    <3>1. p \in Payers
      BY DEF Payers
    <3>2. CASE Recording(p)
      BY <1>1, <3>1, <3>2, CountChanges, RecordChanges DEF Recording
    <3>3. CASE Dies(p) /\ p \in Clerks
      BY <1>1, <3>3, ClerkChanges
    <3>4. CASE Dies(p) /\ p \in Captures
      BY <1>1, <3>4, CaptureChanges
    <3> QED
      BY <2>4, <3>2, <3>3, <3>4
  <2> QED
    BY <1>1, <2>1, <2>2, <2>3, <2>4 DEF PayNext
<1>2. CASE \/ NextPeriod \/ Pause \/ Resume \/ Cancel \/ Strand
           \/ ChargeFailed \/ MandateStops \/ MandateResumes \/ MandateStarts \/ MandateRevoked
  BY <1>2, StatusChanges
<1>3. CASE \E c \in Charges : Charged(c) \/ Activate(c) \/ SettleGenerated(c) \/ Stamp(c)
  BY <1>3, ChargeChanges
<1>4. CASE Select \/ Generation
  BY <1>4, JobSelects, JobGenerates, JobSettles, JobStamps, JobAdvances DEF Generation
<1>5. CASE \E p \in OtherPayers : (Recording(p) /\ UNCHANGED subVars) \/ SubDies(p)
  <2>1. PICK p \in OtherPayers : (Recording(p) /\ UNCHANGED subVars) \/ SubDies(p)
    BY <1>5
  <2>2. p \in Payers /\ (p = Sweep \/ p \in Charges)
    BY CallersApart
  <2>3. CASE Recording(p) /\ UNCHANGED subVars
    BY <2>2, <2>3, CountChanges, RecordChanges DEF Recording
  <2>4. CASE SubDies(p)
    BY <2>2, <2>4, ChargeDies, JobDies
  <2> QED
    BY <2>1, <2>3, <2>4
<1>6. CASE UNCHANGED vars
  <2>1. UNCHANGED <<payVars, clock, attempt, sweep, shared>> /\ sub' = sub
    BY <1>6 DEF vars, subVars
  <2>2. sub \in SubRow /\ clock \in 1..MaxCycles /\ clock <= clock /\ clock' = clock
    BY <2>1 DEF IInv, SubTypes
  <2> QED
    BY <2>1, <2>2, StatusStep
<1> QED
  BY <1>1, <1>2, <1>3, <1>4, <1>5, <1>6 DEF Next

-----------------------------------------------------------------------------
(* Theorems. *)

\* The invariant holds: types, money, callers, charges, periods.
THEOREM Inductive == Spec => []IInv
BY InitIInv, NextIInv, PTL DEF Spec

\* MoneyIsConserved, for any staff, captures, charges, amounts and number of
\* invoices, and however often the API dies.
THEOREM MoneyAddsUp == Spec => []MoneyIsConserved
<1>1. IInv => MoneyIsConserved
  BY DEF IInv, Money
<1> QED
  BY <1>1, Inductive, PTL

\* What is used at most once is counted so.
LEMMA UsedOnce ==
    ASSUME NEW x, AtMostOnce(x)
    PROVE  Cardinality(Uses(x)) <= 1
<1>1. CASE Uses(x) = {}
  BY <1>1, FS_EmptySet
<1>2. CASE Uses(x) # {}
  <2>1. \E n : Uses(x) = {n}
    BY <1>2 DEF AtMostOnce
  <2> QED
    BY <2>1, FS_Singleton
<1> QED
  BY <1>1, <1>2

\* CapturesAreRecordedOnce, however often and whenever a capture is sent under
\* its event id, whoever sends it first.
THEOREM CapturesOnce == Spec => []CapturesAreRecordedOnce
<1>1. IInv => CapturesAreRecordedOnce
  BY UsedOnce DEF IInv, Used, CaptureOK, CapturesAreRecordedOnce
<1> QED
  BY <1>1, Inductive, PTL

\* DoubleUseIsExplained, for any number of charges and periods.
THEOREM DoubleUseHasACause == Spec => []DoubleUseIsExplained
<1>1. IInv => DoubleUseIsExplained
  <2> SUFFICES ASSUME IInv, NEW c \in Charges \ shared PROVE ~(Cardinality(Uses(c)) > 1)
    BY DEF DoubleUseIsExplained
  <2>1. AtMostOnce(c)
    BY DEF IInv, Used, ChargeOK
  <2>2. Cardinality(Uses(c)) <= 1
    BY <2>1, UsedOnce
  <2>3. Cardinality(Uses(c)) \in Nat
    <3>1. IsFiniteSet(Uses(c))
      <4>1. Uses(c) \subseteq 1..Len(payments) /\ Len(payments) \in Nat
        BY DEF Uses, IInv, PayTypes
      <4>2. IsFiniteSet(1..Len(payments))
        BY <4>1, FS_Interval
      <4> QED
        BY <4>1, <4>2, FS_Subset
    <3> QED
      BY <3>1, FS_CardinalityType
  <2> QED
    BY <2>2, <2>3
<1> QED
  BY <1>1, Inductive, PTL

\* The types the runs check are those of the invariant.
LEMMA Typed == IInv => TypeOK
<1> SUFFICES ASSUME IInv PROVE TypeOK
  OBVIOUS
<1>1. PayTypes /\ SubTypes
  BY DEF IInv
<1>2. /\ invoice \in [Invoices -> [status : Statuses, paid : 0..Price, cycle : 0..MaxCycles, deleted : BOOLEAN]]
      /\ \A n \in DOMAIN payments : payments[n] \in [inv : Invoices, amount : Amounts \union {Price}, for : Payers]
      /\ credit \in Nat /\ event \in [Captures -> [state : {"none", "stored", "processed", "failed"}, verified : BOOLEAN]]
  <2>1. \A n \in DOMAIN payments : payments[n] \in PaymentRow
    BY <1>1 DEF PayTypes
  <2> QED
    BY <1>1, <2>1 DEF PayTypes, InvoiceRow, PaymentRow, EventRow, Sums
<1>3. /\ sub.status \in {"ACTIVE", "PAST_DUE", "PAUSED", "CANCELLED", "EXPIRED"}
      /\ sub.next \in 1..(MaxCycles + 1) /\ sub.ended \in BOOLEAN /\ sub.billed \in 0..EndAfter
      /\ sub.failures \in 0..MAX_FAILED /\ sub.auto \in BOOLEAN
  BY <1>1 DEF SubTypes, SubRow
<1>4. attempt \in [Charges -> {NoAttempt, NoStamp} \union Invoices]
  BY <1>1 DEF SubTypes
<1>5. sweep.phase \in {"idle", "create", "settle", "stamp", "advance"}
  BY <1>1, JobRow
<1> QED
  BY <1>2, <1>3, <1>4, <1>5 DEF TypeOK

\* PeriodsAreBilledOnce, for any number of periods, whenever they begin and
\* whatever is done to the subscription meanwhile.
THEOREM BilledOnce == Spec => []PeriodsAreBilledOnce
<1>1. IInv => PeriodsAreBilledOnce
  <2> SUFFICES ASSUME IInv, NEW d \in 1..MaxCycles
               PROVE  /\ d < sub.next => Cardinality(Billed(d)) >= 1
                      /\ Cardinality(Billed(d)) <= 1 + crashes
    BY Typed DEF PeriodsAreBilledOnce, Billed
  <2>1. /\ d < sub.next => Billed(d) # {}
        /\ Cardinality(Billed(d)) <= 1 + crashes
    BY DEF IInv, PeriodsOK
  <2>2. IsFiniteSet(Billed(d)) /\ Cardinality(Billed(d)) \in Nat
    BY BilledNumber
  <2>3. Billed(d) # {} => Cardinality(Billed(d)) # 0
    BY <2>2, FS_EmptySet
  <2> QED
    BY <2>1, <2>2, <2>3
<1> QED
  BY <1>1, Inductive, PTL

=============================================================================
