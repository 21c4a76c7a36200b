---------------------------- MODULE CrmSequences ----------------------------
(***************************************************************************)
(* Drip e-mail sequences: enrollments of one contact (and of one deal), in *)
(* sequences of their own, and the engine tick that mails their steps from *)
(* every process that runs workloads.  A tick claims what is due by moving *)
(* next_send_at into the future (the lease) and then works through the     *)
(* rows as it read them; what it does to each is a list of statements of   *)
(* their own.  Time is abstract: a lease or a wait is over when it is over.*)
(***************************************************************************)
EXTENDS Integers, FiniteSets

CONSTANTS
    Enrollments, \* sequence_enrollments, each in a sequence of its own (bound)
    Workers,     \* processes that run the tick
    Steps,       \* steps of every sequence
    MaxFaults    \* deaths, failures, outrun leases and mails put off, together (bound)

ASSUME SequencesAssumption ==
    /\ Steps \in Nat \ {0}
    /\ MaxFaults \in Nat

VARIABLES
    enr,     \* status, current_step, and next: whether next_send_at lets it be claimed
    contact, \* dnc: email_do_not_contact, or removed; deal: open, decided or deleted
    worker,  \* the tick of each process: the rows as it claimed them, and the one it is at
    mailed,  \* history: how often the provider took each step
    after,   \* history: mails each process sent of an enrollment that was over
    strayed, \* history: times an enrollment outlived its lease, was left after its mail, or
             \* was put off by one process while another was at it
    faults

hist == <<mailed, after, strayed, faults>>
vars == <<enr, contact, worker, hist>>

StepIndex == 0..(Steps - 1)
Free == [phase |-> "free", batch |-> {}]  \* `ticking` is false

Init ==
    /\ enr = [e \in Enrollments |-> [status |-> "none", step |-> 0, next |-> "never"]]
    /\ contact = [dnc |-> FALSE, deal |-> "open"]
    /\ worker = [w \in Workers |-> Free]
    /\ mailed = [e \in Enrollments |-> [n \in StepIndex |-> 0]]
    /\ after = [e \in Enrollments |-> [w \in Workers |-> 0]]
    /\ strayed = [e \in Enrollments |-> 0]
    /\ faults = 0

Active(e) == enr[e].status = "active"
Barred == contact.dnc \/ contact.deal # "open"
Over(e) == ~Active(e) \/ Barred

-----------------------------------------------------------------------------
(* Staff, the contact, the deal.                                           *)

\* enroll: refused for a contact who must not be mailed or a deal that is
\* deleted; the deal's status is not looked at.  The first mail may have to wait for the send window.
Enroll(e) ==
    /\ enr[e].status = "none"
    /\ ~contact.dnc /\ contact.deal # "deleted"
    /\ \E next \in {"due", "waiting"} :
        enr' = [enr EXCEPT ![e] = [status |-> "active", step |-> 0, next |-> next]]
    /\ UNCHANGED <<contact, worker, hist>>

Exited(S) == [e \in Enrollments |-> IF e \in S /\ Active(e) THEN [enr[e] EXCEPT !.status = "exited"] ELSE enr[e]]

\* exit, by hand.
Exit(e) ==
    /\ Active(e)
    /\ enr' = Exited({e})
    /\ UNCHANGED <<contact, worker, hist>>

\* handleInbound: a reply ends every active enrollment of the contact.
Reply ==
    /\ enr' = Exited(Enrollments)
    /\ UNCHANGED <<contact, worker, hist>>

\* setDoNotContact, first statement: unsubscribed, bounced or complained; or
\* the contact is removed.
OptOut ==
    /\ contact' = [contact EXCEPT !.dnc = TRUE]
    /\ UNCHANGED <<enr, worker, hist>>

\* The deal is won or lost (bound: for good).
CloseDeal ==
    /\ contact.deal = "open"
    /\ contact' = [contact EXCEPT !.deal = "decided"]
    /\ UNCHANGED <<enr, worker, hist>>

\* The deal is deleted, decided or not: nobody is told.
DeleteDeal ==
    /\ contact' = [contact EXCEPT !.deal = "deleted"]
    /\ UNCHANGED <<enr, worker, hist>>

\* After an opt-out or a decision, a statement ends the enrollments, if it comes
\* to it: the second of setDoNotContact, or exitByDeal of the best-effort
\* subscriber (a deal that is deleted may have been decided before).
ExitAll ==
    /\ Barred
    /\ enr' = Exited(Enrollments)
    /\ UNCHANGED <<contact, worker, hist>>

-----------------------------------------------------------------------------
(* tick: the claim. *)

Due == {e \in Enrollments : Active(e) /\ enr[e].next = "due"}
Snapshot(S) == {[e |-> e, step |-> enr[e].step] : e \in S}

\* The rows left are worked through one by one.
TakeUp(w, batch) ==
    IF batch = {} THEN worker' = [worker EXCEPT ![w] = Free]
    ELSE \E x \in batch : worker' = [worker EXCEPT ![w] = [phase |-> "check", batch |-> batch, now |-> x]]

\* Fault: the claim clears next_send_at.
ClaimForGood(w) ==
    /\ worker[w] = Free
    /\ Due # {}
    /\ TakeUp(w, Snapshot(Due))
    /\ enr' = [e \in Enrollments |-> IF e \in Due THEN [enr[e] EXCEPT !.next = "never"] ELSE enr[e]]
    /\ UNCHANGED <<contact, hist>>

\* Fault: the lease is not taken.
ClaimUnleased(w) ==
    /\ worker[w] = Free
    /\ Due # {}
    /\ TakeUp(w, Snapshot(Due))
    /\ UNCHANGED <<enr, contact, hist>>

\* One transaction with locks: what is due (up to 50, more than the bound) is
\* read and leased; one tick per process.
Claim(w) ==
    /\ worker[w] = Free
    /\ Due # {}
    /\ TakeUp(w, Snapshot(Due))
    /\ enr' = [e \in Enrollments |-> IF e \in Due THEN [enr[e] EXCEPT !.next = "leased"] ELSE enr[e]]
    /\ UNCHANGED <<contact, hist>>

Has(w, e) == \E x \in worker[w].batch : x.e = e
Held(e) == \E w \in Workers : Has(w, e)

\* The lease runs out, even on a process that is still at work.
LeaseEnds(e) ==
    /\ enr[e].next = "leased"
    /\ enr' = [enr EXCEPT ![e].next = "due"]
    /\ IF Held(e)
       THEN /\ faults < MaxFaults
            /\ faults' = faults + 1
            /\ strayed' = [strayed EXCEPT ![e] = @ + 1]
       ELSE UNCHANGED <<faults, strayed>>
    /\ UNCHANGED <<contact, worker, mailed, after>>

WaitEnds(e) ==
    /\ enr[e].next = "waiting"
    /\ enr' = [enr EXCEPT ![e].next = "due"]
    /\ UNCHANGED <<contact, worker, hist>>

-----------------------------------------------------------------------------
(* advance, for one claimed row after the other. *)

At(w, phase) == worker[w].phase = phase
Now(w) == worker[w].now.e
Go(w, phase) == worker' = [worker EXCEPT ![w].phase = phase]

\* This row is done with.
Proceed(w) == TakeUp(w, worker[w].batch \ {worker[w].now})

\* Fault: the deal is left to the subscriber.
RecheckWithoutDeal(w) ==
    /\ At(w, "check")
    /\ Go(w, IF ~contact.dnc THEN "send" ELSE "quit")
    /\ UNCHANGED <<enr, contact, hist>>

\* The contact and the deal are read again, but a deleted deal is passed over;
\* the enrollment is not read.
Recheck(w) ==
    /\ At(w, "check")
    /\ Go(w, IF ~contact.dnc /\ contact.deal # "decided" THEN "send" ELSE "quit")
    /\ UNCHANGED <<enr, contact, hist>>

\* finish("exited"), whatever the enrollment is by now.
Quit(w) ==
    /\ At(w, "quit")
    /\ enr' = [enr EXCEPT ![Now(w)].status = "exited", ![Now(w)].next = "never"]
    /\ Proceed(w)
    /\ UNCHANGED <<contact, hist>>

\* Outside the send window, or the sender is at the daily cap: next_send_at is
\* set, even over the lease of another process that is at the enrollment.
Defer(w) ==
    /\ At(w, "send")
    /\ faults < MaxFaults
    /\ faults' = faults + 1
    /\ enr' = [enr EXCEPT ![Now(w)].next = "waiting"]
    /\ strayed' = IF \E v \in Workers \ {w} : Has(v, Now(w)) THEN [strayed EXCEPT ![Now(w)] = @ + 1] ELSE strayed
    /\ Proceed(w)
    /\ UNCHANGED <<contact, mailed, after>>

\* email.send stores the message; it throws when the contact has opted out by
\* now or the deal is deleted, and the row waits for the end of its lease.
Compose(w) ==
    /\ At(w, "send")
    /\ IF contact.dnc \/ contact.deal = "deleted" THEN Proceed(w) ELSE Go(w, "post")
    /\ UNCHANGED <<enr, contact, hist>>

\* Where the enrollment goes from the row that was claimed.
Moved(w) ==
    LET step == worker[w].now.step + 1 IN
    \E next \in {"due", "waiting"} :
        enr' = [enr EXCEPT ![Now(w)] = IF step = Steps
                                       THEN [@ EXCEPT !.status = "completed", !.next = "never"]
                                       ELSE [@ EXCEPT !.step = step, !.next = next]]

\* Fault: the enrollment moves on before the mail is accepted.
PostMovedAhead(w) ==
    /\ At(w, "post")
    /\ Moved(w)
    /\ \/ /\ mailed' = [mailed EXCEPT ![Now(w)][worker[w].now.step] = @ + 1]
          /\ Go(w, "move")
          /\ UNCHANGED faults
       \/ /\ faults < MaxFaults
          /\ faults' = faults + 1
          /\ Proceed(w)
          /\ UNCHANGED mailed
    /\ UNCHANGED <<contact, after, strayed>>

\* The provider takes the mail, or it does not and the row waits for the end
\* of its lease.
Post(w) ==
    /\ At(w, "post")
    /\ \/ /\ mailed' = [mailed EXCEPT ![Now(w)][worker[w].now.step] = @ + 1]
          /\ after' = IF Over(Now(w)) THEN [after EXCEPT ![Now(w)][w] = @ + 1] ELSE after
          /\ Go(w, "move")
          /\ UNCHANGED faults
       \/ /\ faults < MaxFaults
          /\ faults' = faults + 1
          /\ Proceed(w)
          /\ UNCHANGED <<mailed, after>>
    /\ UNCHANGED <<enr, contact, strayed>>

\* The next step and its time, or "completed".
Move(w) ==
    /\ At(w, "move")
    /\ Moved(w)
    /\ Proceed(w)
    /\ UNCHANGED <<contact, hist>>

\* A statement throws: the tick goes on with the next row.  Or the process
\* dies.  After the mail, the step is left as if it had not been sent.
Fails(w) ==
    /\ ~At(w, "free")
    /\ faults < MaxFaults
    /\ faults' = faults + 1
    /\ \/ ~At(w, "post") /\ Proceed(w)
       \/ worker' = [worker EXCEPT ![w] = Free]
    /\ strayed' = IF At(w, "move") THEN [strayed EXCEPT ![Now(w)] = @ + 1] ELSE strayed
    /\ UNCHANGED <<enr, contact, mailed, after>>

-----------------------------------------------------------------------------
Advance(w) == Recheck(w) \/ Quit(w) \/ Compose(w) \/ Post(w) \/ Move(w)

Next ==
    \/ \E e \in Enrollments : Enroll(e) \/ Exit(e) \/ LeaseEnds(e) \/ WaitEnds(e)
    \/ Reply \/ OptOut \/ CloseDeal \/ DeleteDeal \/ ExitAll
    \/ \E w \in Workers : Claim(w) \/ Advance(w) \/ Defer(w) \/ Fails(w)

Spec == Init /\ [][Next]_vars

\* The cron fires every five minutes, a tick works through what it claimed,
\* leases and waits come to an end.
Fairness ==
    /\ \A w \in Workers : WF_vars(Claim(w)) /\ WF_vars(Advance(w))
    /\ \A e \in Enrollments : WF_vars(~Held(e) /\ LeaseEnds(e)) /\ WF_vars(WaitEnds(e))

FairSpec == Spec /\ Fairness

-----------------------------------------------------------------------------
(* Properties. *)

Rows == [e : Enrollments, step : StepIndex]
Phases == {"free", "check", "quit", "send", "post", "move"}

\* The type invariant.
TypeOK ==
    /\ enr \in [Enrollments -> [status : {"none", "active", "exited", "completed"}, step : StepIndex,
                                next : {"never", "due", "leased", "waiting"}]]
    /\ contact \in [dnc : BOOLEAN, deal : {"open", "decided", "deleted"}]
    /\ \A w \in Workers : worker[w].phase \in Phases /\ worker[w].batch \subseteq Rows

\* The model is well typed; and however ticks overlap, a step goes out only
\* after the one before it, and a completed enrollment has had them all
\* (sequences.service.ts:326-354).
StepsGoOutInOrder ==
    /\ TypeOK
    /\ \A e \in Enrollments :
        /\ \A n \in StepIndex \ {0} : mailed[e][n] > 0 => mailed[e][n - 1] > 0
        /\ enr[e].status = "completed" => \A n \in StepIndex : mailed[e][n] > 0

\* A step goes out once, and once more for every time its enrollment outlived
\* a lease, was left between its mail and its move, or was put off by one
\* process while another was at it ("no concurrent tick (inline + worker) can
\* double-claim", sequences.service.ts:241-242).
RepeatsAreExplained ==
    \A e \in Enrollments, n \in StepIndex : mailed[e][n] <= 1 + strayed[e]

\* Once the contact has replied or opted out, the deal is decided or deleted or
\* the enrollment has ended, a process sends at most the one mail it was about to
\* send, even when the statement that ends the enrollment never comes.
MailStops == \A e \in Enrollments, w \in Workers : after[e][w] <= 1

\* An enrollment comes to an end, through failures and deaths that themselves
\* come to an end (MaxFaults; a provider that refuses the mail for good keeps it
\* going).  One whose deal is deleted need not: the recheck passes it
\* (sequences.service.ts:285), email.send refuses it (email.service.ts:112), and
\* the end of every lease starts it over.
EnrollmentsEnd == \A e \in Enrollments : Active(e) ~> ~Active(e) \/ contact.deal = "deleted"

=============================================================================
