------------------------------- MODULE Leave --------------------------------
(***************************************************************************)
(* One employee's leave of one type in one year: requests, the balance     *)
(* ledger, and the attendance rows that approvals, cancellations, punches  *)
(* and regularizations write (the leave and attendance services).          *)
(*                                                                         *)
(* A handler is one transaction at READ COMMITTED.  It reads the request   *)
(* first; its first write locks the request's row until it commits, so it  *)
(* is modelled in two steps: what it read, and everything it writes.       *)
(***************************************************************************)
EXTENDS Integers, FiniteSets

CONSTANTS
    Requests,  \* leave requests, each applied for at most once (bound)
    Ranges,    \* date ranges asked for, as sets of working days
    LastDay,   \* days are 1..LastDay (bound)
    Horizon,   \* the last of them that comes (bound)
    Quota,     \* entitlement of the year, in half days (bound: no change of it after the first apply)
    Paid,      \* is the leave type paid, and not a loss of pay?
    Reviewers, \* people who may decide (manager, skip-level manager, owner, HR)
    NoRequest

Days == 1..LastDay

ASSUME LeaveAssumption ==
    /\ LastDay \in Nat \ {0}
    /\ Horizon \in Days
    /\ Quota \in Nat
    /\ Paid \in BOOLEAN
    /\ Ranges \subseteq (SUBSET Days) \ {{}}
    /\ NoRequest \notin Requests
    /\ IsFiniteSet(Requests)

VARIABLES
    request,  \* leave_requests
    balance,  \* leave_balances: pending and used, in half days
    row,      \* attendance_records of each day
    reg,      \* the days whose regularization is pending (bound: one row for each day, asked for again)
    today,
    applying, \* the request whose apply holds the employee's advisory lock
    review,   \* what each reviewer has read
    cancel,   \* the request the employee's cancellation has read
    punch,    \* what the clock-in under way has read
    overtaken \* history: requests and days decided by somebody whose reading was stale

vars == <<request, balance, row, reg, today, applying, review, cancel, punch, overtaken>>

NoRow == [status |-> "none", punched |-> FALSE, out |-> FALSE, fixed |-> FALSE, source |-> "system"]
Nothing == [of |-> "nothing"]

Init ==
    /\ request = [r \in Requests |-> [status |-> "none", days |-> {}, half |-> FALSE]]
    /\ balance = [pending |-> 0, used |-> 0]
    /\ row = [d \in Days |-> NoRow]
    /\ reg = {}
    /\ today = 1
    /\ applying = NoRequest
    /\ review = [v \in Reviewers |-> Nothing]
    /\ cancel = Nothing
    /\ punch = Nothing
    /\ overtaken = {}

Cost(r) == IF request[r].half THEN 1 ELSE 2 * Cardinality(request[r].days)
Worked == {"present"}  \* present, late, work_from_home, on_duty, comp_off
InForce(r) == request[r].status \in {"pending", "approved"}
OnLeave(d) == \E r \in Requests : request[r].status = "approved" /\ d \in request[r].days /\ ~request[r].half
OnHalfDay(d) == \E r \in Requests : request[r].status = "approved" /\ d \in request[r].days /\ request[r].half

NextDay ==
    /\ today < Horizon
    /\ punch = Nothing
    /\ today' = today + 1
    /\ UNCHANGED <<request, balance, row, reg, applying, review, cancel, punch, overtaken>>

-----------------------------------------------------------------------------
(* applyLeave. *)

\* Unpaid types and types without an entitlement have no limit.
Tracked == Paid /\ Quota > 0

\* assertWithinBalance: of a tracked type, what is asked is at most what is available.
WithinBalance(cost) == Tracked => cost <= Quota - balance.used - balance.pending

Overlaps(r, days) == InForce(r) /\ request[r].days \intersect days # {}

\* Fault: no advisory lock.
CheckApplyUnlocked(r, days, half) ==
    /\ request[r].status = "none"
    /\ half => Cardinality(days) = 1
    /\ \A q \in Requests : ~Overlaps(q, days)
    /\ WithinBalance(IF half THEN 1 ELSE 2 * Cardinality(days))
    /\ request' = [request EXCEPT ![r] = [status |-> "asked", days |-> days, half |-> half]]
    /\ UNCHANGED <<balance, row, reg, today, applying, review, cancel, punch, overtaken>>

\* Under the lock: no overlap with a request in force, and enough balance.
CheckApply(r, days, half) ==
    /\ applying = NoRequest
    /\ request[r].status = "none"
    /\ half => Cardinality(days) = 1
    /\ \A q \in Requests : ~Overlaps(q, days)
    /\ WithinBalance(IF half THEN 1 ELSE 2 * Cardinality(days))
    /\ applying' = r
    /\ request' = [request EXCEPT ![r] = [status |-> "asked", days |-> days, half |-> half]]
    /\ UNCHANGED <<balance, row, reg, today, review, cancel, punch, overtaken>>

\* The request and its pending days; the commit releases the lock.
Apply(r) ==
    /\ request[r].status = "asked"
    /\ request' = [request EXCEPT ![r].status = "pending"]
    /\ balance' = [balance EXCEPT !.pending = @ + Cost(r)]
    /\ applying' = NoRequest
    /\ UNCHANGED <<row, reg, today, review, cancel, punch, overtaken>>

-----------------------------------------------------------------------------
(* reviewLeave. *)

\* A pending request is read by somebody who may decide it.
OpenLeave(v, r) ==
    /\ review[v] = Nothing
    /\ request[r].status = "pending"
    /\ review' = [review EXCEPT ![v] = [of |-> "leave", r |-> r]]
    /\ UNCHANGED <<request, balance, row, reg, today, applying, cancel, punch, overtaken>>

\* The status is set whatever it is by now; was it still what was read?
Settle(r, read, status) ==
    /\ request' = [request EXCEPT ![r].status = status]
    /\ overtaken' = IF request[r].status = read THEN overtaken ELSE overtaken \union {r}

\* Fault: a day that was worked is marked as leave like any other.
MarkedOverWork(r, d) ==
    IF row[d].status = "none"
    THEN [NoRow EXCEPT !.status = IF request[r].half THEN "half_day" ELSE "on_leave"]
    ELSE [row[d] EXCEPT !.status = IF request[r].half THEN "half_day" ELSE "on_leave"]

\* The upsert of a leave day: work and regularized days stand.
Marked(r, d) ==
    IF row[d].status = "none"
    THEN [NoRow EXCEPT !.status = IF request[r].half THEN "half_day" ELSE "on_leave"]
    ELSE IF row[d].status \in Worked \/ (row[d].fixed /\ ~request[r].half) THEN row[d]
    ELSE [row[d] EXCEPT !.status = IF request[r].half THEN "half_day" ELSE "on_leave"]

Approve(v) ==
    /\ review[v].of = "leave"
    /\ LET r == review[v].r IN
        /\ Settle(r, "pending", "approved")
        /\ balance' = [balance EXCEPT !.pending = @ - Cost(r), !.used = @ + Cost(r)]
        /\ row' = [d \in Days |-> IF d \in request[r].days THEN Marked(r, d) ELSE row[d]]
    /\ review' = [review EXCEPT ![v] = Nothing]
    /\ UNCHANGED <<reg, today, applying, cancel, punch>>

\* Fault: the days asked for stay pending.
RejectKeepingDays(v) ==
    /\ review[v].of = "leave"
    /\ Settle(review[v].r, "pending", "rejected")
    /\ review' = [review EXCEPT ![v] = Nothing]
    /\ UNCHANGED <<balance, row, reg, today, applying, cancel, punch>>

Reject(v) ==
    /\ review[v].of = "leave"
    /\ Settle(review[v].r, "pending", "rejected")
    /\ balance' = [balance EXCEPT !.pending = @ - Cost(review[v].r)]
    /\ review' = [review EXCEPT ![v] = Nothing]
    /\ UNCHANGED <<row, reg, today, applying, cancel, punch>>

-----------------------------------------------------------------------------
(* cancelLeave, by the employee. *)

\* A request that is pending or approved is read.
OpenCancel(r) ==
    /\ cancel = Nothing
    /\ InForce(r)
    /\ cancel' = [of |-> "leave", r |-> r, read |-> request[r].status]
    /\ UNCHANGED <<request, balance, row, reg, today, applying, review, punch, overtaken>>

\* Fault: the days of the leave keep their rows.
ReleasedNone(r, d) == row[d]

\* The row of a leave day nobody punched into goes.
Released(r, d) ==
    IF /\ d \in request[r].days
       /\ row[d].source = "system" /\ ~row[d].punched
       /\ row[d].status \in {"on_leave", "half_day"}
    THEN NoRow ELSE row[d]

Cancel ==
    /\ cancel # Nothing
    /\ LET r == cancel.r IN
        /\ Settle(r, cancel.read, "cancelled")
        /\ IF cancel.read = "approved"
           THEN /\ row' = [d \in Days |-> Released(r, d)]
                /\ balance' = [balance EXCEPT !.used = @ - Cost(r)]
           ELSE /\ balance' = [balance EXCEPT !.pending = @ - Cost(r)]
                /\ UNCHANGED row
    /\ cancel' = Nothing
    /\ UNCHANGED <<reg, today, applying, review, punch>>

-----------------------------------------------------------------------------
(* punchIn, punchOut. *)

\* No clock-in on approved full-day leave, nor on a day that is complete.
OpenPunch ==
    /\ punch = Nothing
    /\ ~OnLeave(today)
    /\ ~(row[today].punched /\ row[today].out)
    /\ punch' = [of |-> "day", half |-> OnHalfDay(today), exists |-> row[today].status # "none"]
    /\ UNCHANGED <<request, balance, row, reg, today, applying, review, cancel, overtaken>>

\* The first punch of the day writes the row.  A row that appeared since it
\* was looked for, or has gone, fails the transaction.
PunchIn ==
    /\ punch # Nothing
    /\ \/ /\ punch.exists = (row[today].status # "none")
          /\ row' = [row EXCEPT ![today] =
                IF @.punched THEN @
                ELSE [@ EXCEPT !.punched = TRUE, !.source = "web",
                               !.status = IF punch.half THEN "half_day" ELSE "present"]]
       \/ /\ punch.exists # (row[today].status # "none")
          /\ UNCHANGED row
    /\ punch' = Nothing
    /\ UNCHANGED <<request, balance, reg, today, applying, review, cancel, overtaken>>

\* The day's status follows from the minutes worked.
PunchOut ==
    /\ punch = Nothing
    /\ row[today].punched /\ ~row[today].out
    /\ \E status \in {"present", "half_day", "absent"} :
        row' = [row EXCEPT ![today].out = TRUE, ![today].status = status]
    /\ UNCHANGED <<request, balance, reg, today, applying, review, cancel, punch, overtaken>>

-----------------------------------------------------------------------------
(* requestRegularization, reviewRegularization. *)

\* For a past day, or for today once it is clocked out.
AskRegularization(d) ==
    /\ d \notin reg
    /\ d < today \/ (d = today /\ row[d].out)
    /\ reg' = reg \union {d}
    /\ UNCHANGED <<request, balance, row, today, applying, review, cancel, punch, overtaken>>

OpenRegularization(v, d) ==
    /\ review[v] = Nothing
    /\ d \in reg
    /\ review' = [review EXCEPT ![v] = [of |-> "day", d |-> d]]
    /\ UNCHANGED <<request, balance, row, reg, today, applying, cancel, punch, overtaken>>

\* Approving writes the day as present, with the times the request proposes:
\* a clock-in, a clock-out or both.
Regularize(v, status, in, out) ==
    /\ review[v].of = "day"
    /\ LET d == review[v].d IN
        /\ reg' = reg \ {d}
        /\ overtaken' = IF d \in reg THEN overtaken ELSE overtaken \union {d}
        /\ row' = IF status = "rejected" THEN row
                  ELSE [row EXCEPT ![d] = [status |-> "present", punched |-> @.punched \/ in, out |-> @.out \/ out,
                                           fixed |-> TRUE, source |-> "manual"]]
    /\ review' = [review EXCEPT ![v] = Nothing]
    /\ UNCHANGED <<request, balance, today, applying, cancel, punch>>

-----------------------------------------------------------------------------
Next ==
    \/ NextDay
    \/ \E r \in Requests :
        \/ \E days \in Ranges, half \in BOOLEAN : CheckApply(r, days, half)
        \/ Apply(r) \/ OpenCancel(r)
    \/ Cancel
    \/ \E v \in Reviewers :
        \/ \E r \in Requests : OpenLeave(v, r)
        \/ \E d \in Days : OpenRegularization(v, d)
        \/ Approve(v) \/ Reject(v)
        \/ \E status \in {"approved", "rejected"}, in, out \in BOOLEAN : Regularize(v, status, in, out)
    \/ \E d \in Days : AskRegularization(d)
    \/ OpenPunch \/ PunchIn \/ PunchOut

Spec == Init /\ [][Next]_vars

-----------------------------------------------------------------------------
(* Properties.  Two decisions on one request can overtake each other: both  *)
(* read it undecided and the second update is unconditional.  `overtaken`   *)
(* names the requests that happened to: nothing is claimed of their days,   *)
(* and nothing of the sums once there is one.                               *)

\* The half days that requests of one status take, counted one by one.
HalfDays(status) ==
    {x \in Requests \X Days \X {1, 2} :
        /\ request[x[1]].status = status
        /\ x[2] \in request[x[1]].days
        /\ request[x[1]].half => x[3] = 1}

Total(status) == Cardinality(HalfDays(status))
Undisturbed == overtaken \intersect Requests = {}

\* The type invariant.
TypeOK ==
    /\ request \in [Requests -> [status : {"none", "asked", "pending", "approved", "rejected", "cancelled"},
                                 days : Ranges \union {{}}, half : BOOLEAN]]
    /\ balance \in [pending : Int, used : Int]
    /\ row \in [Days -> [status : {"none", "on_leave", "half_day", "present", "absent"}, punched : BOOLEAN,
                         out : BOOLEAN, fixed : BOOLEAN, source : {"system", "web", "manual"}]]
    /\ reg \subseteq Days
    /\ today \in 1..Horizon
    /\ applying \in Requests \union {NoRequest}
    /\ review \in [Reviewers -> {Nothing} \union [of : {"leave"}, r : Requests] \union [of : {"day"}, d : Days]]
    /\ cancel \in {Nothing} \union [of : {"leave"}, r : Requests, read : {"pending", "approved"}]
    /\ punch \in {Nothing} \union [of : {"day"}, half : BOOLEAN, exists : BOOLEAN]
    /\ overtaken \subseteq Requests \union Days

\* The model is well typed, and the ledger is "in step with the requests table" (leave.service.ts:700),
\* through applies, reviews and cancellations that overlap on other requests.
BalanceMatchesRequests ==
    /\ TypeOK
    /\ Undisturbed => balance = [pending |-> Total("pending"), used |-> Total("approved")]

\* Double submits, two tabs and decisions in between never book more than the
\* quota of a paid type that has one (unpaid and untracked types are exempt,
\* leave.service.ts:702-711), nor a day twice, of any type (532-575).
NeverOverbooked ==
    /\ Tracked => balance.pending + balance.used <= Quota
    /\ \A q, r \in Requests \ overtaken :
        q # r /\ InForce(r) /\ InForce(q) => request[q].days \intersect request[r].days = {}

Excused(d) == \E r \in Requests \intersect overtaken : d \in request[r].days

\* A day the board shows as leave, with nobody punched in, is covered by an
\* approved request, whatever was cancelled before (cancelLeave).
LeaveRowsHaveLeave ==
    \A d \in Days :
        row[d].status = "on_leave" /\ ~row[d].punched => OnLeave(d) \/ Excused(d)

\* Over approvals, cancellations, punches and regularizations in any order, a
\* punch or a regularization stays on its day, and a day somebody worked turns
\* into leave only when it was clocked out short and a full-day request for it
\* is being approved.  "The fact on the ground stands, the leave only fills the
\* empty days" (leave.service.ts:1419-1423) is less than that: the list of
\* worked statuses (1438) lacks the half_day and absent that a short day is
\* clocked out as (attendance.service.ts:757-761), and the cancellation of the
\* leave, which releases unpunched rows (948-967), does not bring them back.
WorkStands ==
    [][\A d \in Days :
        /\ row[d].punched => row'[d].punched
        /\ row[d].fixed => row'[d].fixed
        /\ /\ row[d].punched \/ row[d].status \in Worked
           /\ row[d].status # "on_leave" /\ row'[d].status = "on_leave"
           => row[d].status \in {"half_day", "absent"} /\ ~row[d].fixed /\ OnLeave(d)']_vars

=============================================================================
