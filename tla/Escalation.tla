----------------------------- MODULE Escalation -----------------------------
(***************************************************************************)
(* Who reviews a request (leave, regularization, timesheet) of one         *)
(* applicant: the reporting manager (level 0), the manager's manager (1),  *)
(* Owner and HR Admins (2); and the sweep that moves open requests up when *)
(* the reviewer is late, away or gone.  A person stands for an employee    *)
(* with a seat and a user.  Deciding is one step (bound: see Leave for     *)
(* decisions that overlap).  ApprovalProofs extends Leave and Escalation;  *)
(* what both would name alike is named after the route here.               *)
(***************************************************************************)
EXTENDS Integers, FiniteSets

CONSTANTS
    People,     \* employees
    Applicant,
    Hr,         \* Owner and HR Admin seats at the start
    Nobody,
    Lines,      \* the reporting lines at the start
    Items,      \* requests of the applicant
    Sweeps,     \* processes that run the sweep, and its manual trigger
    MaxChanges, \* changes of the organisation and returns for rework (bound)
    MaxDeaths   \* sweeps that die (bound)

ASSUME EscalationAssumption ==
    /\ Applicant \in People /\ Nobody \notin People
    /\ Hr \subseteq People
    /\ Lines \in [People -> People \union {Nobody}]
    /\ {MaxChanges, MaxDeaths} \subseteq Nat

VARIABLES
    manager, \* employees.reporting_manager_id
    live,    \* people who can still review (isLiveReviewerSql)
    away,    \* people on approved full-day leave today
    hr,      \* people with an Owner or HR Admin seat
    item,    \* status, escalation_level, escalated_to_employee_id; late: 24 h at this level are over
    sweep,   \* what each sweep is doing
    told,    \* history: who was told that an item landed with them, at which level of which submission
    nth,     \* history: how often an item was submitted
    rounds,  \* history: how often an item was moved to each level
    decided, \* history: the level an item was decided at
    changes, deaths

org == <<manager, live, away, hr>>
hist == <<told, nth, rounds, decided>>
routeVars == <<org, item, sweep, hist, changes, deaths>>

Levels == 0..2
Idle == [phase |-> "idle", todo |-> {}]
Fresh == [status |-> "draft", level |-> 0, to |-> Nobody, late |-> FALSE]

RouteInit ==
    /\ manager = Lines
    /\ live = People
    /\ away = {}
    /\ hr = Hr
    /\ item = [i \in Items |-> Fresh]
    /\ sweep = [s \in Sweeps |-> Idle]
    /\ told = [i \in Items |-> {}]
    /\ nth = [i \in Items |-> 0]
    /\ rounds = [i \in Items |-> [l \in Levels |-> 0]]
    /\ decided = [i \in Items |-> 0]
    /\ changes = 0
    /\ deaths = 0

-----------------------------------------------------------------------------
(* The route. *)

\* The applicant's manager, unless that is nobody who could review.
L0 == LET m == manager[Applicant] IN
      IF m \in live \ {Applicant} THEN m ELSE Nobody

\* The manager's manager, unless that is the manager or the applicant again.
L1 == IF L0 = Nobody THEN Nobody
      ELSE LET m == manager[L0] IN
           IF m \in live \ {Applicant, L0} THEN m ELSE Nobody

\* planEscalationTx: the level an item of `level` moves to, and the reviewer there.
Plan(level) ==
    IF level = 0 /\ L1 # Nobody /\ L1 \notin away
    THEN [level |-> 1, to |-> L1]
    ELSE [level |-> 2, to |-> Nobody]

\* recipientsFor: at level 2 the manager and the manager's manager are left out.
Recipients(plan) == IF plan.level = 1 THEN {plan.to} ELSE (hr \intersect live) \ {Applicant, L0, L1}

\* initialStateTx.
Born == IF L0 = Nobody THEN [level |-> 2, to |-> Nobody]
        ELSE IF L0 \in away THEN Plan(0)
        ELSE [level |-> 0, to |-> Nobody]

\* assertMayActTx: how it stands, whatever the queue shows.
MayAct(p, i) ==
    /\ p \in live \ {Applicant}
    /\ \/ manager[Applicant] = p
       \/ item[i].level >= 1 /\ item[i].to = p
       \/ p \in hr

-----------------------------------------------------------------------------
(* The organisation and the requests.                                      *)

Changed == changes < MaxChanges /\ changes' = changes + 1

SetManager(p, q) ==
    /\ Changed
    /\ manager' = [manager EXCEPT ![p] = q]
    /\ UNCHANGED <<live, away, hr, item, sweep, hist, deaths>>

\* The role of a seat changes to or from Owner or HR Admin.
SetRole(p) ==
    /\ Changed
    /\ hr' = IF p \in hr THEN hr \ {p} ELSE hr \union {p}
    /\ UNCHANGED <<manager, live, away, item, sweep, hist, deaths>>

\* Removed, separated or deactivated; the applicant stays (bound).
Remove(p) ==
    /\ p # Applicant
    /\ Changed
    /\ live' = live \ {p}
    /\ UNCHANGED <<manager, away, hr, item, sweep, hist, deaths>>

\* A day begins on which p is on leave, or is back.
Away(p) ==
    /\ Changed
    /\ away' = IF p \in away THEN away \ {p} ELSE away \union {p}
    /\ UNCHANGED <<manager, live, hr, item, sweep, hist, deaths>>

Submit(i) ==
    /\ item[i].status = "draft"
    /\ item' = [item EXCEPT ![i] = [status |-> "open", level |-> Born.level, to |-> Born.to, late |-> FALSE]]
    /\ nth' = [nth EXCEPT ![i] = @ + 1]
    /\ rounds' = [rounds EXCEPT ![i] = [l \in Levels |-> 0]]
    /\ UNCHANGED <<org, sweep, told, decided, changes, deaths>>

Decide(p, i) ==
    /\ item[i].status = "open"
    /\ MayAct(p, i)
    /\ item' = [item EXCEPT ![i].status = "decided"]
    /\ decided' = [decided EXCEPT ![i] = item[i].level]
    /\ UNCHANGED <<org, sweep, told, nth, rounds, changes, deaths>>

\* A timesheet is sent back: RESET_ESCALATION.
Rework(p, i) ==
    /\ Changed
    /\ item[i].status = "open"
    /\ MayAct(p, i)
    /\ item' = [item EXCEPT ![i] = Fresh]
    /\ UNCHANGED <<org, sweep, hist, deaths>>

\* 24 hours pass at a level.
GetsLate(i) ==
    /\ item[i].status = "open"
    /\ item' = [item EXCEPT ![i].late = TRUE]
    /\ UNCHANGED <<org, sweep, hist, changes, deaths>>

-----------------------------------------------------------------------------
(* runSweep. *)

Sweepable(i) == item[i].status = "open" /\ item[i].level < 2

\* selectCandidates (up to 200 a workspace, more than the bound).
Scan(s) ==
    /\ sweep[s] = Idle
    /\ \E i \in Items : Sweepable(i)
    /\ sweep' = [sweep EXCEPT ![s] = [phase |-> "reading", todo |-> {i \in Items : Sweepable(i)}]]
    /\ UNCHANGED <<org, item, hist, changes, deaths>>

Gone(p) == p \notin live
Reviewer(i) == IF item[i].level = 0 THEN L0 ELSE item[i].to

\* Fault: a reviewer who is gone is not noticed at level 1.
TriggerNotGone(i) == item[i].late \/ (item[i].level = 0 /\ Gone(L0)) \/ Reviewer(i) \in away

\* sla, no_manager or no_skip_manager, reviewer_on_leave.
Trigger(i) == item[i].late \/ Gone(Reviewer(i)) \/ Reviewer(i) \in away

Rest(s) == IF Cardinality(sweep[s].todo) = 1 THEN Idle
           ELSE [phase |-> "reading", todo |-> sweep[s].todo \ {sweep[s].at}]

\* processOne re-reads the item and its route and plans ...
Read(s) ==
    /\ sweep[s].phase = "reading"
    /\ \E i \in sweep[s].todo :
        sweep' = [sweep EXCEPT ![s] =
            IF Sweepable(i) /\ Trigger(i)
            THEN [phase |-> "planned", todo |-> sweep[s].todo, at |-> i, from |-> item[i].level,
                  plan |-> Plan(item[i].level), tell |-> Recipients(Plan(item[i].level))]
            ELSE IF sweep[s].todo = {i} THEN Idle
            ELSE [phase |-> "reading", todo |-> sweep[s].todo \ {i}]]
    /\ UNCHANGED <<org, item, hist, changes, deaths>>

\* Fault: the reviewer is overwritten at every level.
MovedUpAway(s) ==
    LET i == sweep[s].at
        plan == sweep[s].plan
    IN  /\ item' = [item EXCEPT ![i] = [status |-> "open", level |-> plan.level, late |-> FALSE, to |-> plan.to]]
        /\ rounds' = [rounds EXCEPT ![i][plan.level] = @ + 1]

\* escalateTx's assignments: the reviewer of level 1 stays named at level 2.
MovedUp(s) ==
    LET i == sweep[s].at
        plan == sweep[s].plan
    IN  /\ item' = [item EXCEPT ![i] = [status |-> "open", level |-> plan.level, late |-> FALSE,
                                        to |-> IF plan.level = 1 THEN plan.to ELSE item[i].to]]
        /\ rounds' = [rounds EXCEPT ![i][plan.level] = @ + 1]

Committed(s) ==
    [phase |-> "committed", todo |-> sweep[s].todo, at |-> sweep[s].at, level |-> sweep[s].plan.level,
     tell |-> sweep[s].tell, nth |-> nth[sweep[s].at]]

\* Fault: the level is not compared.
WriteAnyLevel(s) ==
    /\ sweep[s].phase = "planned"
    /\ IF item[sweep[s].at].status = "open"
       THEN MovedUp(s) /\ sweep' = [sweep EXCEPT ![s] = Committed(s)]
       ELSE sweep' = [sweep EXCEPT ![s] = Rest(s)] /\ UNCHANGED <<item, rounds>>
    /\ UNCHANGED <<org, told, nth, decided, changes, deaths>>

\* ... and a guarded update moves the item if it is still open and where it was.
Write(s) ==
    /\ sweep[s].phase = "planned"
    /\ IF item[sweep[s].at].status = "open" /\ item[sweep[s].at].level = sweep[s].from
       THEN MovedUp(s) /\ sweep' = [sweep EXCEPT ![s] = Committed(s)]
       ELSE sweep' = [sweep EXCEPT ![s] = Rest(s)] /\ UNCHANGED <<item, rounds>>
    /\ UNCHANGED <<org, told, nth, decided, changes, deaths>>

\* After the commit the people planned for are told, whatever has happened
\* to the item and to them since.
Notify(s) ==
    /\ sweep[s].phase = "committed"
    /\ told' = [told EXCEPT ![sweep[s].at] = @ \union
            [who : sweep[s].tell, level : {sweep[s].level}, nth : {sweep[s].nth}]]
    /\ sweep' = [sweep EXCEPT ![s] = Rest(s)]
    /\ UNCHANGED <<org, item, nth, rounds, decided, changes, deaths>>

\* The process dies; a failing item is left for the next sweep likewise.
Dies(s) ==
    /\ sweep[s] # Idle
    /\ deaths < MaxDeaths
    /\ deaths' = deaths + 1
    /\ sweep' = [sweep EXCEPT ![s] = Idle]
    /\ UNCHANGED <<org, item, hist, changes>>

-----------------------------------------------------------------------------
RouteNext ==
    \/ \E p \in People : Remove(p) \/ Away(p) \/ SetRole(p) \/ \E q \in People \union {Nobody} : SetManager(p, q)
    \/ \E i \in Items : Submit(i) \/ GetsLate(i) \/ \E p \in People : Decide(p, i) \/ Rework(p, i)
    \/ \E s \in Sweeps : Scan(s) \/ Read(s) \/ Write(s) \/ Notify(s) \/ Dies(s)

RouteSpec == RouteInit /\ [][RouteNext]_routeVars

\* The cron fires every 15 minutes and a sweep works through its candidates.
Fairness ==
    \A s \in Sweeps :
        WF_routeVars(Scan(s)) /\ WF_routeVars(Read(s)) /\ WF_routeVars(Write(s)) /\ WF_routeVars(Notify(s))

FairSpec == RouteSpec /\ Fairness

-----------------------------------------------------------------------------
(* Properties. *)

\* The type invariant.
RouteTypeOK ==
    /\ manager \in [People -> People \union {Nobody}] /\ live \subseteq People /\ away \subseteq People
    /\ hr \subseteq People
    /\ item \in [Items -> [status : {"draft", "open", "decided"}, level : Levels,
                           to : People \union {Nobody}, late : BOOLEAN]]
    /\ \A s \in Sweeps : sweep[s].phase \in {"idle", "reading", "planned", "committed"} /\ sweep[s].todo \subseteq Items

\* The model is well typed; and however sweeps overlap with each other, with
\* decisions and with changes of the organisation, an item is moved to a level
\* at most once and never after it was decided ("two sweeps or a sweep racing
\* a decision can never double-escalate", approval-routing.service.ts:796-798).
LevelsAreReachedOnce ==
    /\ RouteTypeOK
    /\ \A i \in Items :
        /\ \A l \in Levels : rounds[i][l] <= 1
        /\ item[i].status = "decided" => item[i].level = decided[i]

\* Who was told that an item landed with them, and can still review, may decide
\* that submission of it while it is open, also when it has moved on since
\* ("earlier reviewers act when not closed", approval-routing.service.ts:811-814),
\* whatever has become of the reporting lines.  Two people told may not: one
\* told at level 2 whose Owner or HR Admin seat was taken away, before or after
\* the notice; and one told of an earlier submission, since the notice goes out
\* after the commit (approval-escalation.job.ts:294-301) and a rework in between
\* resets the item (timesheet.service.ts:1097-1100).
ToldReviewersMayAct ==
    \A i \in Items : item[i].status = "open" =>
        \A t \in told[i] :
            t.who \in live /\ t.nth = nth[i] => MayAct(t.who, i) \/ (t.level = 2 /\ t.who \notin hr)

Held(i, l) ==
    /\ item[i].status = "open" /\ item[i].level = l
    /\ item[i].late \/ Reviewer(i) \notin live \/ Reviewer(i) \in away

\* An item whose reviewer is late, away or gone does not stay where it is.
HeldItemsMoveOn == \A i \in Items, l \in {0, 1} : Held(i, l) ~> ~Held(i, l)

=============================================================================
