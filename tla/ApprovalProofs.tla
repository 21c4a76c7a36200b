--------------------------- MODULE ApprovalProofs ---------------------------
(***************************************************************************)
(* Proofs about Leave, for every set of requests and reviewers, every set   *)
(* of ranges and every quota: its types, its inductive invariant, the       *)
(* three safety properties and the action property it implies.  Then about  *)
(* Escalation, for any people, lines, items and sweeps: types, levels that  *)
(* are reached once, and reviewers who may do what they were told to do.    *)
(***************************************************************************)
EXTENDS Leave, Escalation, FiniteSetTheorems, TLAPS

-----------------------------------------------------------------------------
(* Leave: the inductive invariant.                                         *)

Asked(r) == request[r].status = "asked"

\* A request takes its days from the board once its apply has checked them.
Takes(r) == Asked(r) \/ InForce(r)

\* Half a day is half of one day; a request that was not made names no day.
RequestsAreReal ==
    \A r \in Requests :
        /\ request[r].half => Cardinality(request[r].days) = 1
        /\ request[r].status = "none" => request[r].days = {}

\* The request whose apply is under way has the lock.
Locked == \A r \in Requests : Asked(r) => applying = r

\* What a reviewer or the employee has open was applied for.
OpenedAreApplied ==
    /\ \A v \in Reviewers : review[v].of = "leave" => request[review[v].r].status \notin {"none", "asked"}
    /\ cancel # Nothing => request[cancel.r].status \notin {"none", "asked"}

\* No row means an empty one; a row nobody punched into is the system's, or a
\* regularized day at work; a regularized row is not the system's.
RowsAreReal ==
    \A d \in Days :
        /\ row[d].status = "none" => row[d] = NoRow
        /\ row[d].source # "system" /\ ~row[d].punched => row[d].status = "present"
        /\ row[d].fixed => row[d].source # "system"

\* The ledger of a tracked type is within the quota, with what the apply under way will add.
WithinQuota ==
    Tracked =>
        /\ balance.pending + balance.used <= Quota
        /\ \A r \in Requests : Asked(r) => balance.pending + balance.used + Cost(r) <= Quota

Disjoint ==
    \A q, r \in Requests \ overtaken :
        q # r /\ Takes(q) /\ Takes(r) => request[q].days \intersect request[r].days = {}

Ledger == Undisturbed => balance = [pending |-> Total("pending"), used |-> Total("approved")]

IInv ==
    /\ TypeOK /\ RequestsAreReal /\ Locked /\ OpenedAreApplied /\ RowsAreReal
    /\ WithinQuota /\ Disjoint /\ Ledger /\ LeaveRowsHaveLeave

-----------------------------------------------------------------------------
(* Counting half days. *)

\* The half days of one request.
Slices(r, days, half) == {x \in {r} \X days \X {1, 2} : half => x[3] = 1}

\* As many days marked with r and h as there are days.
LEMMA MarkedDays ==
  ASSUME NEW r, NEW h, NEW D, IsFiniteSet(D)
  PROVE  LET P == {<<r, d, h>> : d \in D}
         IN IsFiniteSet(P) /\ Cardinality(P) = Cardinality(D)
<1> DEFINE P == {<<r, d, h>> : d \in D}
           f == [d \in D |-> <<r, d, h>>]
<1>1. f \in Surjection(D, P)
  BY DEF Surjection
<1>2. f \in Injection(D, P)
  BY DEF Injection, IsInjective
<1> QED
  BY <1>1, <1>2, FS_Surjection

\* A request takes as many half days as it costs.
LEMMA SlicesCost ==
  ASSUME NEW r, NEW days, IsFiniteSet(days), NEW half \in BOOLEAN, half => Cardinality(days) = 1
  PROVE  /\ IsFiniteSet(Slices(r, days, half))
         /\ Cardinality(Slices(r, days, half)) = IF half THEN 1 ELSE 2 * Cardinality(days)
<1> DEFINE P(h) == {<<r, d, h>> : d \in days}
<1>1. \A h : IsFiniteSet(P(h)) /\ Cardinality(P(h)) = Cardinality(days)
  BY MarkedDays
<1>2. Cardinality(days) \in Nat
  BY FS_CardinalityType
<1>3. CASE half
  <2>1. Slices(r, days, half) = P(1)
    BY <1>3 DEF Slices
  <2> QED
    BY <1>1, <1>3, <2>1
<1>4. CASE ~half
  <2>1. Slices(r, days, half) = P(1) \union P(2)
    BY <1>4 DEF Slices
  <2>2. P(1) \intersect P(2) = {}
    OBVIOUS
  <2>3. IsFiniteSet(P(1)) /\ IsFiniteSet(P(2)) /\ Cardinality(P(1)) = Cardinality(days) /\ Cardinality(P(2)) = Cardinality(days)
    BY <1>1
  <2> HIDE DEF P
  <2>4. Cardinality(P(1) \intersect P(2)) = 0
    BY <2>2, FS_EmptySet
  <2>5. /\ IsFiniteSet(P(1) \union P(2))
        /\ Cardinality(P(1) \union P(2)) = Cardinality(P(1)) + Cardinality(P(2)) - Cardinality(P(1) \intersect P(2))
    BY <2>3, FS_Union
  <2> QED
    BY <1>2, <1>4, <2>1, <2>3, <2>4, <2>5
<1> QED
  BY <1>3, <1>4

\* There are finitely many half days.
LEMMA HalfDaysFinite == \A status : IsFiniteSet(HalfDays(status))
<1> SUFFICES ASSUME NEW status PROVE IsFiniteSet(HalfDays(status))
  OBVIOUS
<1> DEFINE Pairs == Requests \X (Days \X {1, 2})
           f == [x \in HalfDays(status) |-> <<x[1], <<x[2], x[3]>>>>]
<1>1. IsFiniteSet(Days) /\ IsFiniteSet({1, 2})
  <2>1. LastDay \in Int /\ 1 \in Int
    BY LeaveAssumption
  <2>2. IsFiniteSet(1..LastDay)
    BY <2>1, FS_Interval
  <2>3. IsFiniteSet({1}) /\ {1, 2} = {1} \union {2}
    BY FS_Singleton
  <2>4. IsFiniteSet({1} \union {2})
    BY <2>3, FS_AddElement
  <2> QED
    BY <2>2, <2>3, <2>4 DEF Days
<1>2. IsFiniteSet(Days \X {1, 2})
  BY <1>1, FS_Product
<1>3. IsFiniteSet(Pairs)
  BY <1>2, LeaveAssumption, FS_Product
<1>4. f \in Injection(HalfDays(status), Pairs)
  BY DEF HalfDays, Injection, IsInjective
<1> QED
  BY <1>3, <1>4, FS_Injection

\* The total of a status is a number.
LEMMA TotalIsNat == \A status : Total(status) \in Nat
  BY HalfDaysFinite, FS_CardinalityType DEF Total

\* A working day asked for is a day, and there are finitely many.
LEMMA DaysOfRequest ==
  ASSUME TypeOK, NEW r \in Requests
  PROVE  /\ request[r].days \subseteq Days /\ IsFiniteSet(request[r].days)
         /\ Cardinality(request[r].days) \in Nat /\ request[r].half \in BOOLEAN
         /\ Cost(r) \in Nat
<1>1. request[r].days \subseteq Days /\ request[r].half \in BOOLEAN
  BY LeaveAssumption DEF TypeOK
<1>2. IsFiniteSet(Days)
  BY LeaveAssumption, FS_Interval DEF Days
<1>3. IsFiniteSet(request[r].days)
  BY <1>1, <1>2, FS_Subset
<1>4. Cardinality(request[r].days) \in Nat
  BY <1>3, FS_CardinalityType
<1> QED
  BY <1>1, <1>3, <1>4 DEF Cost

\* A request that goes from one status to another takes its half days along.
LEMMA StatusMoved ==
  ASSUME TypeOK, RequestsAreReal, NEW r \in Requests, NEW a, NEW b, a # b,
         request[r].status = a, request' = [request EXCEPT ![r].status = b]
  PROVE  Total(a)' = Total(a) - Cost(r) /\ Total(b)' = Total(b) + Cost(r)
<1> DEFINE S == Slices(r, request[r].days, request[r].half)
<1>1. /\ request[r].days \subseteq Days /\ IsFiniteSet(request[r].days) /\ request[r].half \in BOOLEAN
      /\ request[r].half => Cardinality(request[r].days) = 1
  BY DaysOfRequest DEF RequestsAreReal
<1>2. IsFiniteSet(S) /\ Cardinality(S) = Cost(r)
  BY <1>1, SlicesCost DEF Cost
<1>3. /\ \A q \in Requests : q # r => request'[q] = request[q]
      /\ request'[r].status = b /\ request'[r].days = request[r].days /\ request'[r].half = request[r].half
  BY DEF TypeOK
<1>4. HalfDays(b)' = HalfDays(b) \union S /\ HalfDays(b) \intersect S = {}
  BY <1>1, <1>3 DEF HalfDays, Slices
<1>5. HalfDays(a) = HalfDays(a)' \union S /\ HalfDays(a)' \intersect S = {}
  BY <1>1, <1>3 DEF HalfDays, Slices
<1> HIDE DEF S
<1>7. Total(b)' = Total(b) + Cost(r)
  <2>1. Cardinality(HalfDays(b) \union S) = Cardinality(HalfDays(b)) + Cardinality(S)
                                              - Cardinality(HalfDays(b) \intersect S)
    BY <1>2, HalfDaysFinite, FS_Union
  <2>2. Cardinality(HalfDays(b)) \in Nat
    BY HalfDaysFinite, FS_CardinalityType
  <2> QED
    BY <1>2, <1>4, <2>1, <2>2, FS_EmptySet, DaysOfRequest DEF Total
<1>8. Total(a)' = Total(a) - Cost(r)
  <2>1. IsFiniteSet(HalfDays(a)')
    BY <1>5, HalfDaysFinite, FS_Subset
  <2>2. Cardinality(HalfDays(a)' \union S) = Cardinality(HalfDays(a)') + Cardinality(S)
                                              - Cardinality(HalfDays(a)' \intersect S)
    BY <1>2, <2>1, FS_Union
  <2>3. Cardinality(HalfDays(a)') \in Nat
    BY <2>1, FS_CardinalityType
  <2>4. Cardinality(HalfDays(a)' \intersect S) = 0
    BY <1>5, FS_EmptySet
  <2>5. Cardinality(HalfDays(a)) = Cardinality(HalfDays(a)') + Cost(r) - 0
    BY <1>2, <1>5, <2>2, <2>4
  <2>6. Cost(r) \in Nat
    BY DaysOfRequest
  <2> QED
    BY <2>3, <2>5, <2>6 DEF Total
<1> QED
  BY <1>7, <1>8

\* A total that no request leaves or joins stays.
LEMMA TotalFrame ==
  ASSUME TypeOK, NEW s, NEW r \in Requests,
         \A q \in Requests : q # r => request'[q] = request[q],
         request[r].status # s, request'[r].status # s
  PROVE  Total(s)' = Total(s)
<1>1. HalfDays(s)' = HalfDays(s)
  BY DEF HalfDays
<1> QED
  BY <1>1 DEF Total

-----------------------------------------------------------------------------
(* The attendance row of a day. *)

RowRec == [status : {"none", "on_leave", "half_day", "present", "absent"}, punched : BOOLEAN,
           out : BOOLEAN, fixed : BOOLEAN, source : {"system", "web", "manual"}]

GoodRow(x) ==
    /\ x \in RowRec
    /\ x.status = "none" => x = NoRow
    /\ x.source # "system" /\ ~x.punched => x.status = "present"
    /\ x.fixed => x.source # "system"

\* No punch or regularization is taken back, and of the days somebody worked
\* only one clocked out short becomes leave.
Stands(x, y) ==
    /\ x.punched => y.punched
    /\ x.fixed => y.fixed
    /\ (x.punched \/ x.status \in Worked) /\ x.status # "on_leave" /\ y.status = "on_leave"
       => x.status \in {"half_day", "absent"} /\ ~x.fixed

\* Leave on the row without a punch.
BareLeave(x) == x.status = "on_leave" /\ ~x.punched

\* A leave mark leaves a good row and the work on it, and only a full day is leave.
LEMMA MarkedRow ==
  ASSUME NEW r \in Requests, NEW d \in Days, GoodRow(row[d])
  PROVE  /\ GoodRow(Marked(r, d)) /\ Stands(row[d], Marked(r, d))
         /\ BareLeave(Marked(r, d)) => ~request[r].half \/ BareLeave(row[d])
         /\ Marked(r, d).status = "on_leave" => ~request[r].half \/ row[d].status = "on_leave"
<1> DEFINE s == IF request[r].half THEN "half_day" ELSE "on_leave"
<1>1. s \in {"half_day", "on_leave"} /\ (request[r].half => s = "half_day")
  OBVIOUS
<1> HIDE DEF s
<1>2. CASE row[d].status = "none"
  <2>1. row[d] = NoRow /\ Marked(r, d) = [NoRow EXCEPT !.status = s]
    BY <1>2 DEF GoodRow, Marked, s
  <2>2. Marked(r, d) = [status |-> s, punched |-> FALSE, out |-> FALSE, fixed |-> FALSE, source |-> "system"]
    BY <2>1 DEF NoRow
  <2>3. Marked(r, d) \in RowRec /\ Marked(r, d).status = s /\ Marked(r, d).source = "system"
    BY <1>1, <2>2 DEF RowRec
  <2>4. row[d].status = "none" /\ ~row[d].punched /\ ~row[d].fixed /\ ~Marked(r, d).fixed
    BY <2>1, <2>2 DEF NoRow
  <2> QED
    BY <1>1, <2>3, <2>4 DEF GoodRow, Stands, BareLeave, Worked
<1>3. CASE row[d].status # "none" /\ Marked(r, d) = row[d]
  BY <1>3 DEF GoodRow, Stands, BareLeave, Worked
<1>4. CASE /\ row[d].status # "none" /\ row[d].status \notin Worked /\ (~row[d].fixed \/ request[r].half)
           /\ Marked(r, d) = [row[d] EXCEPT !.status = s]
  <2>1. /\ Marked(r, d).status = s /\ Marked(r, d).punched = row[d].punched /\ Marked(r, d).fixed = row[d].fixed
        /\ Marked(r, d).source = row[d].source /\ Marked(r, d) \in RowRec
    BY <1>1, <1>4 DEF GoodRow, RowRec
  <2>2. row[d].status \in {"on_leave", "half_day", "absent"}
    BY <1>4 DEF GoodRow, RowRec, Worked
  <2> QED
    BY <1>1, <1>4, <2>1, <2>2 DEF GoodRow, Stands, BareLeave, Worked
<1>5. row[d].status # "none" =>
        \/ Marked(r, d) = row[d]
        \/ /\ row[d].status \notin Worked /\ (~row[d].fixed \/ request[r].half)
           /\ Marked(r, d) = [row[d] EXCEPT !.status = s]
  BY Zenon DEF Marked, s
<1> QED
  BY <1>2, <1>3, <1>4, <1>5

\* A row that is released was the system's, without a punch: no leave stays on
\* a day of the request that nobody punched into.
LEMMA ReleasedRow ==
  ASSUME NEW r \in Requests, NEW d \in Days, GoodRow(row[d])
  PROVE  /\ GoodRow(Released(r, d)) /\ Stands(row[d], Released(r, d))
         /\ BareLeave(Released(r, d)) => BareLeave(row[d]) /\ d \notin request[r].days
<1>1. Released(r, d) = NoRow \/ Released(r, d) = row[d]
  BY DEF Released
<1>2. GoodRow(NoRow) /\ ~BareLeave(NoRow)
  BY DEF GoodRow, NoRow, RowRec, BareLeave
<1>3. CASE Released(r, d) = NoRow /\ Released(r, d) # row[d]
  <2>1. ~row[d].punched /\ row[d].source = "system"
    BY <1>3 DEF Released
  <2>2. ~row[d].fixed
    BY <2>1 DEF GoodRow
  <2>3. NoRow.status = "none"
    BY DEF NoRow
  <2> QED
    BY <1>2, <1>3, <2>1, <2>2, <2>3 DEF Stands
<1>4. CASE Released(r, d) = row[d]
  <2>1. Stands(row[d], row[d])
    BY DEF Stands, Worked
  <2>2. ASSUME BareLeave(row[d]), d \in request[r].days PROVE FALSE
    BY <1>4, <2>2 DEF Released, BareLeave, GoodRow, NoRow
  <2> QED
    BY <1>4, <2>1, <2>2
<1> QED
  BY <1>1, <1>2, <1>3, <1>4

\* Today is one of the days.
LEMMA TodayIsADay == TypeOK => today \in Days
  BY LeaveAssumption DEF TypeOK, Days

\* No step leaves a row unreal or takes back work.
LEMMA RowsStep ==
  ASSUME TypeOK, RowsAreReal, [Next]_vars
  PROVE  /\ row' \in [Days -> RowRec] /\ RowsAreReal'
         /\ \A d \in Days : Stands(row[d], row'[d])
<1>1. row \in [Days -> RowRec] /\ \A d \in Days : GoodRow(row[d])
  BY DEF TypeOK, RowsAreReal, GoodRow, RowRec
<1> SUFFICES /\ row' \in [Days -> RowRec]
             /\ \A d \in Days : GoodRow(row'[d]) /\ Stands(row[d], row'[d])
  BY DEF RowsAreReal, GoodRow
<1>2. \A x : Stands(x, x)
  BY DEF Stands, Worked
<1>3. CASE UNCHANGED row
  BY <1>1, <1>2, <1>3
<1> DEFINE Goal == row' \in [Days -> RowRec] /\ \A d \in Days : GoodRow(row'[d]) /\ Stands(row[d], row'[d])
<1>4. ASSUME NEW y, NEW e \in Days, row' = [row EXCEPT ![e] = y], GoodRow(y), Stands(row[e], y)
      PROVE  Goal
  <2>1. row'[e] = y /\ \A d \in Days : d # e => row'[d] = row[d]
    BY <1>1, <1>4
  <2>2. row' \in [Days -> RowRec]
    BY <1>1, <1>4 DEF GoodRow
  <2> QED
    BY <1>1, <1>2, <1>4, <2>1, <2>2
<1>5. ASSUME NEW v \in Reviewers, Approve(v) PROVE Goal
  <2> DEFINE r == review[v].r
  <2>1. r \in Requests
    BY <1>5 DEF Approve, TypeOK, Nothing
  <2>2. row' = [d \in Days |-> IF d \in request[r].days THEN Marked(r, d) ELSE row[d]]
    BY <1>5 DEF Approve
  <2> HIDE DEF r
  <2>3. \A d \in Days : GoodRow(row'[d]) /\ Stands(row[d], row'[d])
    BY <1>1, <1>2, <2>1, <2>2, MarkedRow
  <2> QED
    BY <2>2, <2>3 DEF GoodRow
<1>6. ASSUME Cancel PROVE Goal
  <2> DEFINE r == cancel.r
  <2>1. r \in Requests
    BY <1>6 DEF Cancel, TypeOK
  <2>2. row' = [d \in Days |-> Released(r, d)] \/ UNCHANGED row
    BY <1>6 DEF Cancel
  <2> HIDE DEF r
  <2>3. CASE row' = [d \in Days |-> Released(r, d)]
    <3>1. \A d \in Days : GoodRow(row'[d]) /\ Stands(row[d], row'[d])
      BY <1>1, <2>1, <2>3, ReleasedRow
    <3> QED
      BY <2>3, <3>1 DEF GoodRow
  <2> QED
    BY <1>3, <2>2, <2>3
<1>7. ASSUME PunchIn PROVE Goal
  <2> DEFINE x == row[today]
             s == IF punch.half THEN "half_day" ELSE "present"
             y == IF x.punched THEN x ELSE [x EXCEPT !.punched = TRUE, !.source = "web", !.status = s]
  <2>1. row' = [row EXCEPT ![today] = y] \/ UNCHANGED row
    BY <1>7 DEF PunchIn
  <2>2. GoodRow(x) /\ today \in Days
    BY <1>1, TodayIsADay
  <2>3. s \in {"half_day", "present"}
    OBVIOUS
  <2> HIDE DEF x, s
  <2>4. CASE x.punched
    BY <1>3, <1>4, <2>1, <2>2, <2>4, <1>2 DEF x
  <2>5. CASE ~x.punched
    <3>1. y \in RowRec /\ y.status = s /\ y.punched /\ y.fixed = x.fixed /\ y.source = "web"
      BY <2>2, <2>3, <2>5 DEF GoodRow, RowRec
    <3>2. GoodRow(y) /\ Stands(x, y)
      BY <2>3, <3>1 DEF GoodRow, Stands
    <3> QED
      BY <1>3, <1>4, <2>1, <2>2, <3>2 DEF x
  <2> QED
    BY <2>4, <2>5
<1>8. ASSUME PunchOut PROVE Goal
  <2> DEFINE x == row[today]
  <2>1. PICK s \in {"present", "half_day", "absent"} :
          row' = [row EXCEPT ![today].out = TRUE, ![today].status = s]
    BY <1>8 DEF PunchOut
  <2> DEFINE y == [x EXCEPT !.out = TRUE, !.status = s]
  <2>2. GoodRow(x) /\ today \in Days /\ x.punched
    BY <1>1, <1>8, TodayIsADay DEF PunchOut
  <2>3. row' = [row EXCEPT ![today] = y]
    BY <1>1, <2>1, <2>2
  <2>4. y \in RowRec /\ y.status = s /\ y.punched /\ y.fixed = x.fixed /\ y.source = x.source
    BY <2>1, <2>2 DEF GoodRow, RowRec
  <2>5. s # "on_leave" /\ s # "none"
    BY <2>1
  <2> HIDE DEF x, y
  <2>6. GoodRow(y) /\ Stands(x, y)
    BY <2>2, <2>4, <2>5 DEF GoodRow, Stands
  <2> QED
    BY <1>4, <2>2, <2>3, <2>6 DEF x
<1>9. ASSUME NEW v \in Reviewers, NEW status, NEW in \in BOOLEAN, NEW out \in BOOLEAN, Regularize(v, status, in, out)
      PROVE  Goal
  <2> DEFINE e == review[v].d
             x == row[e]
             y == [status |-> "present", punched |-> x.punched \/ in, out |-> x.out \/ out,
                   fixed |-> TRUE, source |-> "manual"]
  <2>1. e \in Days
    BY <1>9 DEF Regularize, TypeOK, Nothing
  <2>2. row' = row \/ row' = [row EXCEPT ![e] = y]
    BY <1>9 DEF Regularize
  <2>3. GoodRow(x)
    BY <1>1, <2>1
  <2>4. GoodRow(y) /\ Stands(x, y)
    BY <2>3 DEF GoodRow, RowRec, Stands
  <2> HIDE DEF y
  <2> QED
    BY <1>3, <1>4, <2>1, <2>2, <2>4
<1>10. ASSUME NextDay \/ OpenPunch PROVE Goal
  BY <1>3, <1>10 DEF NextDay, OpenPunch
<1>11. ASSUME NEW r \in Requests,
              (\E days \in Ranges, half \in BOOLEAN : CheckApply(r, days, half)) \/ Apply(r) \/ OpenCancel(r)
       PROVE  Goal
  BY <1>3, <1>11 DEF CheckApply, Apply, OpenCancel
<1>12. ASSUME NEW v \in Reviewers,
              (\E r \in Requests : OpenLeave(v, r)) \/ (\E d \in Days : OpenRegularization(v, d)) \/ Reject(v)
       PROVE  Goal
  BY <1>3, <1>12 DEF OpenLeave, OpenRegularization, Reject
<1>13. ASSUME NEW d \in Days, AskRegularization(d) PROVE Goal
  BY <1>3, <1>13 DEF AskRegularization
<1>14. ASSUME UNCHANGED vars PROVE Goal
  BY <1>3, <1>14 DEF vars
<1> HIDE DEF Goal
<1>15. ASSUME NEW v \in Reviewers,
              \E status \in {"approved", "rejected"}, in, out \in BOOLEAN : Regularize(v, status, in, out)
       PROVE  Goal
  BY <1>9, <1>15
<1>16. ASSUME Next PROVE Goal
  <2>1. CASE \E r \in Requests :
            (\E days \in Ranges, half \in BOOLEAN : CheckApply(r, days, half)) \/ Apply(r) \/ OpenCancel(r)
    BY <1>11, <2>1
  <2>2. ASSUME NEW v \in Reviewers,
               \/ (\E r \in Requests : OpenLeave(v, r)) \/ (\E d \in Days : OpenRegularization(v, d))
               \/ Approve(v) \/ Reject(v)
               \/ \E status \in {"approved", "rejected"}, in, out \in BOOLEAN : Regularize(v, status, in, out)
        PROVE  Goal
    BY <1>5, <1>12, <1>15, <2>2
  <2> QED
    BY <1>6, <1>7, <1>8, <1>10, <1>13, <1>16, <2>1, <2>2 DEF Next
<1> QED
  BY <1>14, <1>16 DEF Goal

-----------------------------------------------------------------------------
(* Types. *)

RequestRec == [status : {"none", "asked", "pending", "approved", "rejected", "cancelled"},
               days : Ranges \union {{}}, half : BOOLEAN]
ReviewRec == {Nothing} \union [of : {"leave"}, r : Requests] \union [of : {"day"}, d : Days]
CancelRec == {Nothing} \union [of : {"leave"}, r : Requests, read : {"pending", "approved"}]
PunchRec == {Nothing} \union [of : {"day"}, half : BOOLEAN, exists : BOOLEAN]

\* TypeOK but for the rows.
Typed ==
    /\ request \in [Requests -> RequestRec]
    /\ balance \in [pending : Int, used : Int]
    /\ reg \subseteq Days
    /\ today \in 1..Horizon
    /\ applying \in Requests \union {NoRequest}
    /\ review \in [Reviewers -> ReviewRec]
    /\ cancel \in CancelRec
    /\ punch \in PunchRec
    /\ overtaken \subseteq Requests \union Days

\* The parts of TypeOK.
LEMMA TypeParts == TypeOK <=> Typed /\ row \in [Days -> RowRec]
  BY DEF TypeOK, Typed, RequestRec, RowRec, ReviewRec, CancelRec, PunchRec

\* A reviewer who has a leave request open has one of the requests.
LEMMA OpenedIsRequest ==
  ASSUME TypeOK, NEW v \in Reviewers, review[v].of = "leave"
  PROVE  review[v].r \in Requests
  BY DEF TypeOK, Nothing

\* So has the employee who is cancelling.
LEMMA CancelIsRequest ==
  ASSUME TypeOK, cancel # Nothing
  PROVE  cancel.r \in Requests /\ cancel.read \in {"pending", "approved"}
  BY DEF TypeOK

\* A new status leaves the request typed.
LEMMA SettleTyped ==
  ASSUME Typed, NEW r \in Requests, NEW read, NEW b \in {"approved", "rejected", "cancelled"}, Settle(r, read, b)
  PROVE  request' \in [Requests -> RequestRec] /\ overtaken' \subseteq Requests \union Days
<1>1. [request[r] EXCEPT !.status = b] \in RequestRec
  BY DEF Typed, RequestRec
<1> QED
  BY <1>1 DEF Typed, Settle

\* The model starts typed.
LEMMA InitTypeOK == Init => TypeOK
  BY LeaveAssumption DEF Init, TypeOK, NoRow, Days

\* Every step keeps the types.
LEMMA TypeStep ==
  ASSUME TypeOK, RowsAreReal, [Next]_vars
  PROVE  TypeOK'
<1>1. Typed /\ row' \in [Days -> RowRec]
  BY TypeParts, RowsStep
<1>2. ASSUME Typed' PROVE TypeOK'
  BY <1>1, <1>2 DEF TypeOK, Typed, RequestRec, RowRec, ReviewRec, CancelRec, PunchRec
<1>3. Nothing \in ReviewRec /\ Nothing \in CancelRec /\ Nothing \in PunchRec
  BY DEF ReviewRec, CancelRec, PunchRec
<1>4. \A r \in Requests : Cost(r) \in Nat
  BY DaysOfRequest
<1>5. ASSUME NextDay PROVE Typed'
  BY <1>1, <1>5, LeaveAssumption DEF NextDay, Typed, Days
<1>6. ASSUME NEW r \in Requests, NEW days \in Ranges, NEW half \in BOOLEAN, CheckApply(r, days, half)
      PROVE  Typed'
  <2>1. [status |-> "asked", days |-> days, half |-> half] \in RequestRec
    BY DEF RequestRec
  <2> QED
    BY <1>1, <1>6, <2>1 DEF CheckApply, Typed
<1>7. ASSUME NEW r \in Requests, Apply(r) PROVE Typed'
  <2>1. [request[r] EXCEPT !.status = "pending"] \in RequestRec
    BY <1>1 DEF Typed, RequestRec
  <2>2. [balance EXCEPT !.pending = @ + Cost(r)] \in [pending : Int, used : Int]
    BY <1>1, <1>4 DEF Typed
  <2> QED
    BY <1>1, <1>7, <2>1, <2>2 DEF Apply, Typed
<1>8. ASSUME NEW r \in Requests, OpenCancel(r) PROVE Typed'
  <2>1. [of |-> "leave", r |-> r, read |-> request[r].status] \in CancelRec
    BY <1>8 DEF OpenCancel, InForce, CancelRec
  <2> QED
    BY <1>1, <1>8, <2>1 DEF OpenCancel, Typed
<1>9. ASSUME Cancel PROVE Typed'
  <2>1. cancel.r \in Requests
    BY <1>9, CancelIsRequest DEF Cancel
  <2>2. request' \in [Requests -> RequestRec] /\ overtaken' \subseteq Requests \union Days
    BY <1>1, <1>9, <2>1, SettleTyped DEF Cancel
  <2>3. balance' \in [pending : Int, used : Int]
    BY <1>1, <1>4, <1>9, <2>1 DEF Cancel, Typed
  <2> QED
    BY <1>1, <1>3, <1>9, <2>2, <2>3 DEF Cancel, Typed
<1>10. ASSUME NEW v \in Reviewers, NEW r \in Requests, OpenLeave(v, r) PROVE Typed'
  <2>1. [of |-> "leave", r |-> r] \in ReviewRec
    BY DEF ReviewRec
  <2> QED
    BY <1>1, <1>10, <2>1 DEF OpenLeave, Typed
<1>11. ASSUME NEW v \in Reviewers, NEW d \in Days, OpenRegularization(v, d) PROVE Typed'
  <2>1. [of |-> "day", d |-> d] \in ReviewRec
    BY DEF ReviewRec
  <2> QED
    BY <1>1, <1>11, <2>1 DEF OpenRegularization, Typed
<1>12. ASSUME NEW v \in Reviewers, Approve(v) \/ Reject(v) PROVE Typed'
  <2>1. review[v].r \in Requests
    BY <1>12, OpenedIsRequest DEF Approve, Reject
  <2>2. request' \in [Requests -> RequestRec] /\ overtaken' \subseteq Requests \union Days
    BY <1>1, <1>12, <2>1, SettleTyped DEF Approve, Reject
  <2>3. balance' \in [pending : Int, used : Int]
    <3> DEFINE n == Cost(review[v].r)
    <3>1. n \in Int
      BY <1>4, <2>1
    <3>2. \/ balance' = [balance EXCEPT !.pending = @ - n, !.used = @ + n]
          \/ balance' = [balance EXCEPT !.pending = @ - n]
      BY <1>12 DEF Approve, Reject
    <3> HIDE DEF n
    <3>3. balance.pending - n \in Int /\ balance.used + n \in Int /\ balance \in [pending : Int, used : Int]
      BY <1>1, <3>1 DEF Typed
    <3>4. [balance EXCEPT !.pending = balance.pending - n] \in [pending : Int, used : Int]
      BY <3>3
    <3>5. [balance EXCEPT !.pending = balance.pending - n, !.used = balance.used + n] \in [pending : Int, used : Int]
      BY <3>3
    <3> QED
      BY <3>2, <3>4, <3>5
  <2>4. review' = [review EXCEPT ![v] = Nothing] /\ UNCHANGED <<reg, today, applying, cancel, punch>>
    BY <1>12 DEF Approve, Reject
  <2> QED
    BY <1>1, <1>3, <2>2, <2>3, <2>4 DEF Typed
<1>13. ASSUME NEW v \in Reviewers,
              \E status \in {"approved", "rejected"}, in, out \in BOOLEAN : Regularize(v, status, in, out)
       PROVE  Typed'
  <2>1. review[v].d \in Days
    BY <1>13 DEF Regularize, TypeOK, Nothing
  <2> QED
    BY <1>1, <1>3, <1>13, <2>1 DEF Regularize, Typed
<1>14. ASSUME NEW d \in Days, AskRegularization(d) PROVE Typed'
  BY <1>1, <1>14 DEF AskRegularization, Typed
<1>15. ASSUME OpenPunch PROVE Typed'
  <2>1. \A half, exists \in BOOLEAN : [of |-> "day", half |-> half, exists |-> exists] \in PunchRec
    BY DEF PunchRec
  <2>2. OnHalfDay(today) \in BOOLEAN /\ (row[today].status # "none") \in BOOLEAN
    BY DEF OnHalfDay
  <2>3. punch' \in PunchRec
    BY Zenon, <1>15, <2>1, <2>2 DEF OpenPunch
  <2> QED
    BY <1>1, <1>15, <2>3 DEF OpenPunch, Typed
<1>16. ASSUME PunchIn \/ PunchOut PROVE Typed'
  BY <1>1, <1>3, <1>16 DEF PunchIn, PunchOut, Typed
<1>17. ASSUME UNCHANGED vars PROVE Typed'
  BY <1>1, <1>17 DEF Typed, vars
<1>18. ASSUME Next PROVE Typed'
  BY Zenon, <1>5, <1>6, <1>7, <1>8, <1>9, <1>10, <1>11, <1>12, <1>13, <1>14, <1>15, <1>16, <1>18 DEF Next
<1> QED
  BY <1>2, <1>17, <1>18

-----------------------------------------------------------------------------
(* Requests, the ledger and the lock. *)

Books == RequestsAreReal /\ Locked /\ WithinQuota /\ Disjoint /\ Ledger

\* A step that touches neither requests, ledger nor lock keeps the books.
LEMMA BooksFrame ==
  ASSUME Books, UNCHANGED <<request, balance, applying>>, overtaken \subseteq overtaken'
  PROVE  Books'
<1>1. \A s : Total(s)' = Total(s)
  BY DEF Total, HalfDays
<1>2. RequestsAreReal' /\ Locked' /\ WithinQuota'
  BY DEF Books, RequestsAreReal, Locked, WithinQuota, Tracked, Asked, Cost
<1>3. Disjoint'
  BY DEF Books, Disjoint, Takes, Asked, InForce
<1>4. Ledger'
  BY <1>1 DEF Books, Ledger, Undisturbed
<1> QED
  BY <1>2, <1>3, <1>4 DEF Books

\* The board keeps its rows covered when no request and no bare leave is new.
LEMMA BoardFrame ==
  ASSUME LeaveRowsHaveLeave, UNCHANGED request, overtaken \subseteq overtaken',
         \A d \in Days : BareLeave(row'[d]) => BareLeave(row[d])
  PROVE  LeaveRowsHaveLeave'
  BY DEF LeaveRowsHaveLeave, BareLeave, OnLeave, Excused

\* A check under the lock finds room for what it asks.
LEMMA CheckApplyBooks ==
  ASSUME IInv, NEW r \in Requests, NEW days \in Ranges, NEW half \in BOOLEAN, CheckApply(r, days, half)
  PROVE  Books' /\ OpenedAreApplied' /\ LeaveRowsHaveLeave'
<1> DEFINE e == [status |-> "asked", days |-> days, half |-> half]
<1>1. /\ request' = [request EXCEPT ![r] = e] /\ applying' = r
      /\ request[r].status = "none" /\ applying = NoRequest
      /\ UNCHANGED <<balance, row, review, cancel, overtaken>>
  BY DEF CheckApply
<1>2. /\ request \in [Requests -> RequestRec] /\ request'[r] = e
      /\ \A q \in Requests : q # r => request'[q] = request[q]
  BY <1>1, TypeParts DEF IInv, Typed
<1>3. \A q \in Requests : ~Asked(q)
  BY <1>1, LeaveAssumption DEF IInv, Locked
<1>4. RequestsAreReal' /\ Locked'
  BY <1>1, <1>2, <1>3 DEF CheckApply, IInv, RequestsAreReal, Locked, Asked
<1>5. WithinQuota'
  <2> SUFFICES ASSUME Tracked PROVE WithinQuota'
    BY DEF WithinQuota, Tracked
  <2>1. balance.pending + balance.used <= Quota /\ balance.pending \in Int /\ balance.used \in Int /\ Quota \in Int
    BY LeaveAssumption DEF IInv, WithinQuota, TypeOK
  <2>2. Cost(r)' \in Nat /\ Cost(r)' <= Quota - balance.used - balance.pending
    <3>1. Cost(r)' = IF half THEN 1 ELSE 2 * Cardinality(days)
      BY <1>2 DEF Cost
    <3>2. IsFiniteSet(Days) /\ days \subseteq Days
      BY LeaveAssumption, FS_Interval DEF Days
    <3>3. Cardinality(days) \in Nat
      BY <3>2, FS_Subset, FS_CardinalityType
    <3> QED
      BY <3>1, <3>3 DEF CheckApply, WithinBalance
  <2>3. \A q \in Requests : Asked(q)' => q = r
    BY <1>2, <1>3 DEF Asked
  <2> QED
    BY <1>1, <2>1, <2>2, <2>3 DEF WithinQuota, Tracked
<1>6. Disjoint'
  <2>1. \A q \in Requests : InForce(q) => request[q].days \intersect days = {}
    BY DEF CheckApply, Overlaps
  <2>2. \A q \in Requests : q # r => (Takes(q)' <=> InForce(q)) /\ request'[q].days = request[q].days
    BY <1>2, <1>3 DEF Takes, Asked, InForce
  <2>3. \A q, x \in Requests \ overtaken : q # x /\ InForce(q) /\ InForce(x) =>
                                               request[q].days \intersect request[x].days = {}
    BY DEF IInv, Disjoint, Takes
  <2>4. overtaken' = overtaken
    BY <1>1
  <2>5. request'[r].days = days
    BY <1>2
  <2>6. ASSUME NEW q \in Requests, NEW x \in Requests, q \notin overtaken', x \notin overtaken', q # x,
               Takes(q)', Takes(x)'
        PROVE  request'[q].days \intersect request'[x].days = {}
    <3>1. CASE q = r
      BY <2>1, <2>2, <2>5, <2>6, <3>1
    <3>2. CASE x = r
      BY <2>1, <2>2, <2>5, <2>6, <3>2
    <3>3. CASE q # r /\ x # r
      BY <2>2, <2>3, <2>4, <2>6, <3>3
    <3> QED
      BY <3>1, <3>2, <3>3
  <2> QED
    BY <2>6 DEF Disjoint
<1>7. Ledger'
  <2>1. request'[r].status = "asked"
    BY <1>2
  <2>2. Total("pending")' = Total("pending")
    BY <1>1, <1>2, <2>1, TotalFrame DEF IInv
  <2>3. Total("approved")' = Total("approved")
    BY <1>1, <1>2, <2>1, TotalFrame DEF IInv
  <2> QED
    BY <1>1, <2>2, <2>3 DEF IInv, Ledger, Undisturbed
<1>8. OpenedAreApplied'
  BY <1>1, <1>2 DEF IInv, OpenedAreApplied
<1>9. LeaveRowsHaveLeave'
  <2>1. request[r].days = {}
    BY <1>1 DEF IInv, RequestsAreReal
  <2>2. \A d \in Days : OnLeave(d) => OnLeave(d)'
    BY <1>1, <1>2 DEF OnLeave
  <2>3. \A d \in Days : Excused(d) => Excused(d)'
    BY <1>1, <1>2, <2>1 DEF Excused
  <2> QED
    BY <1>1, <2>2, <2>3 DEF IInv, LeaveRowsHaveLeave
<1> QED
  BY <1>4, <1>5, <1>6, <1>7, <1>8, <1>9 DEF Books

\* The apply that had the lock adds what it checked.
LEMMA ApplyBooks ==
  ASSUME IInv, NEW r \in Requests, Apply(r)
  PROVE  Books' /\ OpenedAreApplied' /\ LeaveRowsHaveLeave'
<1>1. /\ request' = [request EXCEPT ![r].status = "pending"] /\ request[r].status = "asked"
      /\ balance' = [balance EXCEPT !.pending = @ + Cost(r)] /\ applying' = NoRequest
      /\ UNCHANGED <<row, review, cancel, overtaken>>
  BY DEF Apply
<1>2. /\ request \in [Requests -> RequestRec]
      /\ \A q \in Requests : q # r => request'[q] = request[q]
      /\ request'[r].status = "pending" /\ request'[r].days = request[r].days /\ request'[r].half = request[r].half
  BY <1>1, TypeParts DEF IInv, Typed, RequestRec
<1>3. \A q \in Requests : ~Asked(q)'
  BY <1>1, <1>2 DEF IInv, Locked, Asked
<1>4. RequestsAreReal' /\ Locked'
  BY <1>2, <1>3 DEF IInv, RequestsAreReal, Locked
<1>5. balance \in [pending : Int, used : Int] /\ Cost(r) \in Nat
  BY TypeParts, DaysOfRequest DEF IInv, Typed
<1>6. balance' = [pending |-> balance.pending + Cost(r), used |-> balance.used]
  BY <1>1, <1>5
<1>7. WithinQuota'
  <2> SUFFICES ASSUME Tracked PROVE WithinQuota'
    BY DEF WithinQuota, Tracked
  <2>1. balance.pending + balance.used + Cost(r) <= Quota
    BY <1>1 DEF IInv, WithinQuota, Asked
  <2> QED
    BY <1>3, <1>5, <1>6, <2>1, LeaveAssumption DEF WithinQuota
<1>8. Disjoint'
  <2>1. \A q \in Requests : (Takes(q)' <=> Takes(q)) /\ request'[q].days = request[q].days
    BY <1>1, <1>2 DEF Takes, Asked, InForce
  <2>2. overtaken' = overtaken
    BY <1>1
  <2>3. Disjoint
    BY DEF IInv
  <2> QED
    BY <2>1, <2>2, <2>3 DEF Disjoint
<1>9. Ledger'
  <2>1. Total("pending")' = Total("pending") + Cost(r)
    BY <1>1, StatusMoved DEF IInv
  <2>2. Total("approved")' = Total("approved")
    BY <1>1, <1>2, TotalFrame DEF IInv
  <2> QED
    BY <1>1, <1>5, <1>6, <2>1, <2>2 DEF IInv, Ledger, Undisturbed
<1>10. OpenedAreApplied'
  BY <1>1, <1>2 DEF IInv, OpenedAreApplied
<1>11. LeaveRowsHaveLeave'
  BY <1>1, <1>2 DEF IInv, LeaveRowsHaveLeave, OnLeave, Excused
<1> QED
  BY <1>4, <1>7, <1>8, <1>9, <1>10, <1>11 DEF Books

\* A decision on a request that was applied for: unless it overtakes another,
\* the request is still what was read.
LEMMA SettleBooks ==
  ASSUME IInv, NEW r \in Requests, NEW read \in {"pending", "approved"},
         NEW b \in {"approved", "rejected", "cancelled"}, Settle(r, read, b),
         request[r].status \notin {"none", "asked"}
  PROVE  /\ RequestsAreReal' /\ Disjoint'
         /\ Undisturbed' => Undisturbed
         /\ overtaken \subseteq overtaken' /\ (r \notin overtaken' => request[r].status = read)
         /\ request' = [request EXCEPT ![r].status = b]
         /\ request'[r].status = b /\ request'[r].days = request[r].days /\ request'[r].half = request[r].half
         /\ \A q \in Requests : q # r => request'[q] = request[q]
         /\ \A q \in Requests : (Asked(q)' <=> Asked(q)) /\ Cost(q)' = Cost(q)
<1>1. request' = [request EXCEPT ![r].status = b]
  BY DEF Settle
<1>2. /\ \A q \in Requests : q # r => request'[q] = request[q]
      /\ request'[r].status = b /\ request'[r].days = request[r].days /\ request'[r].half = request[r].half
  BY <1>1, TypeParts DEF IInv, Typed, RequestRec
<1>3. \A q \in Requests : (Asked(q)' <=> Asked(q)) /\ Cost(q)' = Cost(q)
  BY <1>2 DEF Asked, Cost
<1>4. RequestsAreReal'
  BY <1>2 DEF IInv, RequestsAreReal
<1>5. /\ Undisturbed' => Undisturbed
      /\ overtaken \subseteq overtaken' /\ (r \notin overtaken' => request[r].status = read)
  BY DEF Settle, Undisturbed
<1>6. Disjoint'
  <2>1. Disjoint
    BY DEF IInv
  <2>2. \A q \in Requests : request'[q].days = request[q].days
    BY <1>2
  <2>3. \A q \in Requests \ overtaken' : q \notin overtaken /\ (Takes(q)' => Takes(q))
    BY <1>2, <1>5 DEF Takes, Asked, InForce
  <2> QED
    BY <1>5, <2>1, <2>2, <2>3 DEF Disjoint
<1> QED
  BY <1>1, <1>2, <1>3, <1>4, <1>5, <1>6

\* What others have open stays applied for.
LEMMA SettleOpened ==
  ASSUME IInv, NEW r \in Requests, NEW b \in {"approved", "rejected", "cancelled"},
         request'[r].status = b, \A q \in Requests : q # r => request'[q] = request[q],
         \A v \in Reviewers : review'[v] = review[v] \/ review'[v] = Nothing,
         cancel' = cancel \/ cancel' = Nothing
  PROVE  OpenedAreApplied'
<1>1. \A q \in Requests : request[q].status \notin {"none", "asked"} => request'[q].status \notin {"none", "asked"}
  OBVIOUS
<1>2. \A v \in Reviewers : review[v].of = "leave" => review[v].r \in Requests
  BY OpenedIsRequest DEF IInv
<1>3. cancel # Nothing => cancel.r \in Requests
  BY CancelIsRequest DEF IInv
<1>4. OpenedAreApplied
  BY DEF IInv
<1>5. ASSUME NEW v \in Reviewers, review'[v].of = "leave" PROVE request'[review'[v].r].status \notin {"none", "asked"}
  BY <1>1, <1>2, <1>4, <1>5 DEF OpenedAreApplied, Nothing
<1>6. cancel' # Nothing => request'[cancel'.r].status \notin {"none", "asked"}
  BY <1>1, <1>3, <1>4 DEF OpenedAreApplied
<1> QED
  BY <1>5, <1>6 DEF OpenedAreApplied

\* The half days of an approved request go from pending to used, and its days
\* are marked.
LEMMA ApproveBooks ==
  ASSUME IInv, NEW v \in Reviewers, Approve(v)
  PROVE  Books' /\ OpenedAreApplied' /\ LeaveRowsHaveLeave'
<1> DEFINE r == review[v].r
<1>1. /\ Settle(r, "pending", "approved")
      /\ balance' = [balance EXCEPT !.pending = @ - Cost(r), !.used = @ + Cost(r)]
      /\ row' = [d \in Days |-> IF d \in request[r].days THEN Marked(r, d) ELSE row[d]]
      /\ review' = [review EXCEPT ![v] = Nothing] /\ UNCHANGED <<applying, cancel>>
      /\ review[v].of = "leave"
  BY DEF Approve
<1>2. r \in Requests /\ request[r].status \notin {"none", "asked"}
  BY <1>1, OpenedIsRequest DEF IInv, OpenedAreApplied
<1> HIDE DEF r
<1>3. /\ RequestsAreReal' /\ Disjoint'
      /\ Undisturbed' => Undisturbed
      /\ overtaken \subseteq overtaken' /\ (r \notin overtaken' => request[r].status = "pending")
      /\ request' = [request EXCEPT ![r].status = "approved"]
      /\ request'[r].status = "approved" /\ request'[r].days = request[r].days /\ request'[r].half = request[r].half
      /\ \A q \in Requests : q # r => request'[q] = request[q]
      /\ \A q \in Requests : (Asked(q)' <=> Asked(q)) /\ Cost(q)' = Cost(q)
  BY <1>1, <1>2, SettleBooks
<1>4. balance \in [pending : Int, used : Int] /\ Cost(r) \in Nat
  BY <1>2, TypeParts, DaysOfRequest DEF IInv, Typed
<1>5. balance' = [pending |-> balance.pending - Cost(r), used |-> balance.used + Cost(r)]
  BY <1>1, <1>4
<1>6. Locked'
  BY <1>1, <1>3 DEF IInv, Locked
<1>7. WithinQuota'
  <2>1. balance'.pending + balance'.used = balance.pending + balance.used
    BY <1>4, <1>5
  <2> QED
    BY <1>3, <2>1 DEF IInv, WithinQuota, Tracked
<1>8. Ledger'
  <2>1. ASSUME Undisturbed' PROVE balance' = [pending |-> Total("pending")', used |-> Total("approved")']
    <3>1. balance.pending = Total("pending") /\ balance.used = Total("approved") /\ request[r].status = "pending"
      BY <1>2, <1>3, <2>1 DEF IInv, Ledger, Undisturbed
    <3>2. Total("pending")' = Total("pending") - Cost(r)
      BY <1>2, <1>3, <3>1, StatusMoved DEF IInv
    <3>3. Total("approved")' = Total("approved") + Cost(r)
      BY <1>2, <1>3, <3>1, StatusMoved DEF IInv
    <3> QED
      BY <1>5, <3>1, <3>2, <3>3
  <2> QED
    BY <2>1 DEF Ledger
<1>9. OpenedAreApplied'
  <2>1. \A w \in Reviewers : review'[w] = review[w] \/ review'[w] = Nothing
    BY <1>1, TypeParts DEF IInv, Typed
  <2> QED
    BY <1>1, <1>2, <1>3, <2>1, SettleOpened
<1>10. LeaveRowsHaveLeave'
  <2> SUFFICES ASSUME NEW d \in Days, BareLeave(row'[d]), ~Excused(d)'
               PROVE  OnLeave(d)'
    BY DEF LeaveRowsHaveLeave, BareLeave
  <2>1. ~Excused(d) /\ (d \in request[r].days => request[r].status = "pending")
    BY <1>2, <1>3 DEF Excused
  <2>2. \A q \in Requests : request[q].status = "approved" /\ d \in request[q].days => request'[q] = request[q]
    BY <1>3, <2>1
  <2>3. GoodRow(row[d])
    BY TypeParts DEF IInv, RowsAreReal, GoodRow
  <2>4. CASE d \in request[r].days /\ ~request[r].half
    BY <1>2, <1>3, <2>4 DEF OnLeave
  <2>5. CASE BareLeave(row[d])
    <3>1. PICK q \in Requests : request[q].status = "approved" /\ d \in request[q].days /\ ~request[q].half
      BY <2>1, <2>5 DEF IInv, LeaveRowsHaveLeave, BareLeave, OnLeave
    <3> QED
      BY <2>2, <3>1 DEF OnLeave
  <2>6. CASE d \notin request[r].days
    BY <1>1, <2>5, <2>6
  <2>7. CASE d \in request[r].days /\ request[r].half
    BY <1>1, <1>2, <2>3, <2>5, <2>7, MarkedRow
  <2> QED
    BY <2>4, <2>6, <2>7
<1> QED
  BY <1>3, <1>6, <1>7, <1>8, <1>9, <1>10 DEF Books

\* The half days of a rejected request are pending no more.
LEMMA RejectBooks ==
  ASSUME IInv, NEW v \in Reviewers, Reject(v)
  PROVE  Books' /\ OpenedAreApplied' /\ LeaveRowsHaveLeave'
<1> DEFINE r == review[v].r
<1>1. /\ Settle(r, "pending", "rejected")
      /\ balance' = [balance EXCEPT !.pending = @ - Cost(r)]
      /\ review' = [review EXCEPT ![v] = Nothing] /\ UNCHANGED <<row, applying, cancel>>
      /\ review[v].of = "leave"
  BY DEF Reject
<1>2. r \in Requests /\ request[r].status \notin {"none", "asked"}
  BY <1>1, OpenedIsRequest DEF IInv, OpenedAreApplied
<1> HIDE DEF r
<1>3. /\ RequestsAreReal' /\ Disjoint'
      /\ Undisturbed' => Undisturbed
      /\ overtaken \subseteq overtaken' /\ (r \notin overtaken' => request[r].status = "pending")
      /\ request' = [request EXCEPT ![r].status = "rejected"]
      /\ request'[r].status = "rejected" /\ request'[r].days = request[r].days /\ request'[r].half = request[r].half
      /\ \A q \in Requests : q # r => request'[q] = request[q]
      /\ \A q \in Requests : (Asked(q)' <=> Asked(q)) /\ Cost(q)' = Cost(q)
  BY <1>1, <1>2, SettleBooks
<1>4. balance \in [pending : Int, used : Int] /\ Cost(r) \in Nat /\ Quota \in Nat
      /\ \A q \in Requests : Cost(q) \in Nat
  BY <1>2, TypeParts, DaysOfRequest, LeaveAssumption DEF IInv, Typed
<1>5. balance' = [pending |-> balance.pending - Cost(r), used |-> balance.used]
  BY <1>1, <1>4
<1>6. Locked'
  BY <1>1, <1>3 DEF IInv, Locked
<1>7. WithinQuota'
  BY <1>3, <1>4, <1>5 DEF IInv, WithinQuota, Tracked
<1>8. Ledger'
  <2>1. ASSUME Undisturbed' PROVE balance' = [pending |-> Total("pending")', used |-> Total("approved")']
    <3>1. balance.pending = Total("pending") /\ balance.used = Total("approved") /\ request[r].status = "pending"
      BY <1>2, <1>3, <2>1 DEF IInv, Ledger, Undisturbed
    <3>2. Total("pending")' = Total("pending") - Cost(r)
      BY <1>2, <1>3, <3>1, StatusMoved DEF IInv
    <3>3. Total("approved")' = Total("approved")
      BY <1>2, <1>3, <3>1, TotalFrame DEF IInv
    <3> QED
      BY <1>5, <3>1, <3>2, <3>3
  <2> QED
    BY <2>1 DEF Ledger
<1>9. OpenedAreApplied'
  <2>1. \A w \in Reviewers : review'[w] = review[w] \/ review'[w] = Nothing
    BY <1>1, TypeParts DEF IInv, Typed
  <2> QED
    BY <1>1, <1>2, <1>3, <2>1, SettleOpened
<1>10. LeaveRowsHaveLeave'
  <2> SUFFICES ASSUME NEW d \in Days, BareLeave(row[d]), ~Excused(d)'
               PROVE  OnLeave(d)'
    BY <1>1 DEF LeaveRowsHaveLeave, BareLeave
  <2>1. ~Excused(d) /\ (d \in request[r].days => request[r].status = "pending")
    BY <1>2, <1>3 DEF Excused
  <2>2. PICK q \in Requests : request[q].status = "approved" /\ d \in request[q].days /\ ~request[q].half
    BY <2>1 DEF IInv, LeaveRowsHaveLeave, BareLeave, OnLeave
  <2>3. q # r
    BY <2>1, <2>2
  <2> QED
    BY <1>3, <2>2, <2>3 DEF OnLeave
<1> QED
  BY <1>3, <1>6, <1>7, <1>8, <1>9, <1>10 DEF Books

\* A cancelled request gives back what it was read to have, and an approved
\* one its rows.
LEMMA CancelBooks ==
  ASSUME IInv, Cancel
  PROVE  Books' /\ OpenedAreApplied' /\ LeaveRowsHaveLeave'
<1> DEFINE r == cancel.r
           n == IF cancel.read = "approved" THEN 0 ELSE Cost(r)
           m == IF cancel.read = "approved" THEN Cost(r) ELSE 0
<1>1. /\ cancel # Nothing /\ cancel' = Nothing /\ UNCHANGED <<applying, review>>
      /\ Settle(r, cancel.read, "cancelled")
      /\ \/ /\ cancel.read = "approved"
            /\ row' = [d \in Days |-> Released(r, d)]
            /\ balance' = [balance EXCEPT !.used = @ - Cost(r)]
         \/ /\ cancel.read # "approved" /\ UNCHANGED row
            /\ balance' = [balance EXCEPT !.pending = @ - Cost(r)]
  BY DEF Cancel
<1>2. r \in Requests /\ cancel.read \in {"pending", "approved"} /\ request[r].status \notin {"none", "asked"}
  BY <1>1, CancelIsRequest DEF IInv, OpenedAreApplied
<1> HIDE DEF r
<1>3. /\ RequestsAreReal' /\ Disjoint'
      /\ Undisturbed' => Undisturbed
      /\ overtaken \subseteq overtaken' /\ (r \notin overtaken' => request[r].status = cancel.read)
      /\ request' = [request EXCEPT ![r].status = "cancelled"]
      /\ request'[r].status = "cancelled" /\ request'[r].days = request[r].days /\ request'[r].half = request[r].half
      /\ \A q \in Requests : q # r => request'[q] = request[q]
      /\ \A q \in Requests : (Asked(q)' <=> Asked(q)) /\ Cost(q)' = Cost(q)
  BY <1>1, <1>2, SettleBooks
<1>4. balance \in [pending : Int, used : Int] /\ Quota \in Nat /\ \A q \in Requests : Cost(q) \in Nat
  BY TypeParts, DaysOfRequest, LeaveAssumption DEF IInv, Typed
<1>5. balance' = [pending |-> balance.pending - n, used |-> balance.used - m] /\ m \in Nat /\ n \in Nat
  BY <1>1, <1>2, <1>4
<1>6. Locked'
  BY <1>1, <1>3 DEF IInv, Locked
<1>7. WithinQuota'
  <2> HIDE DEF m, n
  <2> QED
    BY <1>3, <1>4, <1>5 DEF IInv, WithinQuota, Tracked
<1>8. Ledger'
  <2>1. ASSUME Undisturbed' PROVE balance' = [pending |-> Total("pending")', used |-> Total("approved")']
    <3>1. balance.pending = Total("pending") /\ balance.used = Total("approved") /\ request[r].status = cancel.read
      BY <1>2, <1>3, <2>1 DEF IInv, Ledger, Undisturbed
    <3>2. CASE cancel.read = "approved"
      <4>1. Total("approved")' = Total("approved") - Cost(r)
        BY <1>2, <1>3, <3>1, <3>2, StatusMoved DEF IInv
      <4>2. Total("pending")' = Total("pending")
        BY <1>2, <1>3, <3>1, <3>2, TotalFrame DEF IInv
      <4> QED
        BY <1>4, <1>5, <3>1, <3>2, <4>1, <4>2
    <3>3. CASE cancel.read = "pending"
      <4>1. Total("pending")' = Total("pending") - Cost(r)
        BY <1>2, <1>3, <3>1, <3>3, StatusMoved DEF IInv
      <4>2. Total("approved")' = Total("approved")
        BY <1>2, <1>3, <3>1, <3>3, TotalFrame DEF IInv
      <4> QED
        BY <1>4, <1>5, <3>1, <3>3, <4>1, <4>2
    <3> QED
      BY <1>2, <3>2, <3>3
  <2> QED
    BY <2>1 DEF Ledger
<1>9. OpenedAreApplied'
  BY <1>1, <1>2, <1>3, SettleOpened
<1>10. LeaveRowsHaveLeave'
  <2> SUFFICES ASSUME NEW d \in Days, BareLeave(row'[d]), ~Excused(d)'
               PROVE  OnLeave(d)'
    BY DEF LeaveRowsHaveLeave, BareLeave
  <2>1. ~Excused(d) /\ (d \in request[r].days => request[r].status = cancel.read)
    BY <1>2, <1>3 DEF Excused
  <2>2. BareLeave(row[d]) /\ (cancel.read = "approved" => d \notin request[r].days)
    <3>1. GoodRow(row[d])
      BY TypeParts DEF IInv, RowsAreReal, GoodRow
    <3>2. CASE cancel.read = "approved"
      BY <1>1, <1>2, <3>1, <3>2, ReleasedRow
    <3>3. CASE cancel.read # "approved"
      BY <1>1, <3>3
    <3> QED
      BY <3>2, <3>3
  <2>3. PICK q \in Requests : request[q].status = "approved" /\ d \in request[q].days /\ ~request[q].half
    BY <2>1, <2>2 DEF IInv, LeaveRowsHaveLeave, BareLeave, OnLeave
  <2>4. q # r
    BY <2>1, <2>2, <2>3
  <2> QED
    BY <1>3, <2>3, <2>4 DEF OnLeave
<1> QED
  BY <1>3, <1>6, <1>7, <1>8, <1>9, <1>10 DEF Books

\* What is opened is a request in force.
LEMMA OpenBooks ==
  ASSUME IInv, NEW r \in Requests, (\E v \in Reviewers : OpenLeave(v, r)) \/ OpenCancel(r)
  PROVE  Books' /\ OpenedAreApplied' /\ LeaveRowsHaveLeave'
<1>1. UNCHANGED <<request, balance, row, applying, overtaken>> /\ request[r].status \notin {"none", "asked"}
  BY DEF OpenLeave, OpenCancel, InForce
<1>2. overtaken \subseteq overtaken'
  BY <1>1
<1>3. Books' /\ LeaveRowsHaveLeave'
  BY <1>1, <1>2, BooksFrame, BoardFrame DEF IInv, Books
<1>4. OpenedAreApplied'
  <2>1. OpenedAreApplied /\ review \in [Reviewers -> ReviewRec]
    BY TypeParts DEF IInv, Typed
  <2>2. CASE OpenCancel(r)
    BY <1>1, <2>1, <2>2 DEF OpenedAreApplied, OpenCancel
  <2>3. ASSUME NEW v \in Reviewers, OpenLeave(v, r) PROVE OpenedAreApplied'
    BY <1>1, <2>1, <2>3 DEF OpenedAreApplied, OpenLeave
  <2> QED
    BY <2>2, <2>3
<1> QED
  BY <1>3, <1>4

\* Days, clock-ins and regularizations leave the requests and the ledger alone
\* and put no leave on the board.
Aside ==
    \/ NextDay \/ OpenPunch \/ PunchIn \/ PunchOut
    \/ \E d \in Days : AskRegularization(d) \/ \E v \in Reviewers : OpenRegularization(v, d)
    \/ \E v \in Reviewers, status \in {"approved", "rejected"}, in, out \in BOOLEAN : Regularize(v, status, in, out)

\* They keep the books, and every leave row covered.
LEMMA AsideBooks ==
  ASSUME IInv, Aside
  PROVE  Books' /\ OpenedAreApplied' /\ LeaveRowsHaveLeave'
<1>1. UNCHANGED <<request, balance, applying, cancel>> /\ overtaken \subseteq overtaken'
  BY DEF Aside, NextDay, OpenPunch, PunchIn, PunchOut, AskRegularization, OpenRegularization, Regularize
<1>2. \A v \in Reviewers : review'[v].of = "leave" => review'[v] = review[v]
  <2>1. review \in [Reviewers -> ReviewRec]
    BY TypeParts DEF IInv, Typed
  <2>2. ASSUME NEW v \in Reviewers, NEW x, x.of # "leave", review' = [review EXCEPT ![v] = x]
        PROVE  \A w \in Reviewers : review'[w].of = "leave" => review'[w] = review[w]
    BY <2>1, <2>2
  <2>3. \A d : [of |-> "day", d |-> d].of # "leave"
    OBVIOUS
  <2>4. Nothing.of # "leave"
    BY DEF Nothing
  <2>5. ASSUME NEW v \in Reviewers, NEW d, OpenRegularization(v, d)
        PROVE  \A w \in Reviewers : review'[w].of = "leave" => review'[w] = review[w]
    BY <2>2, <2>3, <2>5 DEF OpenRegularization
  <2>6. ASSUME NEW v \in Reviewers, NEW status, NEW in, NEW out, Regularize(v, status, in, out)
        PROVE  \A w \in Reviewers : review'[w].of = "leave" => review'[w] = review[w]
    BY <2>2, <2>4, <2>6 DEF Regularize
  <2> QED
    BY <2>5, <2>6 DEF Aside, NextDay, OpenPunch, PunchIn, PunchOut, AskRegularization
<1>3. \A d \in Days : BareLeave(row'[d]) => BareLeave(row[d])
  <2>1. row \in [Days -> RowRec] /\ today \in Days
    BY TypeParts, TodayIsADay DEF IInv
  <2>2. CASE UNCHANGED row
    BY <2>2
  <2>3. ASSUME PunchIn PROVE \A d \in Days : BareLeave(row'[d]) => BareLeave(row[d])
    <3>1. CASE row[today].punched
      BY <2>1, <2>3, <3>1 DEF PunchIn, BareLeave
    <3>2. CASE ~row[today].punched
      <4> DEFINE s == IF punch.half THEN "half_day" ELSE "present"
                 y == [row[today] EXCEPT !.punched = TRUE, !.source = "web", !.status = s]
      <4>1. row' = [row EXCEPT ![today] = y] \/ UNCHANGED row
        BY <2>3, <3>2 DEF PunchIn
      <4>2. y.punched
        BY <2>1 DEF RowRec
      <4> HIDE DEF y
      <4> QED
        BY <2>1, <4>1, <4>2 DEF BareLeave
    <3> QED
      BY <3>1, <3>2
  <2>4. ASSUME PunchOut PROVE \A d \in Days : BareLeave(row'[d]) => BareLeave(row[d])
    BY <2>1, <2>4 DEF PunchOut, BareLeave, RowRec
  <2>5. ASSUME NEW v \in Reviewers, NEW status, NEW in, NEW out, Regularize(v, status, in, out)
        PROVE  \A d \in Days : BareLeave(row'[d]) => BareLeave(row[d])
    BY <2>1, <2>5 DEF Regularize, BareLeave
  <2> QED
    BY <2>2, <2>3, <2>4, <2>5 DEF Aside, NextDay, OpenPunch, AskRegularization, OpenRegularization
<1>5. Books' /\ LeaveRowsHaveLeave'
  BY <1>1, <1>3, BooksFrame, BoardFrame DEF IInv, Books
<1>6. OpenedAreApplied'
  BY <1>1, <1>2 DEF IInv, OpenedAreApplied
<1> QED
  BY <1>5, <1>6

-----------------------------------------------------------------------------
(* Leave: the theorems. *)

\* The inductive invariant holds at the start.
LEMMA InitIInv == Init => IInv
<1> SUFFICES ASSUME Init PROVE IInv
  OBVIOUS
<1>1. \A status : HalfDays(status) = {}
  BY DEF Init, HalfDays
<1>2. Total("pending") = 0 /\ Total("approved") = 0
  BY <1>1, FS_EmptySet DEF Total
<1>3. Ledger
  BY <1>2 DEF Init, Ledger
<1>4. RequestsAreReal /\ Locked /\ OpenedAreApplied /\ RowsAreReal /\ WithinQuota /\ Disjoint /\ LeaveRowsHaveLeave
  BY LeaveAssumption DEF Init, RequestsAreReal, Locked, OpenedAreApplied, RowsAreReal, WithinQuota, Disjoint,
     LeaveRowsHaveLeave, Takes, Asked, InForce, Nothing, NoRow
<1> QED
  BY <1>3, <1>4, InitTypeOK DEF IInv

\* Every step keeps it.
LEMMA NextIInv == IInv /\ [Next]_vars => IInv'
<1> SUFFICES ASSUME IInv, [Next]_vars PROVE IInv'
  OBVIOUS
<1> DEFINE Kept == Books' /\ OpenedAreApplied' /\ LeaveRowsHaveLeave'
<1>1. TypeOK' /\ RowsAreReal'
  BY RowsStep, TypeStep DEF IInv
<1>2. ASSUME UNCHANGED vars PROVE Kept
  <2>1. UNCHANGED <<request, balance, row, applying, review, cancel, overtaken>>
    BY <1>2 DEF vars
  <2>2. overtaken \subseteq overtaken'
    BY <2>1
  <2>3. Books' /\ LeaveRowsHaveLeave'
    BY <2>1, <2>2, BooksFrame, BoardFrame DEF IInv, Books
  <2>4. OpenedAreApplied'
    BY <2>1 DEF IInv, OpenedAreApplied
  <2> QED
    BY <2>3, <2>4
<1>3. ASSUME NEW r \in Requests,
             (\E days \in Ranges, half \in BOOLEAN : CheckApply(r, days, half)) \/ Apply(r) \/ OpenCancel(r)
      PROVE  Kept
  BY <1>3, CheckApplyBooks, ApplyBooks, OpenBooks
<1>4. ASSUME NEW v \in Reviewers, (\E r \in Requests : OpenLeave(v, r)) \/ Approve(v) \/ Reject(v)
      PROVE  Kept
  BY <1>4, OpenBooks, ApproveBooks, RejectBooks
<1>5. ASSUME Cancel PROVE Kept
  BY <1>5, CancelBooks
<1>6. ASSUME Aside PROVE Kept
  BY <1>6, AsideBooks
<1> HIDE DEF Kept
<1>7. ASSUME Next PROVE Kept
  BY Zenon, <1>3, <1>4, <1>5, <1>6, <1>7 DEF Next, Aside
<1>8. Kept
  BY <1>2, <1>7
<1> QED
  BY <1>1, <1>8 DEF Kept, IInv, Books

\* The inductive invariant holds throughout.
THEOREM Inductive == Spec => []IInv
  BY InitIInv, NextIInv, PTL DEF Spec

\* BalanceMatchesRequests, for every set of requests and reviewers: the ledger
\* is in step with the half days the requests take.
THEOREM LedgerIsInStep == Spec => []BalanceMatchesRequests
<1>1. IInv => BalanceMatchesRequests
  BY DEF IInv, Ledger, BalanceMatchesRequests
<1> QED
  BY <1>1, Inductive, PTL

\* NeverOverbooked, for every quota, kind of leave type and set of ranges:
\* nothing is claimed of the sums of an unpaid or untracked type.
THEOREM QuotaHolds == Spec => []NeverOverbooked
<1>1. IInv => NeverOverbooked
  BY DEF IInv, WithinQuota, Disjoint, Takes, NeverOverbooked
<1> QED
  BY <1>1, Inductive, PTL

\* LeaveRowsHaveLeave, for any number of days.
THEOREM BoardIsTrue == Spec => []LeaveRowsHaveLeave
<1>1. IInv => LeaveRowsHaveLeave
  BY DEF IInv
<1> QED
  BY <1>1, Inductive, PTL

\* What turns into leave is on approved leave afterwards: only the approval of
\* a full-day request writes it.
LEMMA LeaveIsApproved ==
  ASSUME TypeOK, RowsAreReal, [Next]_vars, NEW d \in Days, row[d].status # "on_leave", row'[d].status = "on_leave"
  PROVE  OnLeave(d)'
<1>1. row \in [Days -> RowRec] /\ today \in Days
  BY TypeParts, TodayIsADay
<1>2. ASSUME NEW v \in Reviewers, Approve(v) PROVE OnLeave(d)'
  <2> DEFINE r == review[v].r
  <2>1. r \in Requests /\ request \in [Requests -> RequestRec]
    BY <1>2, OpenedIsRequest, TypeParts DEF Approve, Typed
  <2>2. /\ row' = [e \in Days |-> IF e \in request[r].days THEN Marked(r, e) ELSE row[e]]
        /\ request' = [request EXCEPT ![r].status = "approved"]
    BY <1>2 DEF Approve, Settle
  <2> HIDE DEF r
  <2>3. d \in request[r].days /\ Marked(r, d).status = "on_leave"
    BY <2>2
  <2>4. ~request[r].half
    BY <1>1, <2>1, <2>3, MarkedRow DEF RowsAreReal, GoodRow
  <2>5. request'[r].status = "approved" /\ request'[r].days = request[r].days /\ request'[r].half = request[r].half
    BY <2>1, <2>2 DEF RequestRec
  <2> QED
    BY <2>1, <2>3, <2>4, <2>5 DEF OnLeave
<1>3. CASE Cancel
  <2>1. CASE UNCHANGED row
    BY <2>1
  <2>2. CASE row' = [e \in Days |-> Released(cancel.r, e)]
    BY <2>2 DEF Released, NoRow
  <2> QED
    BY <1>3, <2>1, <2>2 DEF Cancel
<1>4. CASE PunchIn
  <2>1. row'[d] = row[d] \/ row'[d].status \in {"half_day", "present"}
    BY <1>1, <1>4 DEF PunchIn, RowRec
  <2> QED
    BY <2>1
<1>5. CASE PunchOut
  BY <1>1, <1>5 DEF PunchOut, RowRec
<1>6. ASSUME NEW v \in Reviewers, NEW status, NEW in, NEW out, Regularize(v, status, in, out) PROVE FALSE
  BY <1>1, <1>6 DEF Regularize
<1>7. CASE UNCHANGED row
  BY <1>7
<1>8. \/ Cancel \/ PunchIn \/ PunchOut \/ UNCHANGED row
      \/ \E v \in Reviewers :
            Approve(v) \/ \E status \in {"approved", "rejected"}, in, out \in BOOLEAN : Regularize(v, status, in, out)
  BY DEF Next, vars, NextDay, CheckApply, Apply, OpenCancel, OpenLeave, OpenRegularization, Reject,
     AskRegularization, OpenPunch
<1> QED
  BY <1>2, <1>3, <1>4, <1>5, <1>6, <1>7, <1>8

\* WorkStands, for any days, requests and reviewers: a step from a state of real
\* rows takes back no punch and no regularization, and turns a worked day into
\* leave only as the approval of a full-day request, when it was clocked out short.
THEOREM WorkIsKept == Spec => WorkStands
<1>1. IInv /\ [Next]_vars =>
        [\A d \in Days :
            /\ row[d].punched => row'[d].punched
            /\ row[d].fixed => row'[d].fixed
            /\ /\ row[d].punched \/ row[d].status \in Worked
               /\ row[d].status # "on_leave" /\ row'[d].status = "on_leave"
               => row[d].status \in {"half_day", "absent"} /\ ~row[d].fixed /\ OnLeave(d)']_vars
  BY RowsStep, LeaveIsApproved DEF IInv, Stands
<1> QED
  BY <1>1, Inductive, PTL DEF Spec, WorkStands

-----------------------------------------------------------------------------
(* Escalation: the inductive invariant. *)

Targets == People \union {Nobody}
ItemRow == [status : {"draft", "open", "decided"}, level : Levels, to : Targets, late : BOOLEAN]
Notices == [who : People, level : {1, 2}, nth : Nat]

\* The types of what is stored and of what is remembered.
Types ==
    /\ manager \in [People -> Targets] /\ live \subseteq People /\ away \subseteq People /\ hr \subseteq People
    /\ item \in [Items -> ItemRow]
    /\ told \in [Items -> SUBSET Notices]
    /\ nth \in [Items -> Nat]
    /\ rounds \in [Items -> [Levels -> {0, 1}]]
    /\ decided \in [Items -> Levels]

\* A plan names a higher level and whom to tell: its reviewer, or people at level 2.
PlanOK(plan, tell) ==
    /\ plan \in [level : {1, 2}, to : Targets]
    /\ tell \subseteq People \ {Applicant}
    /\ plan.level = 1 => tell = {plan.to}

\* A notice to `tell` of level `level` of the n-th submission, when the item is
\* x and was submitted m times: of the submission that is open, level 1 tells
\* the person the item is named after, at whatever level it is by now.
NoticeOK(x, m, n, level, tell) ==
    /\ level \in {1, 2} /\ n \in Nat /\ n <= m
    /\ tell \subseteq People \ {Applicant}
    /\ level = 1 /\ n = m /\ x.status = "open" => x.level >= 1 /\ tell \subseteq {x.to}

SweepOK(s) ==
    /\ sweep[s].phase \in {"idle", "reading", "planned", "committed"}
    /\ sweep[s].todo \subseteq Items
    /\ sweep[s].phase = "planned" =>
        /\ sweep[s].at \in Items
        /\ sweep[s].from \in {0, 1}
        /\ sweep[s].from < sweep[s].plan.level
        /\ PlanOK(sweep[s].plan, sweep[s].tell)
    /\ sweep[s].phase = "committed" =>
        /\ sweep[s].at \in Items
        /\ NoticeOK(item[sweep[s].at], nth[sweep[s].at], sweep[s].nth, sweep[s].level, sweep[s].tell)

\* An open item has not been moved to a level above its own.
NotAbove(i) == item[i].status = "open" => \A l \in Levels : l > item[i].level => rounds[i][l] = 0

DecidedThere(i) == item[i].status = "decided" => item[i].level = decided[i]

\* What people were told stands, as what they are being told does.
ToldStand(i) == \A t \in told[i] : NoticeOK(item[i], nth[i], t.nth, t.level, {t.who})

ItemOK(i) == NotAbove(i) /\ DecidedThere(i) /\ ToldStand(i)

RouteInv ==
    /\ Types
    /\ DOMAIN sweep = Sweeps
    /\ \A s \in Sweeps : SweepOK(s)
    /\ \A i \in Items : ItemOK(i)

-----------------------------------------------------------------------------
(* The route. *)

\* The skip-level manager, if there is one, is a live person other than the applicant.
LEMMA SkipManager ==
    ASSUME Types
    PROVE  L1 = Nobody \/ L1 \in live \ {Applicant}
BY DEF L1, Types

\* A plan from a level below 2 names a higher level and somebody to tell.
LEMMA PlansRise ==
    ASSUME Types, NEW level \in {0, 1}
    PROVE  /\ PlanOK(Plan(level), Recipients(Plan(level)))
           /\ level < Plan(level).level
<1>1. CASE level = 0 /\ L1 # Nobody /\ L1 \notin away
  <2>1. Plan(level) = [level |-> 1, to |-> L1]
    BY <1>1 DEF Plan
  <2>2. L1 \in People \ {Applicant}
    BY <1>1, SkipManager DEF Types
  <2> QED
    BY <1>1, <2>1, <2>2 DEF PlanOK, Recipients, Targets
<1>2. CASE ~(level = 0 /\ L1 # Nobody /\ L1 \notin away)
  <2>1. Plan(level) = [level |-> 2, to |-> Nobody]
    BY <1>2 DEF Plan
  <2>2. Recipients(Plan(level)) \subseteq People \ {Applicant}
    BY <2>1 DEF Recipients, Types
  <2> QED
    BY <2>1, <2>2 DEF PlanOK, Targets
<1> QED
  BY <1>1, <1>2

\* Where an item is born is a level and, at most, a person.
LEMMA BornSomewhere ==
    ASSUME Types
    PROVE  Born.level \in Levels /\ Born.to \in Targets
<1>1. Plan(0).level \in Levels /\ Plan(0).to \in Targets
  BY PlansRise DEF PlanOK, Levels
<1> QED
  BY <1>1 DEF Born, Levels, Targets

-----------------------------------------------------------------------------
(* Escalation: the initial states and the steps. *)

\* Nothing is submitted, told or swept at first.
THEOREM InitRouteInv == RouteInit => RouteInv
<1> SUFFICES ASSUME RouteInit PROVE RouteInv
  OBVIOUS
<1>1. Types
  <2>1. Fresh \in ItemRow
    BY DEF Fresh, ItemRow, Levels, Targets
  <2> QED
    BY <2>1, EscalationAssumption DEF RouteInit, Types, Targets, Levels
<1>2. DOMAIN sweep = Sweeps /\ \A s \in Sweeps : SweepOK(s)
  BY DEF RouteInit, SweepOK, Idle
<1>3. \A i \in Items : ItemOK(i)
  BY DEF RouteInit, ItemOK, NotAbove, DecidedThere, ToldStand, Fresh
<1> QED
  BY <1>1, <1>2, <1>3 DEF RouteInv

\* A step after which every notice about the item stands that stood before.
Keeps(i) ==
    \A n, level, tell :
        NoticeOK(item[i], nth[i], n, level, tell) => NoticeOK(item'[i], nth'[i], n, level, tell)

\* A new submission outdates every notice; within one, an item that has reached
\* level 1 stays above 0 and named after the same person.
LEMMA NoticesKept ==
    ASSUME Types, NEW i \in Items, nth'[i] \in Nat,
           \/ nth'[i] > nth[i]
           \/ /\ nth'[i] = nth[i]
              /\ item'[i].status = "open" =>
                    /\ item[i].status = "open"
                    /\ item[i].level >= 1 => item'[i].level >= 1 /\ item'[i].to = item[i].to
    PROVE  Keeps(i)
<1>1. nth[i] \in Nat
  BY DEF Types
<1> SUFFICES ASSUME NEW n, NEW level, NEW tell, NoticeOK(item[i], nth[i], n, level, tell)
             PROVE  NoticeOK(item'[i], nth'[i], n, level, tell)
  BY DEF Keeps
<1>2. n \in Nat /\ n <= nth[i] /\ level \in {1, 2} /\ tell \subseteq People \ {Applicant}
  BY DEF NoticeOK
<1>3. CASE nth'[i] > nth[i]
  <2>1. n <= nth'[i] /\ n # nth'[i]
    BY <1>1, <1>2, <1>3
  <2> QED
    BY <1>2, <2>1 DEF NoticeOK
<1>4. CASE nth'[i] = nth[i]
  <2>1. ASSUME level = 1, n = nth'[i], item'[i].status = "open" PROVE item'[i].level >= 1 /\ tell \subseteq {item'[i].to}
    <3>1. item[i].status = "open" /\ item[i].level >= 1 /\ tell \subseteq {item[i].to}
      BY <1>1, <1>4, <2>1 DEF NoticeOK
    <3> QED
      BY <1>1, <1>4, <2>1, <3>1
  <2> QED
    BY <1>2, <1>4, <2>1 DEF NoticeOK
<1> QED
  BY <1>3, <1>4

\* What a step has to keep: the types, what people are and were told, and the
\* levels.
LEMMA RouteStep ==
    ASSUME RouteInv, Types', DOMAIN sweep' = Sweeps,
           \A s \in Sweeps : sweep'[s] = sweep[s] \/ SweepOK(s)',
           \A i \in Items : Keeps(i) /\ NotAbove(i)' /\ DecidedThere(i)' /\ (told'[i] = told[i] \/ ToldStand(i)')
    PROVE  RouteInv'
<1>1. ASSUME NEW s \in Sweeps, sweep'[s] = sweep[s] PROVE SweepOK(s)'
  <2>1. SweepOK(s)
    BY DEF RouteInv
  <2>2. ASSUME sweep[s].phase = "committed"
        PROVE  NoticeOK(item'[sweep[s].at], nth'[sweep[s].at], sweep[s].nth, sweep[s].level, sweep[s].tell)
    BY <2>1, <2>2 DEF SweepOK, Keeps
  <2> QED
    BY <1>1, <2>1, <2>2 DEF SweepOK
<1>2. ASSUME NEW i \in Items, told'[i] = told[i] PROVE ToldStand(i)'
  <2>1. ToldStand(i) /\ Keeps(i)
    BY DEF RouteInv, ItemOK
  <2> QED
    BY <1>2, <2>1 DEF ToldStand, Keeps
<1> QED
  BY <1>1, <1>2 DEF RouteInv, ItemOK

\* Items that a step leaves alone.
LEMMA ItemsStay ==
    ASSUME RouteInv, NEW i \in Items, item'[i] = item[i], nth'[i] = nth[i],
           rounds'[i] = rounds[i], decided'[i] = decided[i]
    PROVE  Keeps(i) /\ NotAbove(i)' /\ DecidedThere(i)'
  BY DEF RouteInv, ItemOK, Keeps, NotAbove, DecidedThere

\* A step that only changes the organisation.
LEMMA OrganisationStep ==
    ASSUME RouteInv, UNCHANGED <<item, sweep, hist>>,
           manager' \in [People -> Targets], live' \subseteq People, away' \subseteq People, hr' \subseteq People
    PROVE  RouteInv'
<1>1. Types'
  BY DEF RouteInv, Types, hist
<1>2. \A i \in Items : Keeps(i) /\ NotAbove(i)' /\ DecidedThere(i)' /\ told'[i] = told[i]
  BY ItemsStay DEF hist
<1> QED
  BY <1>1, <1>2, RouteStep DEF RouteInv

\* A step of one sweep that moves no item.
LEMMA SweepStep ==
    ASSUME RouteInv, UNCHANGED <<org, item, hist>>, NEW s \in Sweeps, NEW x,
           sweep' = [sweep EXCEPT ![s] = x], SweepOK(s)'
    PROVE  RouteInv'
<1>1. Types'
  BY DEF RouteInv, Types, hist, org
<1>2. DOMAIN sweep' = Sweeps /\ \A r \in Sweeps : sweep'[r] = sweep[r] \/ SweepOK(r)'
  BY DEF RouteInv
<1>3. \A i \in Items : Keeps(i) /\ NotAbove(i)' /\ DecidedThere(i)' /\ told'[i] = told[i]
  BY ItemsStay DEF hist
<1> QED
  BY <1>1, <1>2, <1>3, RouteStep

\* A step that changes one item, and no sweep.
LEMMA ItemStep ==
    ASSUME RouteInv, UNCHANGED <<org, sweep, told>>, Types', NEW i \in Items,
           Keeps(i), NotAbove(i)', DecidedThere(i)',
           \A j \in Items \ {i} :
               item'[j] = item[j] /\ nth'[j] = nth[j] /\ rounds'[j] = rounds[j] /\ decided'[j] = decided[j]
    PROVE  RouteInv'
<1>1. \A j \in Items : Keeps(j) /\ NotAbove(j)' /\ DecidedThere(j)'
  BY ItemsStay
<1> QED
  BY <1>1, RouteStep DEF RouteInv

\* A submission is born at its level, and outdates what was told.
LEMMA SubmitRouteInv == ASSUME RouteInv, NEW i \in Items, Submit(i) PROVE RouteInv'
<1>1. Types'
  <2>1. [status |-> "open", level |-> Born.level, to |-> Born.to, late |-> FALSE] \in ItemRow
    BY BornSomewhere DEF RouteInv, ItemRow
  <2> QED
    BY <2>1 DEF Submit, RouteInv, Types, org
<1>2. item'[i].status = "open" /\ nth'[i] = nth[i] + 1 /\ \A l \in Levels : rounds'[i][l] = 0
  BY DEF Submit, RouteInv, Types
<1>3. nth[i] \in Nat
  BY DEF RouteInv, Types
<1>4. Keeps(i)
  BY <1>2, <1>3, NoticesKept DEF RouteInv
<1>5. NotAbove(i)' /\ DecidedThere(i)'
  BY <1>2 DEF NotAbove, DecidedThere
<1> QED
  BY <1>1, <1>4, <1>5, ItemStep DEF Submit, RouteInv, Types

\* A decision leaves the level where it is.
LEMMA DecideRouteInv == ASSUME RouteInv, NEW i \in Items, NEW p \in People, Decide(p, i) PROVE RouteInv'
<1>1. Types'
  BY DEF Decide, RouteInv, Types, ItemRow, org
<1>2. item'[i].status = "decided" /\ item'[i].level = decided'[i] /\ nth'[i] = nth[i] /\ nth[i] \in Nat
  BY DEF Decide, RouteInv, Types, ItemRow
<1>3. Keeps(i)
  BY <1>2, NoticesKept DEF RouteInv
<1>4. NotAbove(i)' /\ DecidedThere(i)'
  BY <1>2 DEF NotAbove, DecidedThere
<1> QED
  BY <1>1, <1>3, <1>4, ItemStep DEF Decide, RouteInv, Types

\* A rework makes the item a draft, about which nothing is claimed.
LEMMA ReworkRouteInv == ASSUME RouteInv, NEW i \in Items, NEW p \in People, Rework(p, i) PROVE RouteInv'
<1>1. Types'
  <2>1. Fresh \in ItemRow
    BY DEF Fresh, ItemRow, Levels, Targets
  <2> QED
    BY <2>1 DEF Rework, RouteInv, Types, org, hist
<1>2. item'[i].status = "draft" /\ nth'[i] = nth[i] /\ nth[i] \in Nat
  BY DEF Rework, RouteInv, Types, Fresh, hist
<1>3. Keeps(i)
  BY <1>2, NoticesKept DEF RouteInv
<1>4. NotAbove(i)' /\ DecidedThere(i)'
  BY <1>2 DEF NotAbove, DecidedThere
<1> QED
  BY <1>1, <1>3, <1>4, ItemStep DEF Rework, RouteInv, Types, hist

\* Lateness moves nothing.
LEMMA GetsLateRouteInv == ASSUME RouteInv, NEW i \in Items, GetsLate(i) PROVE RouteInv'
<1>1. Types'
  BY DEF GetsLate, RouteInv, Types, ItemRow, org, hist
<1>2. /\ item'[i].status = item[i].status /\ item'[i].level = item[i].level /\ item'[i].to = item[i].to
      /\ nth'[i] = nth[i] /\ nth[i] \in Nat
  BY DEF GetsLate, RouteInv, Types, ItemRow, hist
<1>3. Keeps(i)
  BY <1>2, NoticesKept DEF RouteInv
<1>4. NotAbove(i)' /\ DecidedThere(i)'
  BY <1>2 DEF NotAbove, DecidedThere, RouteInv, ItemOK, GetsLate, hist
<1> QED
  BY <1>1, <1>3, <1>4, ItemStep DEF GetsLate, RouteInv, Types, hist

\* A scan plans nothing yet.
LEMMA ScanRouteInv == ASSUME RouteInv, NEW s \in Sweeps, Scan(s) PROVE RouteInv'
<1>1. SweepOK(s)'
  BY DEF Scan, SweepOK, RouteInv
<1> QED
  BY <1>1, SweepStep DEF Scan

\* A dead sweep forgets its plan, and whom it would have told.
LEMMA DiesRouteInv == ASSUME RouteInv, NEW s \in Sweeps, Dies(s) PROVE RouteInv'
<1>1. SweepOK(s)'
  BY DEF Dies, SweepOK, Idle, RouteInv
<1> QED
  BY <1>1, SweepStep DEF Dies

\* What a sweep plans is a rise from the level it has read.
LEMMA ReadRouteInv == ASSUME RouteInv, NEW s \in Sweeps, Read(s) PROVE RouteInv'
<1>1. PICK i \in sweep[s].todo :
        sweep' = [sweep EXCEPT ![s] =
            IF Sweepable(i) /\ Trigger(i)
            THEN [phase |-> "planned", todo |-> sweep[s].todo, at |-> i, from |-> item[i].level,
                  plan |-> Plan(item[i].level), tell |-> Recipients(Plan(item[i].level))]
            ELSE IF sweep[s].todo = {i} THEN Idle
            ELSE [phase |-> "reading", todo |-> sweep[s].todo \ {i}]]
  BY DEF Read
<1>2. sweep[s].todo \subseteq Items
  BY DEF RouteInv, SweepOK
<1>3. SweepOK(s)'
  <2>1. CASE Sweepable(i) /\ Trigger(i)
    <3>1. item[i].level \in {0, 1}
      BY <1>2, <2>1 DEF Sweepable, RouteInv, Types, ItemRow, Levels
    <3>2. /\ PlanOK(Plan(item[i].level), Recipients(Plan(item[i].level)))
          /\ item[i].level < Plan(item[i].level).level
      BY <3>1, PlansRise DEF RouteInv
    <3>3. sweep'[s] = [phase |-> "planned", todo |-> sweep[s].todo, at |-> i, from |-> item[i].level,
                       plan |-> Plan(item[i].level), tell |-> Recipients(Plan(item[i].level))]
      BY <1>1, <2>1 DEF RouteInv
    <3>4. PlanOK(sweep[s].plan, sweep[s].tell)'
      BY <3>2, <3>3 DEF PlanOK
    <3> QED
      BY <1>2, <3>1, <3>2, <3>3, <3>4 DEF SweepOK
  <2>2. CASE ~(Sweepable(i) /\ Trigger(i))
    BY <1>1, <1>2, <2>2 DEF SweepOK, Idle, RouteInv
  <2> QED
    BY <2>1, <2>2
<1> QED
  BY <1>1, <1>3, SweepStep DEF Read

\* A guarded move: to a level the item has not been moved to yet, with the
\* people to be told who are named after it.
LEMMA MovedUpOK ==
    ASSUME RouteInv, NEW s \in Sweeps, sweep[s].phase = "planned", MovedUp(s),
           item[sweep[s].at].status = "open", item[sweep[s].at].level = sweep[s].from,
           sweep' = [sweep EXCEPT ![s] = Committed(s)],
           UNCHANGED <<org, told, nth, decided>>
    PROVE  /\ Types' /\ SweepOK(s)'
           /\ \A j \in Items : Keeps(j) /\ NotAbove(j)' /\ DecidedThere(j)'
<1>0. PICK i, plan, tell : i = sweep[s].at /\ plan = sweep[s].plan /\ tell = sweep[s].tell
  OBVIOUS
<1>1. /\ i \in Items /\ plan.level \in {1, 2} /\ plan.to \in Targets
      /\ item[i].status = "open" /\ item[i].level < plan.level
      /\ tell \subseteq People \ {Applicant}
      /\ plan.level = 1 => tell = {plan.to}
  BY <1>0 DEF RouteInv, SweepOK, PlanOK
<1>2. /\ item' = [item EXCEPT ![i] = [status |-> "open", level |-> plan.level, late |-> FALSE,
                                      to |-> IF plan.level = 1 THEN plan.to ELSE item[i].to]]
      /\ rounds' = [rounds EXCEPT ![i][plan.level] = @ + 1]
  BY <1>0 DEF MovedUp
<1>3. rounds[i][plan.level] = 0
  BY <1>1 DEF RouteInv, ItemOK, NotAbove, Levels
<1>4. rounds[i] \in [Levels -> {0, 1}] /\ item[i] \in ItemRow /\ nth[i] \in Nat
  BY <1>1 DEF RouteInv, Types
<1>5. /\ item'[i] = [status |-> "open", level |-> plan.level, late |-> FALSE,
                     to |-> IF plan.level = 1 THEN plan.to ELSE item[i].to]
      /\ rounds'[i] = [rounds[i] EXCEPT ![plan.level] = 1]
      /\ \A j \in Items \ {i} : item'[j] = item[j] /\ rounds'[j] = rounds[j]
  <2>1. item \in [Items -> ItemRow] /\ rounds \in [Items -> [Levels -> {0, 1}]]
    BY DEF RouteInv, Types
  <2>2. item'[i] = [status |-> "open", level |-> plan.level, late |-> FALSE,
                    to |-> IF plan.level = 1 THEN plan.to ELSE item[i].to]
    BY <1>1, <1>2, <2>1
  <2>3. rounds'[i] = [rounds[i] EXCEPT ![plan.level] = 1]
    BY <1>1, <1>2, <1>3, <2>1 DEF Levels
  <2>4. \A j \in Items \ {i} : item'[j] = item[j] /\ rounds'[j] = rounds[j]
    BY <1>1, <1>2, <2>1
  <2> QED
    BY <2>2, <2>3, <2>4
<1>6. Types'
  <2>1. item'[i] \in ItemRow
    BY <1>1, <1>4, <1>5 DEF ItemRow, Levels
  <2>2. rounds'[i] \in [Levels -> {0, 1}]
    BY <1>1, <1>4, <1>5 DEF Levels
  <2> QED
    BY <1>1, <1>2, <2>1, <2>2 DEF RouteInv, Types, org
<1>7. /\ item'[i].status = "open" /\ item'[i].level = plan.level
      /\ item'[i].to = IF plan.level = 1 THEN plan.to ELSE item[i].to
  BY <1>4, <1>5 DEF ItemRow
<1>8. Keeps(i) /\ NotAbove(i)' /\ DecidedThere(i)'
  <2>1. item[i].level \in {0, 1, 2}
    BY <1>4 DEF ItemRow, Levels
  <2>2. item[i].level >= 1 => item'[i].level >= 1 /\ item'[i].to = item[i].to
    BY <1>1, <1>7, <2>1
  <2>3. Keeps(i)
    BY <1>1, <1>4, <2>2, NoticesKept DEF RouteInv
  <2>4. NotAbove(i)'
    <3> SUFFICES ASSUME NEW l \in Levels, l > plan.level PROVE rounds'[i][l] = 0
      BY <1>7 DEF NotAbove
    <3>1. rounds[i][l] = 0
      BY <1>1, <1>4 DEF RouteInv, ItemOK, NotAbove, Levels, ItemRow
    <3> QED
      BY <1>4, <1>5, <3>1, <1>1 DEF Levels
  <2> QED
    BY <1>7, <2>3, <2>4 DEF DecidedThere
<1>9. \A j \in Items \ {i} : Keeps(j) /\ NotAbove(j)' /\ DecidedThere(j)'
  BY <1>5, ItemsStay
<1>10. SweepOK(s)'
  <2>1. /\ sweep'[s].phase = "committed" /\ sweep'[s].todo = sweep[s].todo /\ sweep'[s].at = i
        /\ sweep'[s].level = plan.level /\ sweep'[s].tell = tell /\ sweep'[s].nth = nth[i]
    BY <1>0 DEF RouteInv, Committed
  <2>2. NoticeOK(item'[i], nth[i], nth[i], plan.level, tell)
    BY <1>1, <1>4, <1>7 DEF NoticeOK
  <2>3. sweep[s].todo \subseteq Items
    BY DEF RouteInv, SweepOK
  <2> QED
    BY <1>1, <2>1, <2>2, <2>3 DEF SweepOK
<1> QED
  BY <1>6, <1>8, <1>9, <1>10

\* What is left of a sweep after an item is left to be read.
LEMMA RestOK ==
    ASSUME RouteInv, NEW s \in Sweeps, sweep' = [sweep EXCEPT ![s] = Rest(s)]
    PROVE  /\ DOMAIN sweep' = Sweeps /\ SweepOK(s)'
           /\ \A r \in Sweeps : r # s => sweep'[r] = sweep[r]
  BY DEF RouteInv, SweepOK, Rest, Idle

\* A guarded write rises, or finds that the item has moved and does nothing.
LEMMA WriteRouteInv == ASSUME RouteInv, NEW s \in Sweeps, Write(s) PROVE RouteInv'
<1>1. CASE item[sweep[s].at].status = "open" /\ item[sweep[s].at].level = sweep[s].from
  <2>1. /\ MovedUp(s) /\ sweep' = [sweep EXCEPT ![s] = Committed(s)] /\ sweep[s].phase = "planned"
        /\ UNCHANGED <<org, told, nth, decided>>
    BY <1>1 DEF Write
  <2>2. Types' /\ SweepOK(s)' /\ \A j \in Items : Keeps(j) /\ NotAbove(j)' /\ DecidedThere(j)'
    BY <1>1, <2>1, MovedUpOK
  <2>3. DOMAIN sweep' = Sweeps /\ \A r \in Sweeps : r # s => sweep'[r] = sweep[r]
    BY <2>1 DEF RouteInv
  <2> QED
    BY <2>1, <2>2, <2>3, RouteStep
<1>2. CASE ~(item[sweep[s].at].status = "open" /\ item[sweep[s].at].level = sweep[s].from)
  <2>1. sweep' = [sweep EXCEPT ![s] = Rest(s)] /\ UNCHANGED <<org, item, hist>>
    BY <1>2 DEF Write, hist
  <2> QED
    BY <2>1, RestOK, SweepStep
<1> QED
  BY <1>1, <1>2

\* The notices that go out are those the sweep had to give.
LEMMA NotifyRouteInv == ASSUME RouteInv, NEW s \in Sweeps, Notify(s) PROVE RouteInv'
<1>0. PICK i : i = sweep[s].at
  OBVIOUS
<1> DEFINE new == [who : sweep[s].tell, level : {sweep[s].level}, nth : {sweep[s].nth}]
<1>1. /\ sweep[s].phase = "committed" /\ told' = [told EXCEPT ![i] = @ \union new]
      /\ sweep' = [sweep EXCEPT ![s] = Rest(s)] /\ UNCHANGED <<org, item, nth, rounds, decided>>
  BY <1>0 DEF Notify
<1>2. /\ i \in Items /\ NoticeOK(item[i], nth[i], sweep[s].nth, sweep[s].level, sweep[s].tell)
      /\ told \in [Items -> SUBSET Notices]
  BY <1>0, <1>1 DEF RouteInv, SweepOK, Types
<1>3. \A t \in new : t \in Notices /\ NoticeOK(item[i], nth[i], t.nth, t.level, {t.who})
  <2> SUFFICES ASSUME NEW t \in new PROVE t \in Notices /\ NoticeOK(item[i], nth[i], t.nth, t.level, {t.who})
    OBVIOUS
  <2>1. t.who \in sweep[s].tell /\ t.level = sweep[s].level /\ t.nth = sweep[s].nth
    OBVIOUS
  <2>2. t = [who |-> t.who, level |-> t.level, nth |-> t.nth]
    OBVIOUS
  <2>3. t.who \in People /\ t.level \in {1, 2} /\ t.nth \in Nat
    BY <1>2, <2>1 DEF NoticeOK
  <2> QED
    BY <1>2, <2>1, <2>2, <2>3 DEF Notices, NoticeOK
<1> HIDE DEF new
<1>4. told'[i] = told[i] \union new /\ \A j \in Items : j # i => told'[j] = told[j]
  BY <1>1, <1>2
<1>5. Types'
  <2>1. told[i] \union new \in SUBSET Notices
    BY <1>2, <1>3
  <2> QED
    BY <1>1, <1>2, <2>1 DEF RouteInv, Types, org
<1>6. ToldStand(i)'
  <2>1. ToldStand(i)
    BY <1>2 DEF RouteInv, ItemOK
  <2>2. \A t \in told'[i] : NoticeOK(item[i], nth[i], t.nth, t.level, {t.who})
    BY <1>3, <1>4, <2>1 DEF ToldStand
  <2> QED
    BY <1>1, <2>2 DEF ToldStand
<1>7. \A j \in Items : Keeps(j) /\ NotAbove(j)' /\ DecidedThere(j)'
  BY <1>1, ItemsStay
<1>8. DOMAIN sweep' = Sweeps /\ \A r \in Sweeps : sweep'[r] = sweep[r] \/ SweepOK(r)'
  BY <1>1, RestOK
<1> QED
  BY <1>4, <1>5, <1>6, <1>7, <1>8, RouteStep

\* Every step keeps the invariant.
THEOREM NextRouteInv == RouteInv /\ [RouteNext]_routeVars => RouteInv'
<1> SUFFICES ASSUME RouteInv, [RouteNext]_routeVars PROVE RouteInv'
  OBVIOUS
<1>1. CASE UNCHANGED routeVars
  BY <1>1, OrganisationStep DEF routeVars, org, hist, RouteInv, Types
<1>2. ASSUME NEW p \in People, Remove(p) PROVE RouteInv'
  BY <1>2, OrganisationStep DEF Remove, RouteInv, Types
<1>3. ASSUME NEW p \in People, Away(p) PROVE RouteInv'
  <2>1. away' \subseteq People
    BY <1>3 DEF Away, RouteInv, Types
  <2> QED
    BY <1>3, <2>1, OrganisationStep DEF Away, RouteInv, Types
<1>4. ASSUME NEW p \in People, SetRole(p) PROVE RouteInv'
  <2>1. hr' \subseteq People
    BY <1>4 DEF SetRole, RouteInv, Types
  <2> QED
    BY <1>4, <2>1, OrganisationStep DEF SetRole, RouteInv, Types
<1>5. ASSUME NEW p \in People, NEW q \in People \union {Nobody}, SetManager(p, q) PROVE RouteInv'
  <2>1. manager' \in [People -> Targets]
    BY <1>5 DEF SetManager, RouteInv, Types, Targets
  <2> QED
    BY <1>5, <2>1, OrganisationStep DEF SetManager, RouteInv, Types
<1>6. ASSUME NEW i \in Items, Submit(i) \/ GetsLate(i) PROVE RouteInv'
  BY <1>6, SubmitRouteInv, GetsLateRouteInv
<1>7. ASSUME NEW i \in Items, NEW p \in People, Decide(p, i) \/ Rework(p, i) PROVE RouteInv'
  BY <1>7, DecideRouteInv, ReworkRouteInv
<1>8. ASSUME NEW s \in Sweeps, Scan(s) \/ Read(s) \/ Write(s) \/ Notify(s) \/ Dies(s) PROVE RouteInv'
  BY <1>8, ScanRouteInv, ReadRouteInv, WriteRouteInv, NotifyRouteInv, DiesRouteInv
<1> QED
  BY <1>1, <1>2, <1>3, <1>4, <1>5, <1>6, <1>7, <1>8 DEF RouteNext

-----------------------------------------------------------------------------
(* Escalation: the theorems. *)

\* The inductive invariant holds throughout (Escalation, any instance).
THEOREM RouteInductive == RouteSpec => []RouteInv
BY InitRouteInv, NextRouteInv, PTL DEF RouteSpec

\* An item is moved to a level at most once and never after it was decided,
\* however sweeps and decisions overlap (escalateTx).
THEOREM ReachedOnce == RouteSpec => []LevelsAreReachedOnce
<1>1. RouteInv => LevelsAreReachedOnce
  <2> SUFFICES ASSUME RouteInv PROVE LevelsAreReachedOnce
    OBVIOUS
  <2>1. RouteTypeOK
    BY DEF RouteInv, Types, SweepOK, RouteTypeOK, ItemRow, Targets
  <2>2. \A i \in Items : \A l \in Levels : rounds[i][l] <= 1
    BY DEF RouteInv, Types
  <2>3. \A i \in Items : item[i].status = "decided" => item[i].level = decided[i]
    BY DEF RouteInv, ItemOK, DecidedThere
  <2> QED
    BY <2>1, <2>2, <2>3 DEF LevelsAreReachedOnce
<1> QED
  BY <1>1, RouteInductive, PTL

\* Who was told that an item landed with them may decide that submission of it
\* while it is open (assertMayActTx), with notices that go out after the commit,
\* changing lines, seats and roles, reworks and any number of sweeps; but for
\* somebody told as Owner or HR Admin who is neither by now.
THEOREM ToldMayAct == RouteSpec => []ToldReviewersMayAct
<1>1. ASSUME RouteInv PROVE ToldReviewersMayAct
  <2> SUFFICES ASSUME NEW i \in Items, item[i].status = "open", NEW t \in told[i], t.who \in live, t.nth = nth[i]
               PROVE  MayAct(t.who, i) \/ (t.level = 2 /\ t.who \notin hr)
    BY DEF ToldReviewersMayAct
  <2>1. NoticeOK(item[i], nth[i], t.nth, t.level, {t.who})
    BY <1>1 DEF RouteInv, ItemOK, ToldStand
  <2>2. t.who # Applicant /\ t.level \in {1, 2}
    BY <2>1 DEF NoticeOK
  <2>3. CASE t.level = 1
    BY <2>1, <2>2, <2>3 DEF NoticeOK, MayAct
  <2>4. CASE t.level = 2
    BY <2>2, <2>4 DEF MayAct
  <2> QED
    BY <2>2, <2>3, <2>4
<1> QED
  BY <1>1, RouteInductive, PTL

=============================================================================
