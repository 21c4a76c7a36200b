--------------------------- MODULE WebhooksProofs ---------------------------
(***************************************************************************)
(* Proofs about Webhooks, for any deliveries, consumers, redrives, limits  *)
(* and faults: types, successes that reached the receiver, and an endpoint *)
(* at its limit that is about to be switched off.                          *)
(***************************************************************************)
EXTENDS Webhooks, TLAPS

-----------------------------------------------------------------------------
(* The inductive invariant. *)

Statuses == {"none", "pending", "failed", "success", "exhausted"}
JobRow == [state : {"none", "waiting", "active", "done", "failed"}, made : 0..Attempts, stalls : 0..MaxStalls]
WorkRow == [phase : Phases, d : Deliveries, k : Jobs]
RedriveRow == [phase : {"checked", "marked", "over"}, d : Deliveries]

\* What consumers, BullMQ and redrives share.
WorkTypes ==
    /\ job \in [Deliveries -> [Jobs -> JobRow]]
    /\ consumer \in [Workers -> {Free} \union WorkRow]
    /\ redrive \in [Requests -> {Free} \union RedriveRow]

Busy(w) == ~At(w, "free")

\* A job that is not over has an attempt left.
AttemptLeft(d, k) == job[d][k].state \in {"none", "waiting", "active"} => job[d][k].made < Attempts

\* A consumer at work has an active job, which no other consumer has.
OwnJob(w) == Busy(w) => Mine(w).state = "active"
JobsApart ==
    \A v, w \in Workers : v # w /\ Busy(v) /\ Busy(w) => consumer[v].d # consumer[w].d \/ consumer[v].k # consumer[w].k

\* No job is added twice: a delivery without a row has no job of the fan-out,
\* and a redrive that is not over has added none.
FirstOnce(d) == status[d] = "none" => job[d][FirstJob].state = "none"
RedriveOnce(r) == redrive[r].phase # "over" => \A d \in Deliveries : job[d][r].state = "none"

WorkInv ==
    /\ WorkTypes
    /\ \A d \in Deliveries, k \in Jobs : AttemptLeft(d, k)
    /\ \A w \in Workers : OwnJob(w)
    /\ JobsApart
    /\ \A d \in Deliveries : FirstOnce(d)
    /\ \A r \in Requests : RedriveOnce(r)

\* What is stored and remembered beside the jobs.
RestTypes ==
    /\ status \in [Deliveries -> Statuses]
    /\ endpoint \in [active : BOOLEAN, deleted : BOOLEAN, failures : Nat]
    /\ received \in [Deliveries -> Nat]
    /\ broken \in BOOLEAN

\* A consumer that is about to mark a success has been answered.
Answered(w) == At(w, "posted") => received[consumer[w].d] > 0

IInv ==
    /\ WorkInv
    /\ RestTypes
    /\ \A w \in Workers : Answered(w)
    /\ SuccessMeansReceived
    /\ LimitSwitchesOff

-----------------------------------------------------------------------------
(* Lemmas about the operators of the model. *)

\* What a consumer at work holds.
LEMMA BusyRow ==
  ASSUME WorkTypes, NEW w \in Workers, Busy(w)
  PROVE  /\ consumer[w] \in WorkRow
         /\ consumer[w].d \in Deliveries /\ consumer[w].k \in Jobs
         /\ Mine(w) \in JobRow
BY DEF WorkTypes, Busy, At, Free, WorkRow, Mine

\* A change of one job's row.
LEMMA JobMove ==
  ASSUME WorkTypes, NEW d \in Deliveries, NEW k \in Jobs, NEW r \in JobRow, job' = [job EXCEPT ![d][k] = r],
         \A e \in Deliveries, l \in Jobs : AttemptLeft(e, l),
         r.state \in {"waiting", "active"} => r.made < Attempts, r.state # "none"
  PROVE  /\ job' \in [Deliveries -> [Jobs -> JobRow]]
         /\ \A e \in Deliveries, l \in Jobs : job'[e][l] = IF e = d /\ l = k THEN r ELSE job[e][l]
         /\ \A e \in Deliveries, l \in Jobs : AttemptLeft(e, l)'
<1>1. job' \in [Deliveries -> [Jobs -> JobRow]]
  BY DEF WorkTypes
<1>2. \A e \in Deliveries, l \in Jobs : job'[e][l] = IF e = d /\ l = k THEN r ELSE job[e][l]
  BY DEF WorkTypes
<1>3. ASSUME NEW e \in Deliveries, NEW l \in Jobs PROVE AttemptLeft(e, l)'
  BY <1>2 DEF AttemptLeft
<1> QED
  BY <1>1, <1>2, <1>3

\* A consumer that goes on to its next statement keeps the invariant.
LEMMA MoveKeeps ==
  ASSUME WorkInv, NEW w \in Workers, Busy(w), NEW phase \in Phases, Move(w, phase),
         UNCHANGED <<job, redrive>>, \A d \in Deliveries : status'[d] = "none" => status[d] = "none"
  PROVE  WorkInv'
<1> DEFINE x == [consumer[w] EXCEPT !.phase = phase]
<1>1. consumer[w] \in WorkRow /\ consumer \in [Workers -> {Free} \union WorkRow]
  BY BusyRow DEF WorkInv, WorkTypes
<1>2. consumer' = [consumer EXCEPT ![w] = x]
  BY DEF Move
<1>3. x \in WorkRow /\ x.d = consumer[w].d /\ x.k = consumer[w].k /\ x.phase # "free"
  BY <1>1 DEF WorkRow, Phases
<1> HIDE DEF x
<1>4. consumer'[w] = x /\ \A v \in Workers : v # w => consumer'[v] = consumer[v]
  BY <1>1, <1>2
<1>5. WorkTypes'
  BY <1>1, <1>2, <1>3 DEF WorkInv, WorkTypes
<1>6. \A v \in Workers : (Busy(v)' <=> Busy(v)) /\ consumer'[v].d = consumer[v].d /\ consumer'[v].k = consumer[v].k
  BY <1>3, <1>4 DEF Busy, At
<1>7. ASSUME NEW v \in Workers PROVE OwnJob(v)'
  BY <1>6 DEF WorkInv, OwnJob, Mine
<1>8. JobsApart'
  BY <1>6 DEF WorkInv, JobsApart
<1>9. \A d \in Deliveries, k \in Jobs : AttemptLeft(d, k)'
  BY DEF WorkInv, AttemptLeft
<1>10. \A d \in Deliveries : FirstOnce(d)'
  BY DEF WorkInv, FirstOnce
<1>11. \A r \in Requests : RedriveOnce(r)'
  BY DEF WorkInv, RedriveOnce
<1> QED
  BY <1>5, <1>7, <1>8, <1>9, <1>10, <1>11 DEF WorkInv

\* So does a consumer that is done with its job, for now or for good.
LEMMA ReleaseKeeps ==
  ASSUME WorkInv, NEW w \in Workers, Busy(w), consumer' = [consumer EXCEPT ![w] = Free], NEW r \in JobRow,
         job' = [job EXCEPT ![consumer[w].d][consumer[w].k] = r],
         r.state \in {"waiting", "active"} => r.made < Attempts, r.state # "none",
         UNCHANGED redrive, \A d \in Deliveries : status'[d] = "none" => status[d] = "none"
  PROVE  WorkInv'
<1>1. PICK d \in Deliveries, k \in Jobs : d = consumer[w].d /\ k = consumer[w].k
  BY BusyRow DEF WorkInv
<1>2. /\ job' \in [Deliveries -> [Jobs -> JobRow]]
      /\ \A e \in Deliveries, l \in Jobs : job'[e][l] = IF e = d /\ l = k THEN r ELSE job[e][l]
      /\ \A e \in Deliveries, l \in Jobs : AttemptLeft(e, l)'
  <2>1. job' = [job EXCEPT ![d][k] = r] /\ WorkTypes /\ \A e \in Deliveries, l \in Jobs : AttemptLeft(e, l)
    BY <1>1 DEF WorkInv
  <2> QED
    BY <2>1, JobMove
<1>3. WorkTypes'
  BY <1>2 DEF WorkInv, WorkTypes
<1>4. ~Busy(w)' /\ \A v \in Workers : v # w => consumer'[v] = consumer[v] /\ (Busy(v)' <=> Busy(v))
  BY DEF WorkInv, WorkTypes, Busy, At, Free
<1>5. ASSUME NEW v \in Workers PROVE OwnJob(v)'
  <2>1. CASE v = w
    BY <1>4, <2>1 DEF OwnJob
  <2>2. CASE v # w /\ Busy(v)
    <3>1. consumer[v].d \in Deliveries /\ consumer[v].k \in Jobs
      BY <2>2, BusyRow DEF WorkInv
    <3>2. consumer[v].d # d \/ consumer[v].k # k
      BY <1>1, <2>2 DEF WorkInv, JobsApart
    <3>3. job[consumer[v].d][consumer[v].k].state = "active"
      BY <2>2 DEF WorkInv, OwnJob, Mine
    <3>4. job'[consumer[v].d][consumer[v].k] = job[consumer[v].d][consumer[v].k]
      BY <1>2, <3>1, <3>2
    <3> QED
      BY <1>4, <2>2, <3>3, <3>4 DEF OwnJob, Mine
  <2>3. CASE v # w /\ ~Busy(v)
    BY <1>4, <2>3 DEF OwnJob
  <2> QED
    BY <2>1, <2>2, <2>3
<1>6. JobsApart'
  BY <1>4 DEF WorkInv, JobsApart
<1>7. job[d][k].state = "active"
  BY <1>1 DEF WorkInv, OwnJob, Mine
<1>8. ASSUME NEW e \in Deliveries PROVE FirstOnce(e)'
  BY <1>2, <1>7 DEF WorkInv, FirstOnce, Jobs
<1>9. ASSUME NEW q \in Requests PROVE RedriveOnce(q)'
  BY <1>2, <1>7 DEF WorkInv, RedriveOnce, Jobs
<1> QED
  BY <1>2, <1>3, <1>5, <1>6, <1>8, <1>9 DEF WorkInv

\* A job that nobody works on changes.
LEMMA JobKeeps ==
  ASSUME WorkInv, NEW d \in Deliveries, NEW k \in Jobs, NEW r \in JobRow, job' = [job EXCEPT ![d][k] = r],
         r.state \in {"waiting", "active"} => r.made < Attempts, r.state # "none",
         consumer' = consumer, job[d][k].state = "active" => \A w \in Workers : ~(Busy(w) /\ consumer[w].d = d /\ consumer[w].k = k),
         redrive' \in [Requests -> {Free} \union RedriveRow],
         \A e \in Deliveries : FirstOnce(e)', \A q \in Requests : RedriveOnce(q)'
  PROVE  WorkInv'
<1>2. /\ job' \in [Deliveries -> [Jobs -> JobRow]]
      /\ \A e \in Deliveries, l \in Jobs : job'[e][l] = IF e = d /\ l = k THEN r ELSE job[e][l]
      /\ \A e \in Deliveries, l \in Jobs : AttemptLeft(e, l)'
  BY JobMove DEF WorkInv
<1>3. WorkTypes'
  BY <1>2 DEF WorkInv, WorkTypes
<1>4. \A v \in Workers : Busy(v)' <=> Busy(v)
  BY DEF Busy, At
<1>5. ASSUME NEW v \in Workers, Busy(v) PROVE OwnJob(v)'
  <2>1. consumer[v].d \in Deliveries /\ consumer[v].k \in Jobs /\ job[consumer[v].d][consumer[v].k].state = "active"
    BY <1>5, BusyRow DEF WorkInv, OwnJob, Mine
  <2>2. ~(consumer[v].d = d /\ consumer[v].k = k)
    BY <1>5, <2>1
  <2> QED
    BY <1>2, <2>1, <2>2 DEF OwnJob, Mine
<1>6. \A v \in Workers : OwnJob(v)'
  BY <1>4, <1>5 DEF OwnJob
<1>7. JobsApart'
  BY <1>4 DEF WorkInv, JobsApart
<1> QED
  BY <1>2, <1>3, <1>6, <1>7 DEF WorkInv

\* Steps that leave jobs and consumers alone.
LEMMA WorkStays ==
  ASSUME WorkInv, UNCHANGED <<job, consumer>>, redrive' \in [Requests -> {Free} \union RedriveRow],
         \A d \in Deliveries : status'[d] = "none" => status[d] = "none",
         \A r \in Requests : redrive[r].phase = "over" => redrive'[r].phase = "over"
  PROVE  WorkInv'
<1>1. WorkTypes' /\ JobsApart'
  BY DEF WorkInv, WorkTypes, JobsApart, Busy, At
<1>2. \A d \in Deliveries, k \in Jobs : AttemptLeft(d, k)'
  BY DEF WorkInv, AttemptLeft
<1>3. \A w \in Workers : OwnJob(w)'
  BY DEF WorkInv, OwnJob, Busy, At, Mine
<1>4. \A d \in Deliveries : FirstOnce(d)'
  BY DEF WorkInv, FirstOnce
<1>5. \A r \in Requests : RedriveOnce(r)'
  BY DEF WorkInv, RedriveOnce
<1> QED
  BY <1>1, <1>2, <1>3, <1>4, <1>5 DEF WorkInv

\* The consumer returns.
LEMMA ReturnKeeps ==
  ASSUME WorkInv, NEW w \in Workers, Busy(w), Return(w), UNCHANGED redrive,
         \A d \in Deliveries : status'[d] = "none" => status[d] = "none"
  PROVE  WorkInv'
<1> DEFINE r == [Mine(w) EXCEPT !.state = "done"]
<1>1. Mine(w) \in JobRow
  BY BusyRow DEF WorkInv
<1>2. r \in JobRow /\ r.state = "done"
  BY <1>1 DEF JobRow
<1>3. job' = [job EXCEPT ![consumer[w].d][consumer[w].k] = r]
  BY DEF Return, Mine
<1>4. consumer' = [consumer EXCEPT ![w] = Free]
  BY DEF Return
<1> HIDE DEF r
<1> QED
  BY <1>2, <1>3, <1>4, ReleaseKeeps

\* The consumer throws: the attempt it had left is counted.
LEMMA ThrowKeeps ==
  ASSUME WorkInv, NEW w \in Workers, Busy(w), Throw(w), UNCHANGED redrive,
         \A d \in Deliveries : status'[d] = "none" => status[d] = "none"
  PROVE  WorkInv'
<1> DEFINE s == IF Final(w) THEN "failed" ELSE "waiting"
           r == [Mine(w) EXCEPT !.made = Mine(w).made + 1, !.state = s]
<1>1. Mine(w) \in JobRow /\ consumer[w].d \in Deliveries /\ consumer[w].k \in Jobs
  BY BusyRow DEF WorkInv
<1>2. Mine(w).state = "active" /\ Mine(w).made < Attempts
  BY <1>1 DEF WorkInv, OwnJob, AttemptLeft, Mine
<1>3. /\ r \in JobRow /\ r.state \in {"failed", "waiting"}
      /\ r.state = "waiting" => r.made < Attempts
  <2>1. s \in {"failed", "waiting"} /\ (s = "waiting" => Mine(w).made + 1 < Attempts)
    BY <1>1, <1>2, WebhooksAssumption DEF JobRow, Final
  <2>2. Mine(w).made + 1 \in 0..Attempts
    BY <1>1, <1>2, WebhooksAssumption DEF JobRow
  <2> HIDE DEF s
  <2> QED
    BY <1>1, <2>1, <2>2 DEF JobRow
<1>4. job' = [job EXCEPT ![consumer[w].d][consumer[w].k] = r]
  BY DEF Throw, Mine
<1>5. consumer' = [consumer EXCEPT ![w] = Free]
  BY DEF Throw
<1> HIDE DEF r
<1> QED
  BY <1>3, <1>4, <1>5, ReleaseKeeps

\* A consumer writes the outcome of its delivery.
LEMMA MarkMove ==
  ASSUME WorkTypes, status \in [Deliveries -> Statuses], NEW w \in Workers, Busy(w),
         NEW s \in Statuses \ {"none"}, Mark(w, s)
  PROVE  /\ status' \in [Deliveries -> Statuses]
         /\ \A d \in Deliveries : status'[d] = IF d = consumer[w].d THEN s ELSE status[d]
         /\ \A d \in Deliveries : status'[d] = "none" => status[d] = "none"
<1>1. consumer[w].d \in Deliveries
  BY BusyRow
<1> QED
  BY <1>1 DEF Mark

-----------------------------------------------------------------------------
(* Jobs, consumers and redrives. *)

\* Nothing is there at the start.
LEMMA WorkInit == Init => WorkInv
<1> SUFFICES ASSUME Init PROVE WorkInv
  OBVIOUS
<1>1. NoJob \in JobRow /\ NoJob.state = "none" /\ NoJob.made < Attempts
  BY WebhooksAssumption DEF NoJob, JobRow
<1>2. \A d \in Deliveries, k \in Jobs : job[d][k] = NoJob
  BY DEF Init
<1>3. FirstJob \in Jobs /\ Requests \subseteq Jobs
  BY DEF Jobs
<1>4. WorkTypes
  BY <1>1 DEF Init, WorkTypes
<1>5. \A w \in Workers : ~Busy(w)
  BY DEF Init, Busy, At, Free
<1> QED
  BY <1>1, <1>2, <1>3, <1>4, <1>5 DEF WorkInv, AttemptLeft, OwnJob, JobsApart, FirstOnce, RedriveOnce

\* A job is taken by one consumer.
LEMMA WorkTake ==
  ASSUME WorkInv, NEW w \in Workers, NEW d \in Deliveries, NEW k \in Jobs, Take(w, d, k)
  PROVE  WorkInv'
<1> DEFINE x == [phase |-> "read", d |-> d, k |-> k]
           r == [job[d][k] EXCEPT !.state = "active"]
<1>1. job[d][k] \in JobRow /\ job[d][k].state = "waiting" /\ job[d][k].made < Attempts
  BY DEF WorkInv, WorkTypes, Take, AttemptLeft
<1>2. r \in JobRow /\ r.state = "active" /\ r.made < Attempts
  BY <1>1 DEF JobRow
<1>3. job' = [job EXCEPT ![d][k] = r] /\ consumer' = [consumer EXCEPT ![w] = x] /\ UNCHANGED <<status, redrive>>
  BY DEF Take
<1>4. x \in WorkRow /\ x.phase # "free" /\ x.d = d /\ x.k = k
  BY DEF WorkRow, Phases
<1> HIDE DEF x, r
<1>5. WorkTypes /\ \A e \in Deliveries, l \in Jobs : AttemptLeft(e, l)
  BY DEF WorkInv
<1>6. /\ job' \in [Deliveries -> [Jobs -> JobRow]]
      /\ \A e \in Deliveries, l \in Jobs : job'[e][l] = IF e = d /\ l = k THEN r ELSE job[e][l]
      /\ \A e \in Deliveries, l \in Jobs : AttemptLeft(e, l)'
  BY <1>2, <1>3, <1>5, JobMove
<1>7. consumer'[w] = x /\ \A v \in Workers : v # w => consumer'[v] = consumer[v]
  BY <1>3, <1>5 DEF WorkTypes
<1>8. WorkTypes'
  BY <1>3, <1>4, <1>5, <1>6 DEF WorkTypes
<1>9. \A v \in Workers : Busy(v) => ~(consumer[v].d = d /\ consumer[v].k = k)
  BY <1>1 DEF WorkInv, OwnJob, Mine
<1>10. ASSUME NEW v \in Workers PROVE OwnJob(v)'
  <2>1. CASE v = w
    BY <1>2, <1>4, <1>6, <1>7, <2>1 DEF OwnJob, Mine
  <2>2. CASE v # w /\ Busy(v)
    <3>1. consumer[v].d \in Deliveries /\ consumer[v].k \in Jobs /\ job[consumer[v].d][consumer[v].k].state = "active"
      BY <1>5, <2>2, BusyRow DEF WorkInv, OwnJob, Mine
    <3> QED
      BY <1>6, <1>7, <1>9, <2>2, <3>1 DEF OwnJob, Mine
  <2>3. CASE v # w /\ ~Busy(v)
    BY <1>7, <2>3 DEF OwnJob, Busy, At
  <2> QED
    BY <2>1, <2>2, <2>3
<1>11. JobsApart'
  <2>1. \A v \in Workers : v # w => (Busy(v)' <=> Busy(v))
    BY <1>7 DEF Busy, At
  <2> SUFFICES ASSUME NEW u \in Workers, NEW v \in Workers, u # v, Busy(u)', Busy(v)'
               PROVE  consumer'[u].d # consumer'[v].d \/ consumer'[u].k # consumer'[v].k
    BY DEF JobsApart
  <2>2. CASE u # w /\ v # w
    BY <1>7, <2>1, <2>2 DEF WorkInv, JobsApart
  <2>3. CASE u = w \/ v = w
    BY <1>4, <1>7, <1>9, <2>1, <2>3
  <2> QED
    BY <2>2, <2>3
<1>12. ASSUME NEW e \in Deliveries PROVE FirstOnce(e)'
  BY <1>1, <1>3, <1>6 DEF WorkInv, FirstOnce, Jobs
<1>13. ASSUME NEW q \in Requests PROVE RedriveOnce(q)'
  BY <1>1, <1>3, <1>6 DEF WorkInv, RedriveOnce, Jobs
<1> QED
  BY <1>6, <1>8, <1>10, <1>11, <1>12, <1>13 DEF WorkInv

\* BullMQ restarts the job of no consumer.
LEMMA WorkStalled ==
  ASSUME WorkInv, NEW d \in Deliveries, NEW k \in Jobs, Stalled(d, k)
  PROVE  WorkInv'
<1> DEFINE r == IF job[d][k].stalls < MaxStalls
                THEN [job[d][k] EXCEPT !.state = "waiting", !.stalls = job[d][k].stalls + 1]
                ELSE [job[d][k] EXCEPT !.state = "failed"]
<1>1. job[d][k] \in JobRow /\ job[d][k].state = "active" /\ job[d][k].made < Attempts
  BY DEF WorkInv, WorkTypes, Stalled, AttemptLeft
<1>2. r \in JobRow /\ r.state \in {"waiting", "failed"} /\ r.made < Attempts
  <2>1. CASE job[d][k].stalls < MaxStalls
    <3>1. job[d][k].stalls + 1 \in 0..MaxStalls
      BY <1>1, <2>1, WebhooksAssumption DEF JobRow
    <3> QED
      BY <1>1, <2>1, <3>1 DEF JobRow
  <2>2. CASE ~(job[d][k].stalls < MaxStalls)
    BY <1>1, <2>2 DEF JobRow
  <2> QED
    BY <2>1, <2>2
<1>3. job' = [job EXCEPT ![d][k] = r] /\ UNCHANGED <<status, consumer, redrive>>
  BY DEF Stalled
<1> HIDE DEF r
<1>4. \A w \in Workers : ~(Busy(w) /\ consumer[w].d = d /\ consumer[w].k = k)
  BY DEF Stalled, Busy
<1>5. \A e \in Deliveries, l \in Jobs : job'[e][l] = IF e = d /\ l = k THEN r ELSE job[e][l]
  BY <1>3 DEF WorkInv, WorkTypes
<1>6. \A e \in Deliveries : FirstOnce(e)'
  BY <1>1, <1>3, <1>5 DEF WorkInv, FirstOnce, Jobs
<1>7. \A q \in Requests : RedriveOnce(q)'
  BY <1>1, <1>3, <1>5 DEF WorkInv, RedriveOnce, Jobs
<1>8. redrive' \in [Requests -> {Free} \union RedriveRow]
  BY <1>3 DEF WorkInv, WorkTypes
<1> QED
  BY <1>2, <1>3, <1>4, <1>6, <1>7, <1>8, JobKeeps

\* The fan-out adds the first job of a delivery that had none.
LEMMA WorkFanOut ==
  ASSUME WorkInv, status \in [Deliveries -> Statuses], NEW d \in Deliveries, FanOut(d)
  PROVE  WorkInv'
<1> DEFINE r == [job[d][FirstJob] EXCEPT !.state = "waiting"]
<1>0. FirstJob \in Jobs /\ FirstJob \notin Requests
  BY WebhooksAssumption DEF Jobs
<1>1. job[d][FirstJob] \in JobRow /\ job[d][FirstJob].state = "none" /\ job[d][FirstJob].made < Attempts
  BY <1>0 DEF WorkInv, WorkTypes, FanOut, FirstOnce, AttemptLeft
<1>2. r \in JobRow /\ r.state = "waiting" /\ r.made < Attempts
  BY <1>1 DEF JobRow
<1>3. job' = [job EXCEPT ![d][FirstJob] = r] /\ UNCHANGED <<consumer, redrive>>
  BY DEF FanOut
<1> HIDE DEF r
<1>4. \A e \in Deliveries, l \in Jobs : job'[e][l] = IF e = d /\ l = FirstJob THEN r ELSE job[e][l]
  BY <1>3 DEF WorkInv, WorkTypes
<1>5. \A e \in Deliveries : status'[e] = IF e = d THEN "pending" ELSE status[e]
  BY DEF FanOut
<1>6. \A e \in Deliveries : FirstOnce(e)'
  BY <1>0, <1>4, <1>5 DEF WorkInv, FirstOnce
<1>7. \A q \in Requests : RedriveOnce(q)'
  BY <1>0, <1>3, <1>4 DEF WorkInv, RedriveOnce, Jobs
<1>8. redrive' \in [Requests -> {Free} \union RedriveRow]
  BY <1>3 DEF WorkInv, WorkTypes
<1>9. job[d][FirstJob].state # "active"
  BY <1>1
<1> QED
  BY <1>0, <1>2, <1>3, <1>6, <1>7, <1>8, <1>9, JobKeeps

\* Each statement of a consumer.
LEMMA WorkStep ==
  ASSUME WorkInv, status \in [Deliveries -> Statuses], NEW w \in Workers,
         \/ Read(w) \/ MarkOff(w) \/ Post(w) \/ MarkSuccess(w) \/ ResetStrikes(w)
         \/ MarkFailed(w) \/ Strike(w) \/ Disable(w) \/ DatabaseFails(w)
  PROVE  WorkInv'
<1> DEFINE Grows == \A d \in Deliveries : status'[d] = "none" => status[d] = "none"
<1>0. Busy(w) /\ WorkTypes
  BY Zenon DEF Read, MarkOff, Post, MarkSuccess, ResetStrikes, MarkFailed, Strike, Disable, DatabaseFails, Busy, At, WorkInv
<1>1. ASSUME NEW s \in Statuses \ {"none"}, Mark(w, s) PROVE Grows
  BY <1>0, <1>1, MarkMove
<1>2. Statuses = {"none", "pending", "failed", "success", "exhausted"}
  BY DEF Statuses
<1>3. CASE Read(w)
  <2>1. PICK phase \in Phases : Move(w, phase)
    BY <1>3 DEF Read, Phases
  <2> QED
    BY <1>0, <1>3, <2>1, MoveKeeps DEF Read
<1>4. CASE MarkOff(w)
  <2>1. Grows
    BY <1>1, <1>2, <1>4 DEF MarkOff
  <2> QED
    BY <1>0, <1>4, <2>1, ReturnKeeps DEF MarkOff
<1>5. CASE Post(w)
  <2>1. PICK phase \in Phases : Move(w, phase)
    BY <1>5 DEF Post, Phases
  <2> QED
    BY <1>0, <1>5, <2>1, MoveKeeps DEF Post
<1>6. CASE MarkSuccess(w)
  <2>1. Grows
    BY <1>1, <1>2, <1>6 DEF MarkSuccess
  <2>2. "reset" \in Phases
    BY DEF Phases
  <2> QED
    BY <1>0, <1>6, <2>1, <2>2, MoveKeeps DEF MarkSuccess
<1>7. CASE ResetStrikes(w)
  BY <1>0, <1>7, ReturnKeeps DEF ResetStrikes
<1>8. CASE MarkFailed(w)
  <2>1. Grows
    <3>1. PICK s \in Statuses \ {"none"} : Mark(w, s)
      BY <1>2, <1>8 DEF MarkFailed
    <3> QED
      BY <1>1, <3>1
  <2>2. "strike" \in Phases
    BY DEF Phases
  <2>3. CASE Move(w, "strike") /\ UNCHANGED job
    BY <1>0, <1>8, <2>1, <2>2, <2>3, MoveKeeps DEF MarkFailed
  <2>4. CASE Throw(w)
    BY <1>0, <1>8, <2>1, <2>4, ThrowKeeps DEF MarkFailed
  <2> QED
    BY <1>8, <2>3, <2>4 DEF MarkFailed
<1>9. CASE Strike(w)
  <2>1. "disable" \in Phases /\ UNCHANGED <<status, redrive>>
    BY <1>9 DEF Phases, Strike
  <2>2. CASE Move(w, "disable") /\ UNCHANGED job
    BY <1>0, <2>1, <2>2, MoveKeeps
  <2>3. CASE Throw(w)
    BY <1>0, <2>1, <2>3, ThrowKeeps
  <2> QED
    BY <1>9, <2>2, <2>3 DEF Strike
<1>10. CASE Disable(w)
  BY <1>0, <1>10, ThrowKeeps DEF Disable
<1>11. CASE DatabaseFails(w)
  <2>1. "failed" \in Phases /\ UNCHANGED <<status, redrive>>
    BY <1>11 DEF Phases, DatabaseFails
  <2>2. CASE Move(w, "failed") /\ UNCHANGED job
    BY <1>0, <2>1, <2>2, MoveKeeps
  <2>3. CASE Throw(w)
    BY <1>0, <2>1, <2>3, ThrowKeeps
  <2> QED
    BY <1>11, <2>2, <2>3 DEF DatabaseFails
<1> QED
  BY <1>3, <1>4, <1>5, <1>6, <1>7, <1>8, <1>9, <1>10, <1>11

\* A dead consumer leaves its job active.
LEMMA WorkCrash ==
  ASSUME WorkInv, NEW w \in Workers, Crash(w)
  PROVE  WorkInv'
<1>1. Busy(w) /\ consumer' = [consumer EXCEPT ![w] = Free] /\ UNCHANGED <<status, job, redrive>>
  BY DEF Crash, Busy
<1>2. PICK d \in Deliveries, k \in Jobs : d = consumer[w].d /\ k = consumer[w].k
  BY <1>1, BusyRow DEF WorkInv
<1>3. job[d][k] \in JobRow /\ job[d][k].state = "active" /\ job[d][k].made < Attempts
  BY <1>1, <1>2 DEF WorkInv, WorkTypes, OwnJob, AttemptLeft, Mine
<1>4. job' = [job EXCEPT ![d][k] = job[d][k]]
  BY <1>1 DEF WorkInv, WorkTypes
<1>5. job' = [job EXCEPT ![consumer[w].d][consumer[w].k] = job[d][k]]
  BY <1>2, <1>4
<1> QED
  BY <1>1, <1>3, <1>5, ReleaseKeeps

\* A redrive adds its job once.
LEMMA WorkRedrive ==
  ASSUME WorkInv, status \in [Deliveries -> Statuses], NEW r \in Requests,
         (\E d \in Deliveries : CheckRedrive(r, d)) \/ MarkPending(r) \/ AddJob(r) \/ RedriveDies(r)
  PROVE  WorkInv'
<1>0. redrive \in [Requests -> {Free} \union RedriveRow]
  BY DEF WorkInv, WorkTypes
<1>1. ASSUME redrive[r].phase \in {"checked", "marked"} PROVE redrive[r] \in RedriveRow /\ redrive[r].d \in Deliveries
  BY <1>0, <1>1 DEF Free, RedriveRow
<1>2. ASSUME NEW x \in RedriveRow, redrive' = [redrive EXCEPT ![r] = x], redrive[r].phase # "over",
             UNCHANGED <<job, consumer>>, \A d \in Deliveries : status'[d] = "none" => status[d] = "none"
      PROVE  WorkInv'
  <2>1. redrive' \in [Requests -> {Free} \union RedriveRow]
    BY <1>0, <1>2
  <2>2. \A q \in Requests : redrive[q].phase = "over" => redrive'[q].phase = "over"
    BY <1>0, <1>2
  <2> QED
    BY <1>2, <2>1, <2>2, WorkStays
<1>3. ASSUME NEW d \in Deliveries, CheckRedrive(r, d) PROVE WorkInv'
  <2>1. [phase |-> "checked", d |-> d] \in RedriveRow
    BY DEF RedriveRow
  <2> QED
    BY <1>2, <1>3, <2>1 DEF CheckRedrive
<1>4. ASSUME NEW phase \in {"marked", "over"}, redrive[r].phase \in {"checked", "marked"}
      PROVE  [redrive[r] EXCEPT !.phase = phase] \in RedriveRow
  BY <1>1, <1>4 DEF RedriveRow
<1>5. CASE MarkPending(r)
  <2> DEFINE x == [redrive[r] EXCEPT !.phase = "marked"]
  <2>1. x \in RedriveRow /\ redrive' = [redrive EXCEPT ![r] = x]
    BY <1>4, <1>5 DEF MarkPending
  <2>2. \A d \in Deliveries : status'[d] = "none" => status[d] = "none"
    BY <1>5 DEF MarkPending
  <2> HIDE DEF x
  <2> QED
    BY <1>2, <1>5, <2>1, <2>2 DEF MarkPending
<1>6. CASE RedriveDies(r)
  <2> DEFINE x == [redrive[r] EXCEPT !.phase = "over"]
  <2>1. x \in RedriveRow /\ redrive' = [redrive EXCEPT ![r] = x]
    BY <1>4, <1>6 DEF RedriveDies
  <2> HIDE DEF x
  <2> QED
    BY <1>2, <1>6, <2>1 DEF RedriveDies
<1>7. CASE AddJob(r)
  <2>1. PICK d \in Deliveries : d = redrive[r].d
    BY <1>1, <1>7 DEF AddJob
  <2> DEFINE x == [redrive[r] EXCEPT !.phase = "over"]
             j == [job[d][r] EXCEPT !.state = "waiting"]
  <2>2. redrive' = [redrive EXCEPT ![r] = x] /\ job' = [job EXCEPT ![d][r] = j] /\ UNCHANGED <<status, consumer>>
    BY <1>7, <2>1 DEF AddJob
  <2>3. x \in RedriveRow /\ x.phase = "over"
    BY <1>1, <1>7 DEF RedriveRow, AddJob
  <2>4. r \in Jobs /\ FirstJob # r
    BY WebhooksAssumption DEF Jobs
  <2>5. job[d][r] \in JobRow /\ job[d][r].state = "none" /\ job[d][r].made < Attempts
    BY <1>7, <2>4 DEF AddJob, WorkInv, WorkTypes, RedriveOnce, AttemptLeft
  <2>6. j \in JobRow /\ j.state = "waiting" /\ j.made < Attempts
    BY <2>5 DEF JobRow
  <2> HIDE DEF x, j
  <2>7. \A e \in Deliveries, l \in Jobs : job'[e][l] = IF e = d /\ l = r THEN j ELSE job[e][l]
    BY <2>2 DEF WorkInv, WorkTypes
  <2>8. \A e \in Deliveries : FirstOnce(e)'
    BY <2>2, <2>4, <2>7 DEF WorkInv, FirstOnce, Jobs
  <2>9. \A q \in Requests : RedriveOnce(q)'
    BY <1>0, <2>2, <2>3, <2>7 DEF WorkInv, RedriveOnce, Jobs
  <2>10. redrive' \in [Requests -> {Free} \union RedriveRow]
    BY <1>0, <2>2, <2>3
  <2> QED
    BY <2>2, <2>4, <2>5, <2>6, <2>8, <2>9, <2>10, JobKeeps
<1> QED
  BY <1>3, <1>5, <1>6, <1>7

\* Every step keeps jobs, consumers and redrives in order.
LEMMA WorkNext == WorkInv /\ RestTypes /\ [Next]_vars => WorkInv'
<1> SUFFICES ASSUME WorkInv, RestTypes, [Next]_vars PROVE WorkInv'
  OBVIOUS
<1>0. status \in [Deliveries -> Statuses]
  BY DEF RestTypes
<1>1. ASSUME NEW d \in Deliveries, FanOut(d) PROVE WorkInv'
  BY <1>0, <1>1, WorkFanOut
<1>2. ASSUME NEW d \in Deliveries, NEW k \in Jobs, Stalled(d, k) PROVE WorkInv'
  BY <1>2, WorkStalled
<1>3. ASSUME NEW w \in Workers, NEW d \in Deliveries, NEW k \in Jobs, Take(w, d, k) PROVE WorkInv'
  BY <1>3, WorkTake
<1>4. ASSUME NEW w \in Workers,
             \/ Read(w) \/ MarkOff(w) \/ Post(w) \/ MarkSuccess(w) \/ ResetStrikes(w)
             \/ MarkFailed(w) \/ Strike(w) \/ Disable(w) \/ DatabaseFails(w)
      PROVE  WorkInv'
  BY <1>0, <1>4, WorkStep
<1>5. ASSUME NEW w \in Workers, Crash(w) PROVE WorkInv'
  BY <1>5, WorkCrash
<1>6. ASSUME NEW r \in Requests,
             (\E d \in Deliveries : CheckRedrive(r, d)) \/ MarkPending(r) \/ AddJob(r) \/ RedriveDies(r)
      PROVE  WorkInv'
  BY <1>0, <1>6, WorkRedrive
<1>7. ASSUME UNCHANGED <<status, job, consumer, redrive>> PROVE WorkInv'
  BY <1>7, WorkStays DEF WorkInv, WorkTypes
<1>8. CASE Enable \/ SwitchOff \/ Remove \/ UNCHANGED vars
  BY <1>7, <1>8 DEF Enable, SwitchOff, Remove, vars
<1> QED
  BY <1>1, <1>2, <1>3, <1>4, <1>5, <1>6, <1>8 DEF Next

-----------------------------------------------------------------------------
(* The delivery's state, the receiver and the endpoint. *)

\* What a statement of a consumer does to the rows of the consumers: its own
\* moves on or is free again, the others stay.
LEMMA OneMoves ==
  ASSUME WorkTypes, NEW w \in Workers,
         (\E phase \in Phases : Move(w, phase)) \/ consumer' = [consumer EXCEPT ![w] = Free]
  PROVE  /\ \A v \in Workers : v # w => consumer'[v] = consumer[v]
         /\ \A phase \in Phases : Busy(w) /\ Move(w, phase) => At(w, phase)' /\ consumer'[w].d = consumer[w].d
         /\ consumer' = [consumer EXCEPT ![w] = Free] => consumer'[w] = Free
<1>1. \A v \in Workers : v # w => consumer'[v] = consumer[v]
  BY DEF WorkTypes, Move
<1>2. ASSUME NEW phase \in Phases, Busy(w), Move(w, phase) PROVE At(w, phase)' /\ consumer'[w].d = consumer[w].d
  <2>1. consumer[w] \in WorkRow
    BY <1>2, BusyRow
  <2> QED
    BY <1>2, <2>1 DEF WorkTypes, Move, At, WorkRow
<1>3. consumer' = [consumer EXCEPT ![w] = Free] => consumer'[w] = Free
  BY DEF WorkTypes
<1> QED
  BY <1>1, <1>2, <1>3

\* The types of the rest.
LEMMA RestNext == WorkInv /\ RestTypes /\ [Next]_vars => RestTypes'
<1> SUFFICES ASSUME WorkInv, RestTypes, [Next]_vars PROVE RestTypes'
  OBVIOUS
<1>0. ASSUME NEW w \in Workers, Busy(w), NEW s \in Statuses \ {"none"}, Mark(w, s)
      PROVE  status' \in [Deliveries -> Statuses]
  BY <1>0, MarkMove DEF WorkInv, RestTypes
<1>1. ASSUME NEW w \in Workers,
             MarkOff(w) \/ MarkSuccess(w) \/ MarkFailed(w)
      PROVE  RestTypes'
  <2>1. UNCHANGED <<endpoint, received, broken>>
    BY <1>1 DEF MarkOff, MarkSuccess, MarkFailed
  <2>2. PICK s \in Statuses \ {"none"} : Mark(w, s)
    BY <1>1 DEF MarkOff, MarkSuccess, MarkFailed, Statuses
  <2>3. Busy(w)
    BY <1>1 DEF MarkOff, MarkSuccess, MarkFailed, Busy, At
  <2> QED
    BY <1>0, <2>1, <2>2, <2>3 DEF RestTypes
<1>2. ASSUME NEW d \in Deliveries, FanOut(d) PROVE RestTypes'
  BY <1>2 DEF FanOut, RestTypes, Statuses
<1>3. ASSUME NEW r \in Requests, MarkPending(r) PROVE RestTypes'
  BY <1>3 DEF MarkPending, RestTypes, Statuses
<1>4. ASSUME NEW w \in Workers, Post(w) PROVE RestTypes'
  <2>1. received' \in [Deliveries -> Nat]
    BY <1>4 DEF Post, RestTypes
  <2> QED
    BY <1>4, <2>1 DEF Post, RestTypes
<1>5. ASSUME NEW w \in Workers, ResetStrikes(w) \/ Strike(w) \/ Disable(w) PROVE RestTypes'
  <2>1. endpoint' \in [active : BOOLEAN, deleted : BOOLEAN, failures : Nat]
    <3>1. endpoint \in [active : BOOLEAN, deleted : BOOLEAN, failures : Nat]
      BY DEF RestTypes
    <3>2. \/ endpoint' = [endpoint EXCEPT !.failures = 0]
          \/ endpoint' = [endpoint EXCEPT !.failures = @ + 1]
          \/ endpoint' = [endpoint EXCEPT !.active = FALSE]
      BY <1>5 DEF ResetStrikes, Strike, Disable
    <3>3. CASE endpoint' = [endpoint EXCEPT !.failures = 0]
      BY <3>1, <3>3
    <3>4. CASE endpoint' = [endpoint EXCEPT !.failures = @ + 1]
      BY <3>1, <3>4
    <3>5. CASE endpoint' = [endpoint EXCEPT !.active = FALSE]
      BY <3>1, <3>5
    <3> QED
      BY <3>2, <3>3, <3>4, <3>5
  <2> QED
    BY <1>5, <2>1 DEF ResetStrikes, Strike, Disable, RestTypes
<1>6. ASSUME Enable \/ SwitchOff \/ Remove PROVE RestTypes'
  <2>1. endpoint' \in [active : BOOLEAN, deleted : BOOLEAN, failures : Nat]
    <3>1. endpoint \in [active : BOOLEAN, deleted : BOOLEAN, failures : Nat]
      BY DEF RestTypes
    <3>2. \/ endpoint' = [endpoint EXCEPT !.active = TRUE, !.failures = 0]
          \/ endpoint' = [endpoint EXCEPT !.active = FALSE]
          \/ endpoint' = [endpoint EXCEPT !.active = FALSE, !.deleted = TRUE]
      BY <1>6 DEF Enable, SwitchOff, Remove
    <3>3. CASE endpoint' = [endpoint EXCEPT !.active = TRUE, !.failures = 0]
      BY <3>1, <3>3
    <3>4. CASE endpoint' = [endpoint EXCEPT !.active = FALSE]
      BY <3>1, <3>4
    <3>5. CASE endpoint' = [endpoint EXCEPT !.active = FALSE, !.deleted = TRUE]
      BY <3>1, <3>5
    <3> QED
      BY <3>2, <3>3, <3>4, <3>5
  <2> QED
    BY <1>6, <2>1 DEF Enable, SwitchOff, Remove, RestTypes
<1>7. ASSUME UNCHANGED <<status, endpoint, received>>, broken' = broken \/ broken' = TRUE PROVE RestTypes'
  BY <1>7 DEF RestTypes
<1>8. ASSUME NEW d \in Deliveries, NEW k \in Jobs, Stalled(d, k) PROVE RestTypes'
  BY <1>7, <1>8 DEF Stalled
<1>9. ASSUME NEW w \in Workers, NEW d \in Deliveries, NEW k \in Jobs, Take(w, d, k) PROVE RestTypes'
  BY <1>7, <1>9 DEF Take
<1>10. ASSUME NEW w \in Workers, Read(w) \/ DatabaseFails(w) \/ Crash(w) PROVE RestTypes'
  BY <1>7, <1>10 DEF Read, DatabaseFails, Crash
<1>11. ASSUME NEW r \in Requests, (\E d \in Deliveries : CheckRedrive(r, d)) \/ AddJob(r) \/ RedriveDies(r)
       PROVE  RestTypes'
  BY <1>7, <1>11 DEF CheckRedrive, AddJob, RedriveDies
<1>12. CASE UNCHANGED vars
  BY <1>7, <1>12 DEF vars
<1> QED
  BY <1>1, <1>2, <1>3, <1>4, <1>5, <1>6, <1>8, <1>9, <1>10, <1>11, <1>12 DEF Next

\* Who is about to mark a success was answered by this step or before.
LEMMA AnsweredStays ==
  ASSUME IInv, UNCHANGED <<consumer, received>>
  PROVE  \A v \in Workers : Answered(v)'
BY DEF IInv, Answered, At

\* A step of one consumer that does not end up there.
LEMMA AnsweredKept ==
  ASSUME IInv, NEW w \in Workers, ~At(w, "posted")', UNCHANGED received,
         \A v \in Workers : v # w => consumer'[v] = consumer[v]
  PROVE  \A v \in Workers : Answered(v)'
BY DEF IInv, Answered, At

\* What the receiver has got when a success is marked.
LEMMA AnsweredNext == IInv /\ [Next]_vars => \A v \in Workers : Answered(v)'
<1> SUFFICES ASSUME IInv, [Next]_vars PROVE \A v \in Workers : Answered(v)'
  OBVIOUS
<1> DEFINE Goal == \A v \in Workers : Answered(v)'
<1>0. WorkTypes /\ Free.phase = "free" /\ received \in [Deliveries -> Nat]
  BY DEF IInv, WorkInv, RestTypes, Free
<1>1. ASSUME NEW w \in Workers, NEW phase \in Phases \ {"posted"}, Busy(w), Move(w, phase), UNCHANGED received PROVE Goal
  <2>1. At(w, phase)' /\ \A v \in Workers : v # w => consumer'[v] = consumer[v]
    BY <1>0, <1>1, OneMoves
  <2>2. ~At(w, "posted")'
    BY <1>1, <2>1 DEF At
  <2> QED
    BY <1>1, <2>1, <2>2, AnsweredKept
<1>2. ASSUME NEW w \in Workers, consumer' = [consumer EXCEPT ![w] = Free], UNCHANGED received PROVE Goal
  <2>1. consumer'[w] = Free /\ \A v \in Workers : v # w => consumer'[v] = consumer[v]
    BY <1>0, <1>2, OneMoves
  <2>2. ~At(w, "posted")'
    BY <1>0, <2>1 DEF At
  <2> QED
    BY <1>2, <2>1, <2>2, AnsweredKept
<1>3. ASSUME UNCHANGED <<consumer, received>> PROVE Goal
  BY <1>3, AnsweredStays
<1>4. ASSUME NEW w \in Workers, Post(w) PROVE Goal
  <2>1. Busy(w) /\ "posted" \in Phases /\ "failed" \in Phases
    BY <1>4 DEF Post, Busy, At, Phases
  <2>2. PICK phase \in {"posted", "failed"} : Move(w, phase)
    BY <1>4 DEF Post
  <2>3. At(w, phase)' /\ consumer'[w].d = consumer[w].d /\ \A v \in Workers : v # w => consumer'[v] = consumer[v]
    BY <1>0, <2>1, <2>2, OneMoves
  <2>4. consumer[w].d \in Deliveries
    BY <1>0, <2>1, BusyRow
  <2>5. phase = "posted" => received'[consumer[w].d] = received[consumer[w].d] + 1
    <3>1. ASSUME Move(w, "failed"), phase = "posted" PROVE FALSE
      <4>1. At(w, "failed")'
        BY <1>0, <2>1, <3>1, OneMoves
      <4> QED
        BY <2>3, <3>1, <4>1 DEF At
    <3> QED
      BY <1>0, <1>4, <2>4, <3>1 DEF Post
  <2>6. \A d \in Deliveries : received'[d] >= received[d] /\ received'[d] \in Nat /\ received[d] \in Nat
    BY <1>0, <1>4 DEF Post
  <2>7. ASSUME NEW v \in Workers PROVE Answered(v)'
    <3>1. CASE v = w
      BY <2>3, <2>4, <2>5, <2>6, <3>1 DEF Answered, At
    <3>2. CASE v # w /\ At(v, "posted")
      <4>1. consumer[v].d \in Deliveries
        BY <1>0, <3>2, BusyRow DEF Busy, At
      <4>2. received[consumer[v].d] > 0
        BY <3>2 DEF IInv, Answered
      <4> QED
        BY <2>3, <2>6, <3>2, <4>1, <4>2 DEF Answered
    <3>3. CASE v # w /\ ~At(v, "posted")
      BY <2>3, <3>3 DEF Answered, At
    <3> QED
      BY <3>1, <3>2, <3>3
  <2> QED
    BY <2>7
<1>5. ASSUME NEW w \in Workers, NEW d \in Deliveries, NEW k \in Jobs, Take(w, d, k) PROVE Goal
  <2>1. ~At(w, "posted")' /\ \A v \in Workers : v # w => consumer'[v] = consumer[v]
    BY <1>0, <1>5 DEF Take, WorkTypes, At
  <2> QED
    BY <1>5, <2>1, AnsweredKept DEF Take
<1>6. ASSUME NEW w \in Workers, Read(w) \/ MarkSuccess(w) PROVE Goal
  <2>1. Busy(w) /\ UNCHANGED received
    BY <1>6 DEF Read, MarkSuccess, Busy, At
  <2>2. PICK phase \in Phases \ {"posted"} : Move(w, phase)
    BY <1>6 DEF Read, MarkSuccess, Phases
  <2> QED
    BY <1>1, <2>1, <2>2
<1>7. ASSUME NEW w \in Workers, MarkOff(w) \/ ResetStrikes(w) \/ Disable(w) \/ Crash(w) PROVE Goal
  BY <1>2, <1>7 DEF MarkOff, ResetStrikes, Disable, Crash, Return, Throw
<1>8. ASSUME NEW w \in Workers, MarkFailed(w) \/ Strike(w) \/ DatabaseFails(w) PROVE Goal
  <2>1. Busy(w) /\ UNCHANGED received
    BY <1>8 DEF MarkFailed, Strike, DatabaseFails, Busy, At
  <2>2. (\E phase \in Phases \ {"posted"} : Move(w, phase)) \/ Throw(w)
    BY <1>8, Zenon DEF MarkFailed, Strike, DatabaseFails, Phases
  <2> QED
    BY <1>1, <1>2, <2>1, <2>2 DEF Throw
<1>9. ASSUME NEW d \in Deliveries, FanOut(d) \/ \E k \in Jobs : Stalled(d, k) PROVE Goal
  BY <1>3, <1>9 DEF FanOut, Stalled
<1>10. ASSUME NEW r \in Requests,
              (\E d \in Deliveries : CheckRedrive(r, d)) \/ MarkPending(r) \/ AddJob(r) \/ RedriveDies(r)
       PROVE  Goal
  BY <1>3, <1>10 DEF CheckRedrive, MarkPending, AddJob, RedriveDies
<1>11. CASE Enable \/ SwitchOff \/ Remove \/ UNCHANGED vars
  BY <1>3, <1>11 DEF Enable, SwitchOff, Remove, vars
<1> QED
  BY <1>4, <1>5, <1>6, <1>7, <1>8, <1>9, <1>10, <1>11 DEF Next

\* A success is marked by a consumer that was answered, and what was received
\* stays received.
LEMMA SuccessNext == IInv /\ [Next]_vars => SuccessMeansReceived'
<1> SUFFICES ASSUME IInv, [Next]_vars PROVE SuccessMeansReceived'
  OBVIOUS
<1> USE DEF SuccessMeansReceived
<1>0. WorkTypes /\ status \in [Deliveries -> Statuses] /\ received \in [Deliveries -> Nat]
  BY DEF IInv, WorkInv, RestTypes
<1>1. ASSUME \A d \in Deliveries : status'[d] = "success" => status[d] = "success", UNCHANGED received
      PROVE  SuccessMeansReceived'
  BY <1>1 DEF IInv
<1>2. ASSUME NEW w \in Workers, MarkSuccess(w) PROVE SuccessMeansReceived'
  <2>1. Busy(w) /\ At(w, "posted") /\ "success" \in Statuses \ {"none"} /\ UNCHANGED received
    BY <1>2 DEF MarkSuccess, Busy, At, Statuses
  <2>2. \A d \in Deliveries : status'[d] = IF d = consumer[w].d THEN "success" ELSE status[d]
    BY <1>0, <1>2, <2>1, MarkMove DEF MarkSuccess
  <2>3. received[consumer[w].d] > 0
    BY <2>1 DEF IInv, Answered
  <2> QED
    BY <2>1, <2>2, <2>3 DEF IInv
<1>3. ASSUME NEW w \in Workers, Post(w) PROVE SuccessMeansReceived'
  <2>1. status' = status /\ \A d \in Deliveries : received'[d] = received[d] \/ received'[d] = received[d] + 1
    BY <1>0, <1>3 DEF Post
  <2> QED
    BY <1>0, <2>1 DEF IInv
<1>4. ASSUME NEW w \in Workers, MarkOff(w) \/ MarkFailed(w) PROVE SuccessMeansReceived'
  <2>1. Busy(w) /\ UNCHANGED received
    BY <1>4 DEF MarkOff, MarkFailed, Busy, At
  <2>2. PICK s \in {"failed", "exhausted"} : Mark(w, s)
    BY <1>4 DEF MarkOff, MarkFailed
  <2>3. s \in Statuses \ {"none"} /\ s # "success"
    BY DEF Statuses
  <2>4. \A d \in Deliveries : status'[d] = IF d = consumer[w].d THEN s ELSE status[d]
    BY <1>0, <2>1, <2>2, <2>3, MarkMove
  <2> QED
    BY <1>1, <2>1, <2>3, <2>4
<1>5. ASSUME NEW d \in Deliveries, FanOut(d) PROVE SuccessMeansReceived'
  BY <1>0, <1>1, <1>5 DEF FanOut
<1>6. ASSUME NEW r \in Requests, MarkPending(r) PROVE SuccessMeansReceived'
  BY <1>0, <1>1, <1>6 DEF MarkPending
<1>7. ASSUME UNCHANGED <<status, received>> PROVE SuccessMeansReceived'
  BY <1>1, <1>7
<1>8. ASSUME NEW d \in Deliveries, NEW k \in Jobs, Stalled(d, k) PROVE SuccessMeansReceived'
  BY <1>7, <1>8 DEF Stalled
<1>9. ASSUME NEW w \in Workers, NEW d \in Deliveries, NEW k \in Jobs, Take(w, d, k) PROVE SuccessMeansReceived'
  BY <1>7, <1>9 DEF Take
<1>10. ASSUME NEW w \in Workers,
              Read(w) \/ ResetStrikes(w) \/ Strike(w) \/ Disable(w) \/ DatabaseFails(w) \/ Crash(w)
       PROVE  SuccessMeansReceived'
  BY <1>7, <1>10 DEF Read, ResetStrikes, Strike, Disable, DatabaseFails, Crash
<1>11. ASSUME NEW r \in Requests, (\E d \in Deliveries : CheckRedrive(r, d)) \/ AddJob(r) \/ RedriveDies(r)
       PROVE  SuccessMeansReceived'
  BY <1>7, <1>11 DEF CheckRedrive, AddJob, RedriveDies
<1>12. CASE Enable \/ SwitchOff \/ Remove \/ UNCHANGED vars
  BY <1>7, <1>12 DEF Enable, SwitchOff, Remove, vars
<1> QED
  BY <1>2, <1>3, <1>4, <1>5, <1>6, <1>8, <1>9, <1>10, <1>11, <1>12 DEF Next

\* The consumer that struck the endpoint to its limit is on its way to switch
\* it off; only it, or a death, ends that.
LEMMA LimitNext == IInv /\ [Next]_vars => LimitSwitchesOff'
<1> SUFFICES ASSUME IInv, [Next]_vars PROVE LimitSwitchesOff'
  OBVIOUS
<1>0. /\ WorkTypes /\ LimitSwitchesOff
      /\ endpoint \in [active : BOOLEAN, deleted : BOOLEAN, failures : Nat]
      /\ DISABLE_AFTER \in Nat /\ DISABLE_AFTER > 0
  BY WebhooksAssumption DEF IInv, WorkInv, RestTypes
<1>1. ASSUME UNCHANGED endpoint, broken' = TRUE \/ broken' = broken,
             \A w \in Workers : At(w, "disable") => At(w, "disable")'
      PROVE  LimitSwitchesOff'
  BY <1>0, <1>1 DEF LimitSwitchesOff
<1>2. ASSUME UNCHANGED <<endpoint, broken>>, NEW w \in Workers, ~At(w, "disable"),
             \A v \in Workers : v # w => consumer'[v] = consumer[v]
      PROVE  LimitSwitchesOff'
  BY <1>1, <1>2 DEF At
<1>3. ASSUME broken' = TRUE PROVE LimitSwitchesOff'
  BY <1>3 DEF LimitSwitchesOff
<1>4. ASSUME ~endpoint'.active \/ endpoint'.failures < DISABLE_AFTER PROVE LimitSwitchesOff'
  <2>1. CASE ~endpoint'.active
    BY <2>1 DEF LimitSwitchesOff
  <2>2. CASE endpoint'.failures < DISABLE_AFTER
    <3>1. endpoint'.failures \in Nat
      BY RestNext DEF IInv, RestTypes
    <3>2. ~(endpoint'.failures >= DISABLE_AFTER)
      BY <1>0, <2>2, <3>1
    <3> QED
      BY <3>2 DEF LimitSwitchesOff
  <2> QED
    BY <1>4, <2>1, <2>2
<1>5. ASSUME NEW w \in Workers, Strike(w) PROVE LimitSwitchesOff'
  <2>1. Busy(w) /\ "disable" \in Phases /\ UNCHANGED broken
    BY <1>5 DEF Strike, Busy, At, Phases
  <2>2. endpoint'.failures = endpoint.failures + 1
    BY <1>0, <1>5 DEF Strike
  <2>3. CASE endpoint.failures + 1 >= DISABLE_AFTER
    <3>1. Move(w, "disable")
      BY <1>5, <2>3 DEF Strike
    <3>2. At(w, "disable")'
      BY <1>0, <2>1, <3>1, OneMoves
    <3> QED
      BY <3>2 DEF LimitSwitchesOff
  <2>4. CASE ~(endpoint.failures + 1 >= DISABLE_AFTER)
    BY <1>0, <1>4, <2>2, <2>4
  <2> QED
    BY <2>3, <2>4
<1>6. ASSUME NEW w \in Workers, Disable(w) PROVE LimitSwitchesOff'
  BY <1>0, <1>4, <1>6 DEF Disable
<1>7. ASSUME NEW w \in Workers, ResetStrikes(w) PROVE LimitSwitchesOff'
  BY <1>0, <1>4, <1>7 DEF ResetStrikes
<1>8. ASSUME Enable PROVE LimitSwitchesOff'
  BY <1>0, <1>4, <1>8 DEF Enable
<1>9. ASSUME SwitchOff \/ Remove PROVE LimitSwitchesOff'
  BY <1>0, <1>4, <1>9 DEF SwitchOff, Remove
<1>10. ASSUME NEW w \in Workers, DatabaseFails(w) \/ Crash(w) PROVE LimitSwitchesOff'
  BY <1>3, <1>10 DEF DatabaseFails, Crash
<1>11. ASSUME NEW w \in Workers, NEW d \in Deliveries, NEW k \in Jobs, Take(w, d, k) PROVE LimitSwitchesOff'
  BY <1>0, <1>2, <1>11 DEF Take, At, WorkTypes
<1>12. ASSUME NEW w \in Workers, Read(w) \/ MarkOff(w) \/ Post(w) \/ MarkSuccess(w) \/ MarkFailed(w)
       PROVE  LimitSwitchesOff'
  <2>1. ~At(w, "disable") /\ UNCHANGED <<endpoint, broken>>
    BY <1>12 DEF Read, MarkOff, Post, MarkSuccess, MarkFailed, At
  <2>2. (\E phase \in Phases : Move(w, phase)) \/ consumer' = [consumer EXCEPT ![w] = Free]
    BY <1>12, Zenon DEF Read, MarkOff, Post, MarkSuccess, MarkFailed, Return, Throw, Phases
  <2>3. \A v \in Workers : v # w => consumer'[v] = consumer[v]
    BY <1>0, <2>2, OneMoves
  <2> QED
    BY <1>2, <2>1, <2>3
<1>13. ASSUME UNCHANGED <<endpoint, consumer>>, broken' = TRUE \/ broken' = broken PROVE LimitSwitchesOff'
  BY <1>1, <1>13 DEF At
<1>14. ASSUME NEW d \in Deliveries, FanOut(d) \/ \E k \in Jobs : Stalled(d, k) PROVE LimitSwitchesOff'
  BY <1>13, <1>14 DEF FanOut, Stalled
<1>15. ASSUME NEW r \in Requests,
              (\E d \in Deliveries : CheckRedrive(r, d)) \/ MarkPending(r) \/ AddJob(r) \/ RedriveDies(r)
       PROVE  LimitSwitchesOff'
  BY <1>13, <1>15 DEF CheckRedrive, MarkPending, AddJob, RedriveDies
<1>16. CASE UNCHANGED vars
  BY <1>13, <1>16 DEF vars
<1> QED
  BY <1>5, <1>6, <1>7, <1>8, <1>9, <1>10, <1>11, <1>12, <1>14, <1>15, <1>16 DEF Next

-----------------------------------------------------------------------------
(* The theorems. *)

\* The initial states satisfy the inductive invariant.
LEMMA InitIInv == Init => IInv
<1> SUFFICES ASSUME Init PROVE IInv
  OBVIOUS
<1>1. RestTypes
  BY DEF Init, RestTypes, Statuses
<1>2. \A w \in Workers : Answered(w)
  BY DEF Init, Answered, At, Free
<1>3. SuccessMeansReceived
  BY DEF Init, SuccessMeansReceived
<1>4. LimitSwitchesOff
  BY WebhooksAssumption DEF Init, LimitSwitchesOff
<1> QED
  BY <1>1, <1>2, <1>3, <1>4, WorkInit DEF IInv

\* The inductive invariant holds in every state of every run, whatever the
\* fairness.
THEOREM Inductive == Spec => []IInv
<1>1. IInv /\ [Next]_vars => IInv'
  BY WorkNext, RestNext, AnsweredNext, SuccessNext, LimitNext DEF IInv
<1> QED
  BY <1>1, InitIInv, PTL DEF Spec

\* Types: rows, jobs, consumers and redrives keep their shape, and no job is
\* tried more often than its attempts (webhook-delivery.processor.ts).
THEOREM TypeCorrect == Spec => []TypeOK
<1>1. IInv => TypeOK
  BY DEF IInv, WorkInv, WorkTypes, RestTypes, TypeOK, Statuses, JobRow, WorkRow, RedriveRow
<1> QED
  BY <1>1, Inductive, PTL

\* A delivery shown as a success has reached the receiver, though jobs failed,
\* were restarted, and redrives of it ran beside them.
THEOREM SuccessIsReal == Spec => []SuccessMeansReceived
BY Inductive, PTL DEF IInv

\* An endpoint that is on and at its limit of exhausted deliveries is about to
\* be switched off by the consumer that counted the last one.
THEOREM LimitHolds == Spec => []LimitSwitchesOff
BY Inductive, PTL DEF IInv

=============================================================================
