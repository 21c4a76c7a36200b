------------------------------ MODULE Webhooks ------------------------------
(***************************************************************************)
(* The delivery of webhooks to one endpoint: delivery rows, the BullMQ     *)
(* jobs that post them, retries, the endpoint's strike counter, automatic  *)
(* disabling, and redrive from the settings page.  Rows and first jobs     *)
(* come from the fan-out (Outbox).                                         *)
(***************************************************************************)
EXTENDS Integers, FiniteSets

CONSTANTS
    Deliveries,    \* deliveries to the endpoint
    Workers,       \* consumers of the queue 'webhook-deliveries'
    Requests,      \* redrive requests, each served at most once (bound)
    Attempts,      \* attempts per job (5 in the code)
    DISABLE_AFTER, \* exhausted deliveries in a row before the endpoint goes off (20)
    MaxStalls,     \* times BullMQ restarts the job of a dead consumer (1)
    Faults         \* what may go wrong in a run: see FaultKinds

\* post: the receiver does not answer 2xx; crash: a consumer or the API dies;
\* database: a statement of a consumer fails.
FaultKinds == {"post", "crash", "database"}

FirstJob == "fan-out"        \* the job of the fan-out; a redrive's is named after its request
Jobs == Requests \union {FirstJob}

ASSUME WebhooksAssumption ==
    /\ FirstJob \notin Requests
    /\ Attempts \in Nat \ {0}
    /\ DISABLE_AFTER \in Nat \ {0}
    /\ MaxStalls \in Nat
    /\ Faults \subseteq FaultKinds

VARIABLES
    status,   \* webhook_deliveries.status
    endpoint, \* active, deleted, consecutive_failures
    job,      \* the jobs of each delivery
    consumer, \* what each consumer is doing
    redrive,  \* what each redrive request is doing
    received, \* history: requests the receiver has accepted
    broken    \* history: a process died or a statement failed

vars == <<status, endpoint, job, consumer, redrive, received, broken>>

NoJob == [state |-> "none", made |-> 0, stalls |-> 0]
Free == [phase |-> "free"]

Init ==
    /\ status = [d \in Deliveries |-> "none"]
    /\ endpoint = [active |-> TRUE, deleted |-> FALSE, failures |-> 0]
    /\ job = [d \in Deliveries |-> [k \in Jobs |-> NoJob]]
    /\ consumer = [w \in Workers |-> Free]
    /\ redrive = [r \in Requests |-> Free]
    /\ received = [d \in Deliveries |-> 0]
    /\ broken = FALSE

\* The fan-out's row and job; it read the active endpoints some time before.
FanOut(d) ==
    /\ status[d] = "none"
    /\ status' = [status EXCEPT ![d] = "pending"]
    /\ job' = [job EXCEPT ![d][FirstJob].state = "waiting"]
    /\ UNCHANGED <<endpoint, consumer, redrive, received, broken>>

-----------------------------------------------------------------------------
(* WebhookDeliveryProcessor.process: one action per statement that reads    *)
(* or writes what others do.                                                *)

At(w, phase) == consumer[w].phase = phase
Mine(w) == job[consumer[w].d][consumer[w].k]

\* Fault: the attempt under way is not counted.
FinalLate(w) == Mine(w).made >= Attempts

Final(w) == Mine(w).made + 1 >= Attempts

Move(w, phase) == consumer' = [consumer EXCEPT ![w].phase = phase]
Mark(w, s) == status' = [status EXCEPT ![consumer[w].d] = s]

\* The consumer returns: the job is completed.
Return(w) ==
    /\ job' = [job EXCEPT ![consumer[w].d][consumer[w].k].state = "done"]
    /\ consumer' = [consumer EXCEPT ![w] = Free]

\* The consumer throws: the attempt is counted; BullMQ retries after a
\* backoff or, after the last attempt, fails the job.
Throw(w) ==
    /\ job' = [job EXCEPT ![consumer[w].d][consumer[w].k] =
                  [@ EXCEPT !.made = Mine(w).made + 1, !.state = IF Final(w) THEN "failed" ELSE "waiting"]]
    /\ consumer' = [consumer EXCEPT ![w] = Free]

\* A new job, or one whose backoff is over, is taken.
Take(w, d, k) ==
    /\ At(w, "free")
    /\ job[d][k].state = "waiting"
    /\ job' = [job EXCEPT ![d][k].state = "active"]
    /\ consumer' = [consumer EXCEPT ![w] = [phase |-> "read", d |-> d, k |-> k]]
    /\ UNCHANGED <<status, endpoint, redrive, received, broken>>

\* The delivery and its endpoint are read.
Read(w) ==
    /\ At(w, "read")
    /\ Move(w, IF endpoint.active /\ ~endpoint.deleted THEN "post" ELSE "off")
    /\ UNCHANGED <<status, endpoint, job, redrive, received, broken>>

\* The endpoint was off when it was read: no request is made.
MarkOff(w) ==
    /\ At(w, "off")
    /\ Mark(w, "exhausted")
    /\ Return(w)
    /\ UNCHANGED <<endpoint, redrive, received, broken>>

\* Fault: any answer counts as success.
PostIgnoringStatus(w) ==
    /\ At(w, "post")
    /\ \/ received' = [received EXCEPT ![consumer[w].d] = @ + 1]
       \/ UNCHANGED received
    /\ Move(w, "posted")
    /\ UNCHANGED <<status, endpoint, job, redrive, broken>>

\* The request is accepted and answered 2xx; or it is not answered so, and
\* may have been accepted all the same when the answer is what got lost.
Post(w) ==
    /\ At(w, "post")
    /\ \/ /\ received' = [received EXCEPT ![consumer[w].d] = @ + 1]
          /\ Move(w, "posted")
       \/ /\ "post" \in Faults
          /\ \/ received' = [received EXCEPT ![consumer[w].d] = @ + 1]
             \/ UNCHANGED received
          /\ Move(w, "failed")
    /\ UNCHANGED <<status, endpoint, job, redrive, broken>>

MarkSuccess(w) ==
    /\ At(w, "posted")
    /\ Mark(w, "success")
    /\ Move(w, "reset")
    /\ UNCHANGED <<endpoint, job, redrive, received, broken>>

\* A success resets the endpoint's counter.
ResetStrikes(w) ==
    /\ At(w, "reset")
    /\ endpoint' = [endpoint EXCEPT !.failures = 0]
    /\ Return(w)
    /\ UNCHANGED <<status, redrive, received, broken>>

\* Fault: the error is swallowed after it was written down.
MarkFailedSwallowed(w) ==
    /\ At(w, "failed")
    /\ Mark(w, IF Final(w) THEN "exhausted" ELSE "failed")
    /\ IF Final(w)
       THEN Move(w, "strike") /\ UNCHANGED job
       ELSE Return(w)
    /\ UNCHANGED <<endpoint, redrive, received, broken>>

\* The catch block.
MarkFailed(w) ==
    /\ At(w, "failed")
    /\ Mark(w, IF Final(w) THEN "exhausted" ELSE "failed")
    /\ IF Final(w)
       THEN Move(w, "strike") /\ UNCHANGED job
       ELSE Throw(w)
    /\ UNCHANGED <<endpoint, redrive, received, broken>>

\* Fault: the count read before the increment decides.
StrikeLate(w) ==
    /\ At(w, "strike")
    /\ endpoint' = [endpoint EXCEPT !.failures = @ + 1]
    /\ IF endpoint.failures >= DISABLE_AFTER
       THEN Move(w, "disable") /\ UNCHANGED job
       ELSE Throw(w)
    /\ UNCHANGED <<status, redrive, received, broken>>

\* recordEndpointFailure, first statement: one more strike; the count it
\* returns decides.
Strike(w) ==
    /\ At(w, "strike")
    /\ endpoint' = [endpoint EXCEPT !.failures = @ + 1]
    /\ IF endpoint.failures + 1 >= DISABLE_AFTER
       THEN Move(w, "disable") /\ UNCHANGED job
       ELSE Throw(w)
    /\ UNCHANGED <<status, redrive, received, broken>>

\* recordEndpointFailure, second statement.
Disable(w) ==
    /\ At(w, "disable")
    /\ endpoint' = [endpoint EXCEPT !.active = FALSE]
    /\ Throw(w)
    /\ UNCHANGED <<status, redrive, received, broken>>

\* A statement throws.  Between the post and the return the catch block takes
\* over, which treats it as a failed post; elsewhere the consumer throws.
DatabaseFails(w) ==
    /\ "database" \in Faults
    /\ \/ /\ consumer[w].phase \in {"posted", "reset"}
          /\ Move(w, "failed")
          /\ UNCHANGED job
       \/ /\ consumer[w].phase \in {"read", "off", "failed", "strike", "disable"}
          /\ Throw(w)
    /\ broken' = TRUE
    /\ UNCHANGED <<status, endpoint, redrive, received>>

-----------------------------------------------------------------------------
(* Processes and BullMQ. *)

\* A consumer's process dies.
Crash(w) ==
    /\ "crash" \in Faults
    /\ ~At(w, "free")
    /\ consumer' = [consumer EXCEPT ![w] = Free]
    /\ broken' = TRUE
    /\ UNCHANGED <<status, endpoint, job, redrive, received>>

\* The job of a dead consumer is started again, a limited number of times.
Stalled(d, k) ==
    /\ job[d][k].state = "active"
    /\ ~\E w \in Workers : ~At(w, "free") /\ consumer[w].d = d /\ consumer[w].k = k
    /\ job' = [job EXCEPT ![d][k] = IF @.stalls < MaxStalls
                                    THEN [@ EXCEPT !.state = "waiting", !.stalls = job[d][k].stalls + 1]
                                    ELSE [@ EXCEPT !.state = "failed"]]
    /\ UNCHANGED <<status, endpoint, consumer, redrive, received, broken>>

-----------------------------------------------------------------------------
(* The settings page (webhooks.service.ts). *)

\* redrive reads the row: refused for a disabled endpoint and for a pending
\* delivery.
CheckRedrive(r, d) ==
    /\ redrive[r].phase = "free"
    /\ endpoint.active /\ ~endpoint.deleted
    /\ status[d] \notin {"none", "pending"}
    /\ redrive' = [redrive EXCEPT ![r] = [phase |-> "checked", d |-> d]]
    /\ UNCHANGED <<status, endpoint, job, consumer, received, broken>>

\* Then the delivery is pending again ...
MarkPending(r) ==
    /\ redrive[r].phase = "checked"
    /\ status' = [status EXCEPT ![redrive[r].d] = "pending"]
    /\ redrive' = [redrive EXCEPT ![r].phase = "marked"]
    /\ UNCHANGED <<endpoint, job, consumer, received, broken>>

\* ... and a job with an id of its own is added.
AddJob(r) ==
    /\ redrive[r].phase = "marked"
    /\ job' = [job EXCEPT ![redrive[r].d][r].state = "waiting"]
    /\ redrive' = [redrive EXCEPT ![r].phase = "over"]
    /\ UNCHANGED <<status, endpoint, consumer, received, broken>>

\* The API dies while it serves the request, or queue.add throws.
RedriveDies(r) ==
    /\ "crash" \in Faults
    /\ redrive[r].phase \in {"checked", "marked"}
    /\ redrive' = [redrive EXCEPT ![r].phase = "over"]
    /\ broken' = TRUE
    /\ UNCHANGED <<status, endpoint, job, consumer, received>>

\* update: switching the endpoint on clears the counter.
Enable ==
    /\ ~endpoint.deleted
    /\ endpoint' = [endpoint EXCEPT !.active = TRUE, !.failures = 0]
    /\ UNCHANGED <<status, job, consumer, redrive, received, broken>>

SwitchOff ==
    /\ ~endpoint.deleted
    /\ endpoint' = [endpoint EXCEPT !.active = FALSE]
    /\ UNCHANGED <<status, job, consumer, redrive, received, broken>>

Remove ==
    /\ ~endpoint.deleted
    /\ endpoint' = [endpoint EXCEPT !.active = FALSE, !.deleted = TRUE]
    /\ UNCHANGED <<status, job, consumer, redrive, received, broken>>

-----------------------------------------------------------------------------
Next ==
    \/ \E d \in Deliveries : FanOut(d) \/ \E k \in Jobs : Stalled(d, k)
    \/ \E w \in Workers :
        \/ \E d \in Deliveries, k \in Jobs : Take(w, d, k)
        \/ Read(w) \/ MarkOff(w) \/ Post(w) \/ MarkSuccess(w) \/ ResetStrikes(w)
        \/ MarkFailed(w) \/ Strike(w) \/ Disable(w) \/ DatabaseFails(w) \/ Crash(w)
    \/ \E r \in Requests :
        \/ \E d \in Deliveries : CheckRedrive(r, d)
        \/ MarkPending(r) \/ AddJob(r) \/ RedriveDies(r)
    \/ Enable \/ SwitchOff \/ Remove

Spec == Init /\ [][Next]_vars

\* Consumers work on what they took, every waiting job is some day taken by a
\* consumer, BullMQ looks for stalled jobs, and the API serves its requests.
Fairness ==
    /\ \A w \in Workers :
        WF_vars(\/ Read(w) \/ MarkOff(w) \/ Post(w) \/ MarkSuccess(w) \/ ResetStrikes(w)
                \/ MarkFailed(w) \/ Strike(w) \/ Disable(w))
    /\ \A d \in Deliveries, k \in Jobs :
        /\ SF_vars(\E w \in Workers : Take(w, d, k))
        /\ WF_vars(Stalled(d, k))
    /\ \A r \in Requests : WF_vars(MarkPending(r) \/ AddJob(r))

FairSpec == Spec /\ Fairness

-----------------------------------------------------------------------------
(* Properties. *)

Phases == {"read", "post", "off", "posted", "reset", "failed", "strike", "disable"}

\* The type invariant.
TypeOK ==
    /\ status \in [Deliveries -> {"none", "pending", "failed", "success", "exhausted"}]
    /\ endpoint \in [active : BOOLEAN, deleted : BOOLEAN, failures : Nat]
    /\ job \in [Deliveries -> [Jobs -> [state : {"none", "waiting", "active", "done", "failed"},
                                        made : 0..Attempts, stalls : 0..MaxStalls]]]
    /\ consumer \in [Workers -> {Free} \union [phase : Phases, d : Deliveries, k : Jobs]]
    /\ redrive \in [Requests -> {Free} \union [phase : {"checked", "marked", "over"}, d : Deliveries]]
    /\ received \in [Deliveries -> Nat]
    /\ broken \in BOOLEAN

\* A delivery shown as a success has reached the receiver, whatever failed
\* jobs, redrives and restarts came between (processor.ts:87).
SuccessMeansReceived == \A d \in Deliveries : status[d] = "success" => received[d] > 0

\* An endpoint that is on and at its limit is about to be switched off,
\* whatever other consumers and the settings page do, unless the consumer that
\* was about to do it has died or failed (recordEndpointFailure).
LimitSwitchesOff ==
    ~broken /\ endpoint.active /\ endpoint.failures >= DISABLE_AFTER
        => \E w \in Workers : At(w, "disable")

\* Every delivery ends as a success or exhausted, through retries, overlapping
\* redrives and switches of the endpoint, unless a process died or a statement
\* failed on the way.
DeliveriesSettle ==
    \A d \in Deliveries : status[d] = "pending" ~> status[d] \in {"success", "exhausted"} \/ broken

=============================================================================
