------------------------------- MODULE Outbox -------------------------------
(***************************************************************************)
(* The durable lane of the domain-event bus.  Dispatchers of several       *)
(* worker processes drain the outbox table into the BullMQ queue           *)
(* 'domain-events'; its consumers fan every event out to the webhook       *)
(* endpoints: one delivery row and one delivery job per endpoint.  What    *)
(* becomes of a delivery job is the subject of Webhooks.                   *)
(*                                                                         *)
(* Events are numbered in the order of their occurred_at.                  *)
(***************************************************************************)
EXTENDS Integers, FiniteSets, FiniteSetsExt

CONSTANTS
    Events,       \* the events of one tenant, numbers
    Endpoints,    \* its subscribed webhook endpoints
    Workers,      \* worker processes: each a dispatcher and a queue consumer
    BATCH,        \* events per claim (100 in the code)
    MAX_ATTEMPTS, \* claims before an event is quarantined (10 in the code)
    MaxStalls,    \* times BullMQ restarts the job of a dead consumer (1)
    Faults        \* what may go wrong in a run: see FaultKinds

\* queue: queue.add or the stamp fails; crash: a process dies; fan: the
\* database or the queue fails a fan-out job; forget: finished jobs drop out
\* of BullMQ's retention.
FaultKinds == {"queue", "crash", "fan", "forget"}

ASSUME OutboxAssumption ==
    /\ Events \subseteq Nat \ {0}
    /\ BATCH \in Nat \ {0}
    /\ MAX_ATTEMPTS \in Nat \ {0}
    /\ MaxStalls \in Nat
    /\ Faults \subseteq FaultKinds

VARIABLES
    outbox,    \* domain_events
    drain,     \* each worker's dispatcher tick
    job,       \* jobs of the queue 'domain-events', by event id
    fan,       \* each worker's fan-out job
    active,    \* the endpoints that are active
    row,       \* webhook_deliveries: an event and an endpoint have a row
    added,     \* how often a delivery job was added for a row
    enqueued,  \* history: events for which queue.add has succeeded
    lost       \* history: claims of an event that came to nothing

vars == <<outbox, drain, job, fan, active, row, added, enqueued, lost>>

Nobody == 0
NoDrain == [phase |-> "idle", batch |-> {}, full |-> FALSE]
NoFan == [event |-> Nobody, todo |-> {}, open |-> {}]
NewEvent == [stored |-> FALSE, attempts |-> 0, dispatched |-> FALSE]

Init ==
    /\ outbox = [e \in Events |-> NewEvent]
    /\ drain = [w \in Workers |-> NoDrain]
    /\ job = [e \in Events |-> [state |-> "none", stalls |-> 0]]
    /\ fan = [w \in Workers |-> NoFan]
    /\ active = Endpoints
    /\ row = [e \in Events |-> {}]
    /\ added = [e \in Events |-> [p \in Endpoints |-> 0]]
    /\ enqueued = {}
    /\ lost = [e \in Events |-> 0]

\* publish: the row commits with the caller's transaction.
Publish(e) ==
    /\ ~outbox[e].stored
    /\ outbox' = [outbox EXCEPT ![e].stored = TRUE]
    /\ UNCHANGED <<drain, job, fan, active, row, added, enqueued, lost>>

-----------------------------------------------------------------------------
(* The dispatcher. *)

Claimable == {e \in Events : outbox[e].stored /\ ~outbox[e].dispatched /\ outbox[e].attempts < MAX_ATTEMPTS}
Locked == UNION {drain[w].batch : w \in {v \in Workers : drain[v].phase = "locked"}}

\* The oldest BATCH rows nobody holds a lock on (ORDER BY occurred_at LIMIT
\* 100 FOR UPDATE SKIP LOCKED).
IsClaim(C) ==
    LET free == Claimable \ Locked
    IN /\ C \subseteq free
       /\ \A a \in C, b \in free \ C : a < b
       /\ C = free \/ Cardinality(C) = BATCH
       /\ Cardinality(C) <= BATCH

\* The cron fires and no drain of this process is under way.
Tick(w) ==
    /\ drain[w].phase = "idle"
    /\ Claimable # {}
    /\ drain' = [drain EXCEPT ![w] = [NoDrain EXCEPT !.phase = "claiming"]]
    /\ UNCHANGED <<outbox, job, fan, active, row, added, enqueued, lost>>

\* claimBatch, first statement: the rows are selected and locked; no row ends
\* the drain.
Select(w) ==
    /\ drain[w].phase = "claiming"
    /\ \E C \in SUBSET Claimable :
        /\ IsClaim(C)
        /\ drain' = [drain EXCEPT ![w] = IF C = {} THEN NoDrain
                                         ELSE [@ EXCEPT !.phase = "locked", !.batch = C,
                                                        !.full = (Cardinality(C) = BATCH)]]
    /\ UNCHANGED <<outbox, job, fan, active, row, added, enqueued, lost>>

\* Fault: the claim does not count.
CommitClaimUncounted(w) ==
    /\ drain[w].phase = "locked"
    /\ drain' = [drain EXCEPT ![w].phase = "sending"]
    /\ UNCHANGED <<outbox, job, fan, active, row, added, enqueued, lost>>

\* claimBatch, second statement and COMMIT: the attempts are counted, the
\* locks are gone.
CommitClaim(w) ==
    /\ drain[w].phase = "locked"
    /\ outbox' = [e \in Events |-> IF e \in drain[w].batch
                                   THEN [outbox[e] EXCEPT !.attempts = @ + 1] ELSE outbox[e]]
    /\ drain' = [drain EXCEPT ![w].phase = "sending"]
    /\ UNCHANGED <<job, fan, active, row, added, enqueued, lost>>

\* dispatch walks the batch in order.
Turn(w) == Min(drain[w].batch)

\* Fault: the batch dealt with is still there when the next is claimed.
AdvanceKeepingBatch(w) ==
    LET rest == drain[w].batch \ {Turn(w)}
    IN drain' = [drain EXCEPT ![w] =
            IF rest # {} THEN [@ EXCEPT !.phase = "sending", !.batch = rest]
            ELSE IF drain[w].full THEN [@ EXCEPT !.phase = "claiming"]
            ELSE NoDrain]

\* What follows when the current event is dealt with: the next one; after the
\* last one a full batch claims again, another one ends the drain.
Advance(w) ==
    LET rest == drain[w].batch \ {Turn(w)}
    IN drain' = [drain EXCEPT ![w] =
            IF rest # {} THEN [@ EXCEPT !.phase = "sending", !.batch = rest]
            ELSE IF drain[w].full THEN [@ EXCEPT !.phase = "claiming", !.batch = {}]
            ELSE NoDrain]

\* Fault: the stamp comes before queue.add.
EnqueueStampingFirst(w) ==
    /\ drain[w].phase = "sending"
    /\ outbox' = [outbox EXCEPT ![Turn(w)].dispatched = TRUE]
    /\ drain' = [drain EXCEPT ![w].phase = "stamping"]
    /\ UNCHANGED <<job, fan, active, row, added, enqueued, lost>>

\* queue.add with jobId = event id: a job BullMQ still knows is not added again.
Enqueue(w) ==
    /\ drain[w].phase = "sending"
    /\ LET e == Turn(w)
       IN /\ job' = [job EXCEPT ![e] = IF @.state = "none" THEN [state |-> "waiting", stalls |-> 0] ELSE @]
          /\ enqueued' = enqueued \union {e}
    /\ drain' = [drain EXCEPT ![w].phase = "stamping"]
    /\ UNCHANGED <<outbox, fan, active, row, added, lost>>

Stamp(w) ==
    /\ drain[w].phase = "stamping"
    /\ outbox' = [outbox EXCEPT ![Turn(w)].dispatched = TRUE]
    /\ Advance(w)
    /\ UNCHANGED <<job, fan, active, row, added, enqueued, lost>>

\* queue.add or the stamp throws: a warning, and the drain goes on.
SkipEvent(w) ==
    /\ "queue" \in Faults
    /\ drain[w].phase \in {"sending", "stamping"}
    /\ lost' = [lost EXCEPT ![Turn(w)] = @ + 1]
    /\ Advance(w)
    /\ UNCHANGED <<outbox, job, fan, active, row, added, enqueued>>

\* The claim throws: the drain ends and the cron backs off.
ClaimFails(w) ==
    /\ "queue" \in Faults
    /\ drain[w].phase \in {"claiming", "locked"}
    /\ drain' = [drain EXCEPT ![w] = NoDrain]
    /\ UNCHANGED <<outbox, job, fan, active, row, added, enqueued, lost>>

-----------------------------------------------------------------------------
(* The fan-out consumer. *)

\* A waiting job is taken and the active endpoints are read.
TakeJob(w, e) ==
    /\ fan[w].event = Nobody
    /\ job[e].state = "waiting"
    /\ job' = [job EXCEPT ![e].state = "active"]
    /\ fan' = [fan EXCEPT ![w] = [event |-> e, todo |-> active, open |-> {}]]
    /\ UNCHANGED <<outbox, drain, active, row, added, enqueued, lost>>

\* Fault: a row that is there already does not stop the delivery.
InsertRowAgain(w, p) ==
    LET e == fan[w].event
    IN /\ e # Nobody /\ fan[w].open = {} /\ p \in fan[w].todo
       /\ row' = [row EXCEPT ![e] = @ \union {p}]
       /\ fan' = [fan EXCEPT ![w].todo = @ \ {p}, ![w].open = {p}]
       /\ UNCHANGED <<outbox, drain, job, active, added, enqueued, lost>>

\* INSERT ... ON CONFLICT (endpoint, event) DO NOTHING: a row that is there
\* already ends the matter for this endpoint.
InsertRow(w, p) ==
    LET e == fan[w].event
    IN /\ e # Nobody /\ fan[w].open = {} /\ p \in fan[w].todo
       /\ row' = [row EXCEPT ![e] = @ \union {p}]
       /\ fan' = [fan EXCEPT ![w].todo = @ \ {p},
                             ![w].open = IF p \in row[e] THEN {} ELSE {p}]
       /\ UNCHANGED <<outbox, drain, job, active, added, enqueued, lost>>

\* deliveries.add
AddDelivery(w) ==
    LET e == fan[w].event
    IN /\ e # Nobody
       /\ \E p \in fan[w].open : added' = [added EXCEPT ![e][p] = @ + 1]
       /\ fan' = [fan EXCEPT ![w].open = {}]
       /\ UNCHANGED <<outbox, drain, job, active, row, enqueued, lost>>

EndJob(w) ==
    LET e == fan[w].event
    IN /\ e # Nobody /\ fan[w].todo = {} /\ fan[w].open = {}
       /\ job' = [job EXCEPT ![e].state = "done"]
       /\ fan' = [fan EXCEPT ![w] = NoFan]
       /\ UNCHANGED <<outbox, drain, active, row, added, enqueued, lost>>

\* process throws: the job has one attempt and is failed for good.
FailJob(w) ==
    LET e == fan[w].event
    IN /\ "fan" \in Faults
       /\ e # Nobody
       /\ job' = [job EXCEPT ![e].state = "failed"]
       /\ fan' = [fan EXCEPT ![w] = NoFan]
       /\ UNCHANGED <<outbox, drain, active, row, added, enqueued, lost>>

-----------------------------------------------------------------------------
(* Processes, BullMQ and the settings page. *)

\* A worker process dies: an open claim rolls back, a committed one stays
\* counted, a fan-out job is left active.
Crash(w) ==
    /\ "crash" \in Faults
    /\ lost' = [e \in Events |-> IF drain[w].phase \in {"sending", "stamping"} /\ e \in drain[w].batch
                                 THEN lost[e] + 1 ELSE lost[e]]
    /\ drain' = [drain EXCEPT ![w] = NoDrain]
    /\ fan' = [fan EXCEPT ![w] = NoFan]
    /\ drain[w] # NoDrain \/ fan[w] # NoFan
    /\ UNCHANGED <<outbox, job, active, row, added, enqueued>>

\* BullMQ finds an active job nobody renews the lock of: it is started again,
\* a limited number of times.
Stalled(e) ==
    /\ job[e].state = "active"
    /\ \A w \in Workers : fan[w].event # e
    /\ job' = [job EXCEPT ![e] = IF @.stalls < MaxStalls
                                 THEN [state |-> "waiting", stalls |-> @.stalls + 1]
                                 ELSE [@ EXCEPT !.state = "failed"]]
    /\ UNCHANGED <<outbox, drain, fan, active, row, added, enqueued, lost>>

\* removeOnComplete / removeOnFail: BullMQ forgets an old finished job and its id.
Forget(e) ==
    /\ "forget" \in Faults
    /\ job[e].state \in {"done", "failed"}
    /\ job' = [job EXCEPT ![e] = [state |-> "none", stalls |-> 0]]
    /\ UNCHANGED <<outbox, drain, fan, active, row, added, enqueued, lost>>

\* An endpoint is switched off (by a user or after 20 failures) or on.
Switch(p) ==
    /\ active' = IF p \in active THEN active \ {p} ELSE active \union {p}
    /\ UNCHANGED <<outbox, drain, job, fan, row, added, enqueued, lost>>

Next ==
    \/ \E e \in Events : Publish(e) \/ Stalled(e) \/ Forget(e)
    \/ \E w \in Workers :
        \/ Tick(w) \/ Select(w) \/ CommitClaim(w) \/ Enqueue(w) \/ Stamp(w)
        \/ SkipEvent(w) \/ ClaimFails(w) \/ Crash(w)
        \/ \E e \in Events : TakeJob(w, e)
        \/ \E p \in Endpoints : InsertRow(w, p)
        \/ AddDelivery(w) \/ EndJob(w) \/ FailJob(w)
    \/ \E p \in Endpoints : Switch(p)

Spec == Init /\ [][Next]_vars

-----------------------------------------------------------------------------
(* Properties. *)

Phases == {"idle", "claiming", "locked", "sending", "stamping"}

\* The type invariant; a tick in progress holds a batch exactly while it has
\* events to deal with.
TypeOK ==
    /\ outbox \in [Events -> [stored : BOOLEAN, attempts : 0..MAX_ATTEMPTS, dispatched : BOOLEAN]]
    /\ drain \in [Workers -> [phase : Phases, batch : SUBSET Events, full : BOOLEAN]]
    /\ \A w \in Workers : drain[w].batch # {} <=> drain[w].phase \in {"locked", "sending", "stamping"}
    /\ job \in [Events -> [state : {"none", "waiting", "active", "done", "failed"}, stalls : 0..MaxStalls]]
    /\ fan \in [Workers -> [event : Events \union {Nobody}, todo : SUBSET Endpoints, open : SUBSET Endpoints]]
    /\ active \subseteq Endpoints
    /\ row \in [Events -> SUBSET Endpoints]
    /\ added \in [Events -> [Endpoints -> Nat]]
    /\ enqueued \subseteq Events
    /\ lost \in [Events -> Nat]

\* However often an event is claimed, enqueued, forgotten by the queue and
\* fanned out again, an endpoint is given at most one delivery of it
\* (domain-events.processor.ts:49 "does NOT create a second delivery/POST").
Promise == INSTANCE FanOutOnce
    WITH published <- {e \in Events : outbox[e].stored}, deliveries <- added

OncePerEndpoint == Promise!Spec

\* A stamp means the event is in the queue: no crash between the two loses it.
StampedMeansEnqueued == \A e \in Events : outbox[e].dispatched => e \in enqueued

Holders(e) == {w \in Workers : drain[w].phase \in {"sending", "stamping"} /\ e \in drain[w].batch}

\* Every counted attempt of an event that is not dispatched is still being
\* worked on or has failed: an event is quarantined by failures alone.
QuarantineIsEarned ==
    \A e \in Events : ~outbox[e].dispatched =>
        outbox[e].attempts = lost[e] + Cardinality(Holders(e))

=============================================================================
