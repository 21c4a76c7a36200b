---------------------------- MODULE OutboxProofs ----------------------------
(***************************************************************************)
(* Proofs about Outbox, for any events, endpoints, workers, batch size and *)
(* faults: types, stamps that mean the event is queued, quarantine earned  *)
(* by failures, and the implementation of FanOutOnce.                      *)
(***************************************************************************)
EXTENDS Outbox, FiniteSetTheorems, WellFoundedInduction, TLAPS

-----------------------------------------------------------------------------
(* The inductive invariant. *)

EventRow == [stored : BOOLEAN, attempts : 0..MAX_ATTEMPTS, dispatched : BOOLEAN]
DrainRow == [phase : Phases, batch : SUBSET Events, full : BOOLEAN]
JobRow == [state : {"none", "waiting", "active", "done", "failed"}, stalls : 0..MaxStalls]
FanRow == [event : Events \union {Nobody}, todo : SUBSET Endpoints, open : SUBSET Endpoints]

\* What the dispatchers read and write.
DrainTypes ==
    /\ outbox \in [Events -> EventRow]
    /\ drain \in [Workers -> DrainRow]
    /\ enqueued \subseteq Events
    /\ lost \in [Events -> Nat]

\* A drain holds events exactly while it deals with them, they are stored,
\* those under lock have claims left, and a stamp follows queue.add.
DrainOK(w) ==
    /\ drain[w].batch # {} <=> drain[w].phase \in {"locked", "sending", "stamping"}
    /\ \A e \in drain[w].batch : outbox[e].stored
    /\ drain[w].phase = "locked" => \A e \in drain[w].batch : outbox[e].attempts < MAX_ATTEMPTS
    /\ drain[w].phase = "stamping" => Turn(w) \in enqueued

\* Two open claims share no event.
LocksApart ==
    \A v, w \in Workers :
        v # w /\ drain[v].phase = "locked" /\ drain[w].phase = "locked" => drain[v].batch \cap drain[w].batch = {}

\* The claims of an event are accounted for, and its stamp stands for a job.
CountsOK(e) ==
    /\ IsFiniteSet(Holders(e))
    /\ ~outbox[e].dispatched => outbox[e].attempts = lost[e] + Cardinality(Holders(e))
    /\ outbox[e].dispatched => e \in enqueued

DrainInv ==
    /\ DrainTypes
    /\ \A w \in Workers : DrainOK(w)
    /\ LocksApart
    /\ \A e \in Events : CountsOK(e)

\* What the fan-out reads and writes.
FanTypes ==
    /\ job \in [Events -> JobRow]
    /\ fan \in [Workers -> FanRow]
    /\ active \subseteq Endpoints
    /\ row \in [Events -> SUBSET Endpoints]
    /\ added \in [Events -> [Endpoints -> {0, 1}]]

\* Only a stored event has a job, and a delivery has its row.
JobOK(e) ==
    /\ job[e].state # "none" => outbox[e].stored
    /\ \A p \in Endpoints : added[e][p] = 1 => p \in row[e]

\* A fan-out works on a stored event; the endpoint it is about to serve has a
\* row and no delivery yet.
FanOK(w) ==
    /\ fan[w].event = Nobody => fan[w].open = {}
    /\ fan[w].event # Nobody => outbox[fan[w].event].stored
    /\ \A p \in fan[w].open : p \in row[fan[w].event] /\ added[fan[w].event][p] = 0

\* Two fan-outs of one event never serve the same endpoint.
FansApart ==
    \A v, w \in Workers : v # w /\ fan[v].event = fan[w].event => fan[v].open \cap fan[w].open = {}

FanInv ==
    /\ FanTypes
    /\ \A e \in Events : JobOK(e)
    /\ \A w \in Workers : FanOK(w)
    /\ FansApart

IInv == DrainInv /\ FanInv

-----------------------------------------------------------------------------
(* Lemmas about the operators of the model. *)

\* The current event of a batch is one of the batch: a set of event numbers
\* has a least element.
LEMMA LeastEvent ==
  ASSUME NEW S \in SUBSET Events, S # {}
  PROVE  Min(S) \in S
<1>1. S \subseteq Nat
  BY OutboxAssumption
<1> DEFINE Below == {ss \in Nat \X Nat : ss[1] < ss[2]}
<1>2. IsWellFoundedOn(Below, Nat)
  <2>1. Below = OpToRel(<, Nat)
    BY DEF OpToRel
  <2> QED
    BY <2>1, NatLessThanWellFounded
<1>3. \A x, y \in Nat : x =< y \/ <<y, x>> \in Below
  OBVIOUS
<1> HIDE DEF Below
<1>4. PICK x \in S : \A y \in S : ~ (<<y, x>> \in Below)
  BY <1>1, <1>2, WFMin
<1>5. \A y \in S : x =< y
  BY <1>1, <1>3, <1>4, Zenon
<1> QED
  BY <1>5 DEF Min

\* A drain in this state is dealing with the event.
Working(d, e) == d.phase \in {"sending", "stamping"} /\ e \in d.batch

\* When one drain moves, the number of drains dealing with an event changes
\* by what that drain does.
LEMMA HoldersMove ==
  ASSUME drain \in [Workers -> DrainRow], NEW w \in Workers, NEW x, drain' = [drain EXCEPT ![w] = x],
         NEW e, IsFiniteSet(Holders(e))
  PROVE  /\ IsFiniteSet(Holders(e)')
         /\ Cardinality(Holders(e)) \in Nat
         /\ (Working(drain[w], e) <=> Working(x, e)) => Holders(e)' = Holders(e)
         /\ ~Working(drain[w], e) /\ Working(x, e) =>
              Cardinality(Holders(e)') = Cardinality(Holders(e)) + 1
         /\ Working(drain[w], e) /\ ~Working(x, e) =>
              Cardinality(Holders(e)') = Cardinality(Holders(e)) - 1
<1>1. w \in Holders(e) <=> Working(drain[w], e)
  BY DEF Holders, Working
<1>2. CASE Working(x, e)
  <2>1. Holders(e)' = Holders(e) \cup {w}
    BY <1>2 DEF Holders, Working
  <2>2. IsFiniteSet(Holders(e) \cup {w})
        /\ Cardinality(Holders(e) \cup {w}) = IF w \in Holders(e) THEN Cardinality(Holders(e)) ELSE Cardinality(Holders(e)) + 1
    BY FS_AddElement
  <2> QED
    BY <1>1, <1>2, <2>1, <2>2, FS_CardinalityType
<1>3. CASE ~Working(x, e)
  <2>1. Holders(e)' = Holders(e) \ {w}
    BY <1>3 DEF Holders, Working
  <2>2. IsFiniteSet(Holders(e) \ {w})
        /\ Cardinality(Holders(e) \ {w}) = IF w \in Holders(e) THEN Cardinality(Holders(e)) - 1 ELSE Cardinality(Holders(e))
    BY FS_RemoveElement
  <2> QED
    BY <1>1, <1>3, <2>1, <2>2, FS_CardinalityType
<1> QED
  BY <1>2, <1>3

\* When one drain moves to a good state, the others stay in theirs.
LEMMA OthersKept ==
  ASSUME DrainInv, NEW w \in Workers, NEW x, drain' = [drain EXCEPT ![w] = x], DrainOK(w)',
         enqueued \subseteq enqueued',
         \A e \in Events : outbox[e].stored => outbox'[e].stored,
         \A e \in Events : outbox'[e].attempts # outbox[e].attempts =>
                             drain[w].phase = "locked" /\ e \in drain[w].batch,
         x.phase = "locked" => x.batch \cap Locked = {}
  PROVE  (\A v \in Workers : DrainOK(v)') /\ LocksApart'
<1>0. drain \in [Workers -> DrainRow] /\ drain'[w] = x /\ \A v \in Workers : v # w => drain'[v] = drain[v]
  BY DEF DrainInv, DrainTypes
<1>1. ASSUME NEW v \in Workers PROVE DrainOK(v)'
  <2>1. CASE v = w
    BY <2>1
  <2>2. CASE v # w
    <3>1. drain'[v] = drain[v] /\ DrainOK(v) /\ drain[v].batch \subseteq Events
      BY <1>0, <2>2 DEF DrainInv, DrainRow
    <3>2. Turn(v)' = Turn(v)
      BY <3>1 DEF Turn
    <3>3. drain[v].phase = "locked" => \A e \in drain[v].batch : outbox'[e].attempts = outbox[e].attempts
      BY <1>0, <2>2, <3>1 DEF DrainInv, LocksApart
    <3> QED
      BY <3>1, <3>2, <3>3 DEF DrainOK
  <2> QED
    BY <2>1, <2>2
<1>2. LocksApart'
  <2> SUFFICES ASSUME NEW u \in Workers, NEW v \in Workers, u # v,
                      drain'[u].phase = "locked", drain'[v].phase = "locked"
               PROVE  drain'[u].batch \cap drain'[v].batch = {}
    BY DEF LocksApart
  <2>1. \A z \in Workers : drain[z].phase = "locked" => drain[z].batch \subseteq Locked
    BY DEF Locked
  <2>2. CASE u = w
    BY <1>0, <2>1, <2>2
  <2>3. CASE v = w
    BY <1>0, <2>1, <2>3
  <2>4. CASE u # w /\ v # w
    BY <1>0, <2>4 DEF DrainInv, LocksApart
  <2> QED
    BY <2>2, <2>3, <2>4
<1> QED
  BY <1>1, <1>2

\* When a drain is done with its current event, that event leaves the batch
\* and no other does.
LEMMA AdvanceMove ==
  ASSUME DrainInv, NEW w \in Workers, drain[w].phase \in {"sending", "stamping"}, Advance(w)
  PROVE  /\ Turn(w) \in drain[w].batch
         /\ \E x \in DrainRow :
              /\ drain' = [drain EXCEPT ![w] = x]
              /\ x.batch = drain[w].batch \ {Turn(w)}
              /\ x.phase \in {"idle", "claiming", "sending"}
              /\ x.batch # {} <=> x.phase = "sending"
<1>1. drain[w] \in DrainRow /\ drain[w].batch # {} /\ drain[w].batch \in SUBSET Events
  BY DEF DrainInv, DrainTypes, DrainRow, DrainOK
<1>2. Turn(w) \in drain[w].batch
  BY <1>1, LeastEvent DEF Turn
<1> DEFINE rest == drain[w].batch \ {Turn(w)}
           x == IF rest # {} THEN [drain[w] EXCEPT !.phase = "sending", !.batch = rest]
                ELSE IF drain[w].full THEN [drain[w] EXCEPT !.phase = "claiming", !.batch = {}]
                ELSE NoDrain
<1>3. drain' = [drain EXCEPT ![w] = x]
  BY DEF Advance
<1>4. /\ x \in DrainRow /\ x.batch = rest
      /\ x.phase \in {"idle", "claiming", "sending"}
      /\ x.batch # {} <=> x.phase = "sending"
  BY <1>1 DEF DrainRow, Phases, NoDrain
<1> HIDE DEF x
<1> QED
  BY <1>2, <1>3, <1>4

\* A drain that moves to another state of the same or no batch, while no
\* event's claims are counted, keeps the invariant.
LEMMA MoveKeepsInv ==
  ASSUME DrainInv, NEW w \in Workers, NEW x \in DrainRow, drain' = [drain EXCEPT ![w] = x],
         UNCHANGED <<outbox, lost>>, enqueued \subseteq enqueued', enqueued' \subseteq Events,
         DrainOK(w)', x.phase = "locked" => x.batch \cap Locked = {},
         \A e \in Events : Working(drain[w], e) <=> Working(x, e)
  PROVE  DrainInv'
<1>1. DrainTypes'
  BY DEF DrainInv, DrainTypes
<1>2. (\A v \in Workers : DrainOK(v)') /\ LocksApart'
  BY OthersKept
<1>3. ASSUME NEW e \in Events PROVE CountsOK(e)'
  <2>1. CountsOK(e) /\ drain \in [Workers -> DrainRow]
    BY DEF DrainInv, DrainTypes
  <2>2. IsFiniteSet(Holders(e)') /\ Holders(e)' = Holders(e)
    BY <2>1, HoldersMove DEF CountsOK
  <2> QED
    BY <2>1, <2>2 DEF CountsOK
<1> QED
  BY <1>1, <1>2, <1>3 DEF DrainInv

\* A drain that goes on to its next event, the current one stamped or failed.
LEMMA AdvanceKeepsInv ==
  ASSUME DrainInv, NEW w \in Workers, drain[w].phase \in {"sending", "stamping"}, Advance(w),
         DrainTypes', enqueued \subseteq enqueued',
         \A e \in Events :
            /\ outbox'[e].stored = outbox[e].stored
            /\ outbox'[e].attempts = outbox[e].attempts
            /\ outbox'[e].dispatched => e \in enqueued'
            /\ e # Turn(w) => outbox'[e].dispatched = outbox[e].dispatched /\ lost'[e] = lost[e],
         ~outbox'[Turn(w)].dispatched => ~outbox[Turn(w)].dispatched /\ lost'[Turn(w)] = lost[Turn(w)] + 1
  PROVE  DrainInv'
<1>1. PICK x \in DrainRow :
              /\ drain' = [drain EXCEPT ![w] = x]
              /\ x.batch = drain[w].batch \ {Turn(w)}
              /\ x.phase \in {"idle", "claiming", "sending"}
              /\ x.batch # {} <=> x.phase = "sending"
  BY AdvanceMove
<1>0. PICK t \in Events : t = Turn(w) /\ t \in drain[w].batch
  BY AdvanceMove DEF DrainInv, DrainTypes, DrainRow
<1>2. drain \in [Workers -> DrainRow] /\ drain'[w] = x /\ DrainOK(w)
  BY <1>1 DEF DrainInv, DrainTypes
<1>3. DrainOK(w)'
  BY <1>1, <1>2 DEF DrainOK, DrainRow
<1>4. (\A v \in Workers : DrainOK(v)') /\ LocksApart'
  BY <1>1, <1>3, OthersKept
<1>5. drain' = [drain EXCEPT ![w] = x] /\ drain \in [Workers -> DrainRow]
  BY <1>1, <1>2
<1>6. ASSUME NEW e \in Events PROVE CountsOK(e)'
  <2>1. CountsOK(e)
    BY DEF DrainInv
  <2>0. IsFiniteSet(Holders(e))
    BY <2>1 DEF CountsOK
  <2>2. IsFiniteSet(Holders(e)') /\ Cardinality(Holders(e)) \in Nat
    BY <1>5, <2>0, HoldersMove
  <2>3. CASE e = t
    <3>1. Working(drain[w], e) /\ ~Working(x, e)
      BY <1>0, <1>1, <2>3 DEF Working
    <3>2. Cardinality(Holders(e)') = Cardinality(Holders(e)) - 1
      BY <1>5, <2>0, <3>1, HoldersMove
    <3>3. lost[e] \in Nat
      BY DEF DrainInv, DrainTypes
    <3> QED
      BY <1>0, <2>1, <2>2, <2>3, <3>2, <3>3 DEF CountsOK
  <2>4. CASE e # t
    <3>1. Working(drain[w], e) <=> Working(x, e)
      BY <1>0, <1>1, <2>4 DEF Working
    <3>2. Holders(e)' = Holders(e)
      BY <1>5, <2>0, <3>1, HoldersMove, Zenon
    <3> QED
      BY <1>0, <2>1, <2>2, <2>4, <3>2 DEF CountsOK
  <2> QED
    BY <2>3, <2>4
<1> QED
  BY <1>4, <1>6 DEF DrainInv

-----------------------------------------------------------------------------
(* The dispatcher keeps its invariant. *)

\* No drain holds anything at the start.
LEMMA DrainInit == Init => DrainInv
<1> SUFFICES ASSUME Init PROVE DrainInv
  OBVIOUS
<1>1. DrainTypes
  BY OutboxAssumption DEF Init, DrainTypes, EventRow, DrainRow, NewEvent, NoDrain, Phases
<1>2. \A w \in Workers : DrainOK(w)
  BY DEF Init, DrainOK, NoDrain
<1>3. LocksApart
  BY DEF Init, LocksApart, NoDrain
<1>4. ASSUME NEW e \in Events PROVE CountsOK(e)
  <2>1. Holders(e) = {}
    BY DEF Init, Holders, NoDrain
  <2> QED
    BY <2>1, FS_EmptySet DEF Init, CountsOK, NewEvent
<1> QED
  BY <1>1, <1>2, <1>3, <1>4 DEF DrainInv

\* Steps that leave the dispatcher alone.
LEMMA DrainStays ==
  ASSUME DrainInv, UNCHANGED <<outbox, drain, enqueued, lost>>
  PROVE  DrainInv'
<1>1. DrainTypes' /\ LocksApart'
  BY DEF DrainInv, DrainTypes, LocksApart
<1>2. ASSUME NEW w \in Workers PROVE DrainOK(w)'
  <2>1. Turn(w)' = Turn(w) /\ DrainOK(w)
    BY DEF Turn, DrainInv
  <2> QED
    BY <2>1 DEF DrainOK
<1>3. ASSUME NEW e \in Events PROVE CountsOK(e)'
  <2>1. Holders(e)' = Holders(e) /\ CountsOK(e)
    BY DEF Holders, DrainInv
  <2> QED
    BY <2>1 DEF CountsOK
<1> QED
  BY <1>1, <1>2, <1>3 DEF DrainInv

\* An event that is published has no claim.
LEMMA DrainPublish ==
  ASSUME DrainInv, NEW e \in Events, Publish(e)
  PROVE  DrainInv'
<1>1. \A f \in Events : /\ outbox'[f] \in EventRow
                        /\ outbox'[f].attempts = outbox[f].attempts
                        /\ outbox'[f].dispatched = outbox[f].dispatched
                        /\ outbox[f].stored => outbox'[f].stored
  BY DEF DrainInv, DrainTypes, Publish, EventRow
<1>2. DrainTypes' /\ LocksApart'
  <2> DEFINE r == [outbox[e] EXCEPT !.stored = TRUE]
  <2>1. r \in EventRow /\ outbox' = [outbox EXCEPT ![e] = r]
    BY DEF DrainInv, DrainTypes, Publish, EventRow
  <2> HIDE DEF r
  <2>2. outbox' \in [Events -> EventRow]
    BY <2>1 DEF DrainInv, DrainTypes
  <2>3. DrainTypes'
    BY <2>2 DEF DrainInv, DrainTypes, Publish
  <2>4. LocksApart'
    BY DEF DrainInv, LocksApart, Publish
  <2> QED
    BY <2>3, <2>4
<1>3. ASSUME NEW w \in Workers PROVE DrainOK(w)'
  <2>1. Turn(w)' = Turn(w) /\ DrainOK(w) /\ drain[w].batch \subseteq Events
    BY DEF Turn, DrainInv, DrainTypes, DrainRow, Publish
  <2> QED
    BY <1>1, <2>1 DEF DrainOK, Publish
<1>4. ASSUME NEW f \in Events PROVE CountsOK(f)'
  <2>1. Holders(f)' = Holders(f) /\ CountsOK(f)
    BY DEF Holders, DrainInv, Publish
  <2> QED
    BY <1>1, <2>1 DEF CountsOK, Publish
<1> QED
  BY <1>2, <1>3, <1>4 DEF DrainInv

\* A tick opens a drain without a batch, a failed claim ends one.
LEMMA DrainTick ==
  ASSUME DrainInv, NEW w \in Workers, Tick(w) \/ ClaimFails(w)
  PROVE  DrainInv'
<1>1. PICK x \in DrainRow : /\ drain' = [drain EXCEPT ![w] = x]
                            /\ x.phase \in {"idle", "claiming"} /\ x.batch = {}
  <2>1. NoDrain \in DrainRow /\ [NoDrain EXCEPT !.phase = "claiming"] \in DrainRow
    BY DEF NoDrain, DrainRow, Phases
  <2> QED
    BY <2>1 DEF Tick, ClaimFails, NoDrain
<1>2. drain'[w] = x
  BY <1>1 DEF DrainInv, DrainTypes
<1>3. DrainOK(w)'
  BY <1>1, <1>2 DEF DrainOK
<1>4. \A e \in Events : ~Working(drain[w], e) /\ ~Working(x, e)
  BY <1>1 DEF Working, Tick, ClaimFails
<1>5. enqueued' \subseteq Events /\ enqueued' = enqueued /\ UNCHANGED <<outbox, lost>>
  BY DEF Tick, ClaimFails, DrainInv, DrainTypes
<1> QED
  BY <1>1, <1>3, <1>4, <1>5, MoveKeepsInv

\* A claim takes events that are stored, that have claims left and that no
\* other open claim holds.
LEMMA DrainSelect ==
  ASSUME DrainInv, NEW w \in Workers, Select(w)
  PROVE  DrainInv'
<1>1. PICK C \in SUBSET Claimable :
        /\ IsClaim(C)
        /\ drain' = [drain EXCEPT ![w] = IF C = {} THEN NoDrain
                                         ELSE [@ EXCEPT !.phase = "locked", !.batch = C,
                                                        !.full = (Cardinality(C) = BATCH)]]
  BY DEF Select
<1> DEFINE x == IF C = {} THEN NoDrain
                ELSE [drain[w] EXCEPT !.phase = "locked", !.batch = C, !.full = (Cardinality(C) = BATCH)]
<1>2. drain' = [drain EXCEPT ![w] = x]
  BY <1>1
<1>3. drain[w] \in DrainRow /\ C \subseteq Events
  BY DEF DrainInv, DrainTypes, Claimable
<1>4. /\ x \in DrainRow /\ x.batch = C
      /\ x.phase = IF C = {} THEN "idle" ELSE "locked"
  BY <1>3 DEF NoDrain, DrainRow, Phases
<1> HIDE DEF x
<1>5. drain'[w] = x
  BY <1>2 DEF DrainInv, DrainTypes
<1>6. DrainOK(w)'
  <2>1. \A e \in C : outbox'[e].stored /\ outbox'[e].attempts < MAX_ATTEMPTS
    BY DEF Claimable, Select
  <2> QED
    BY <1>4, <1>5, <2>1 DEF DrainOK
<1>7. C \cap Locked = {}
  BY <1>1 DEF IsClaim
<1>8. \A e \in Events : ~Working(drain[w], e) /\ ~Working(x, e)
  BY <1>4 DEF Working, Select
<1>9. enqueued' \subseteq Events /\ enqueued' = enqueued /\ UNCHANGED <<outbox, lost>>
  BY DEF Select, DrainInv, DrainTypes
<1> QED
  BY <1>2, <1>4, <1>6, <1>7, <1>8, <1>9, MoveKeepsInv

\* The commit of a claim counts it for each of its events, and makes them
\* events that are dealt with.
LEMMA DrainCommit ==
  ASSUME DrainInv, NEW w \in Workers, CommitClaim(w)
  PROVE  DrainInv'
<1> DEFINE x == [drain[w] EXCEPT !.phase = "sending"]
<1>1. drain' = [drain EXCEPT ![w] = x] /\ drain[w].phase = "locked"
  BY DEF CommitClaim
<1>2. drain[w] \in DrainRow /\ drain[w].batch \subseteq Events /\ DrainOK(w)
  BY DEF DrainInv, DrainTypes, DrainRow
<1>3. x \in DrainRow /\ x.batch = drain[w].batch /\ x.phase = "sending"
  BY <1>2 DEF DrainRow, Phases
<1> HIDE DEF x
<1>4. drain'[w] = x
  BY <1>1 DEF DrainInv, DrainTypes
<1>5. ASSUME NEW e \in Events
      PROVE  /\ outbox'[e] \in EventRow
             /\ outbox'[e].stored = outbox[e].stored
             /\ outbox'[e].dispatched = outbox[e].dispatched
             /\ outbox'[e].attempts = IF e \in drain[w].batch THEN outbox[e].attempts + 1 ELSE outbox[e].attempts
  <2>1. outbox[e] \in EventRow
    BY DEF DrainInv, DrainTypes
  <2>2. outbox'[e] = IF e \in drain[w].batch THEN [outbox[e] EXCEPT !.attempts = @ + 1] ELSE outbox[e]
    BY DEF CommitClaim
  <2>3. e \in drain[w].batch => outbox[e].attempts + 1 \in 0..MAX_ATTEMPTS
    BY <1>1, <1>2, <2>1, OutboxAssumption DEF DrainOK, EventRow
  <2> QED
    BY <2>1, <2>2, <2>3 DEF EventRow
<1>6. DrainTypes'
  <2>1. outbox' \in [Events -> EventRow]
    BY <1>5 DEF CommitClaim
  <2>2. drain' \in [Workers -> DrainRow]
    BY <1>1, <1>3 DEF DrainInv, DrainTypes
  <2> QED
    BY <2>1, <2>2 DEF CommitClaim, DrainInv, DrainTypes
<1>7. DrainOK(w)'
  BY <1>1, <1>2, <1>3, <1>4, <1>5 DEF DrainOK
<1>8. (\A v \in Workers : DrainOK(v)') /\ LocksApart'
  <2>1. enqueued' = enqueued
    BY DEF CommitClaim
  <2> QED
    BY <1>1, <1>3, <1>5, <1>7, <2>1, OthersKept
<1>9. ASSUME NEW e \in Events PROVE CountsOK(e)'
  <2>1. CountsOK(e) /\ lost[e] \in Nat /\ outbox[e].attempts \in Nat
    BY OutboxAssumption DEF DrainInv, DrainTypes, EventRow
  <2>2. IsFiniteSet(Holders(e)) /\ drain \in [Workers -> DrainRow]
    BY <2>1 DEF CountsOK, DrainInv, DrainTypes
  <2>3. IsFiniteSet(Holders(e)') /\ Cardinality(Holders(e)) \in Nat
    BY <1>1, <2>2, HoldersMove
  <2>4. lost'[e] = lost[e] /\ enqueued' = enqueued
    BY DEF CommitClaim
  <2>5. CASE e \in drain[w].batch
    <3>1. ~Working(drain[w], e) /\ Working(x, e)
      BY <1>1, <1>3, <2>5 DEF Working
    <3>2. Cardinality(Holders(e)') = Cardinality(Holders(e)) + 1
      BY <1>1, <2>2, <3>1, HoldersMove
    <3> QED
      BY <1>5, <2>1, <2>3, <2>4, <2>5, <3>2 DEF CountsOK
  <2>6. CASE e \notin drain[w].batch
    <3>1. Working(drain[w], e) <=> Working(x, e)
      BY <1>3, <2>6 DEF Working
    <3>2. Holders(e)' = Holders(e)
      BY <1>1, <2>2, <3>1, HoldersMove, Zenon
    <3> QED
      BY <1>5, <2>1, <2>3, <2>4, <2>6, <3>2 DEF CountsOK
  <2> QED
    BY <2>5, <2>6
<1> QED
  BY <1>6, <1>8, <1>9 DEF DrainInv

\* An event goes to the queue before it is stamped.
LEMMA DrainEnqueue ==
  ASSUME DrainInv, NEW w \in Workers, Enqueue(w)
  PROVE  DrainInv'
<1> DEFINE x == [drain[w] EXCEPT !.phase = "stamping"]
<1>1. drain' = [drain EXCEPT ![w] = x] /\ drain[w].phase = "sending"
  BY DEF Enqueue
<1>2. drain[w] \in DrainRow /\ drain[w].batch \in SUBSET Events /\ drain[w].batch # {} /\ DrainOK(w)
  BY <1>1 DEF DrainInv, DrainTypes, DrainRow, DrainOK
<1>3. x \in DrainRow /\ x.batch = drain[w].batch /\ x.phase = "stamping"
  BY <1>2 DEF DrainRow, Phases
<1> HIDE DEF x
<1>4. drain'[w] = x
  BY <1>1 DEF DrainInv, DrainTypes
<1>5. Turn(w)' = Turn(w) /\ Turn(w) \in Events
  BY <1>2, <1>3, <1>4, LeastEvent DEF Turn
<1>6. enqueued' = enqueued \union {Turn(w)} /\ UNCHANGED <<outbox, lost>>
  BY DEF Enqueue
<1>7. DrainOK(w)'
  BY <1>1, <1>2, <1>3, <1>4, <1>5, <1>6 DEF DrainOK
<1>8. \A e \in Events : Working(drain[w], e) <=> Working(x, e)
  BY <1>1, <1>3 DEF Working
<1>9. enqueued \subseteq enqueued' /\ enqueued' \subseteq Events
  BY <1>5, <1>6 DEF DrainInv, DrainTypes
<1> QED
  BY <1>1, <1>3, <1>6, <1>7, <1>8, <1>9, MoveKeepsInv

\* A stamp is written for an event that is in the queue.
LEMMA DrainStamp ==
  ASSUME DrainInv, NEW w \in Workers, Stamp(w)
  PROVE  DrainInv'
<1>1. drain[w].phase = "stamping" /\ Advance(w) /\ DrainOK(w)
  BY DEF Stamp, DrainInv
<1>2. PICK t \in Events : t = Turn(w)
  BY <1>1, AdvanceMove DEF DrainInv, DrainTypes, DrainRow
<1> DEFINE r == [outbox[t] EXCEPT !.dispatched = TRUE]
<1>3. outbox' = [outbox EXCEPT ![t] = r] /\ UNCHANGED <<enqueued, lost>>
  BY <1>2 DEF Stamp
<1>4. /\ r \in EventRow /\ r.stored = outbox[t].stored
      /\ r.attempts = outbox[t].attempts /\ r.dispatched
  BY DEF DrainInv, DrainTypes, EventRow
<1> HIDE DEF r
<1>5. /\ outbox' \in [Events -> EventRow] /\ outbox'[t] = r
      /\ \A e \in Events : e # t => outbox'[e] = outbox[e]
  BY <1>3, <1>4 DEF DrainInv, DrainTypes
<1>6. drain' \in [Workers -> DrainRow]
  BY <1>1, AdvanceMove DEF DrainInv, DrainTypes
<1>7. DrainTypes'
  BY <1>3, <1>5, <1>6 DEF DrainInv, DrainTypes
<1>8. t \in enqueued
  BY <1>1, <1>2 DEF DrainOK
<1>9. \A e \in Events : outbox[e].dispatched => e \in enqueued
  BY DEF DrainInv, CountsOK
<1> QED
  BY <1>1, <1>2, <1>3, <1>4, <1>5, <1>7, <1>8, <1>9, AdvanceKeepsInv

\* A failed enqueue or stamp costs the event its claim.
LEMMA DrainSkip ==
  ASSUME DrainInv, NEW w \in Workers, SkipEvent(w)
  PROVE  DrainInv'
<1>1. drain[w].phase \in {"sending", "stamping"} /\ Advance(w) /\ UNCHANGED <<outbox, enqueued>>
  BY DEF SkipEvent
<1>2. PICK t \in Events : t = Turn(w)
  BY <1>1, AdvanceMove DEF DrainInv, DrainTypes, DrainRow
<1>3. lost' = [lost EXCEPT ![t] = lost[t] + 1]
  BY <1>2 DEF SkipEvent
<1>4. lost' \in [Events -> Nat] /\ lost'[t] = lost[t] + 1 /\ \A e \in Events : e # t => lost'[e] = lost[e]
  BY <1>3 DEF DrainInv, DrainTypes
<1>5. drain' \in [Workers -> DrainRow]
  BY <1>1, AdvanceMove DEF DrainInv, DrainTypes
<1>6. DrainTypes'
  BY <1>1, <1>4, <1>5 DEF DrainInv, DrainTypes
<1>7. \A e \in Events : outbox[e].dispatched => e \in enqueued
  BY DEF DrainInv, CountsOK
<1> QED
  BY <1>1, <1>2, <1>4, <1>6, <1>7, AdvanceKeepsInv

\* A dead process loses the committed claims it was working on; an open
\* claim rolls back uncounted.
LEMMA DrainCrash ==
  ASSUME DrainInv, NEW w \in Workers, Crash(w)
  PROVE  DrainInv'
<1>1. drain' = [drain EXCEPT ![w] = NoDrain] /\ UNCHANGED <<outbox, enqueued>>
  BY DEF Crash
<1>2. NoDrain \in DrainRow /\ NoDrain.phase = "idle" /\ NoDrain.batch = {}
  BY DEF NoDrain, DrainRow, Phases
<1>3. \A e \in Events : lost'[e] = IF Working(drain[w], e) THEN lost[e] + 1 ELSE lost[e]
  BY DEF Crash, Working
<1>4. DrainTypes'
  <2>1. lost' \in [Events -> Nat]
    BY DEF Crash, DrainInv, DrainTypes
  <2> QED
    BY <1>1, <1>2, <2>1 DEF DrainInv, DrainTypes
<1>5. DrainOK(w)'
  BY <1>1, <1>2 DEF DrainOK, DrainInv, DrainTypes
<1>6. (\A v \in Workers : DrainOK(v)') /\ LocksApart'
  BY <1>1, <1>2, <1>5, OthersKept
<1>7. ASSUME NEW e \in Events PROVE CountsOK(e)'
  <2>1. CountsOK(e) /\ lost[e] \in Nat /\ drain \in [Workers -> DrainRow]
    BY DEF DrainInv, DrainTypes
  <2>2. IsFiniteSet(Holders(e)) /\ ~Working(NoDrain, e)
    BY <1>2, <2>1 DEF CountsOK, Working
  <2>3. IsFiniteSet(Holders(e)') /\ Cardinality(Holders(e)) \in Nat
    BY <1>1, <2>1, <2>2, HoldersMove
  <2>4. CASE Working(drain[w], e)
    <3>1. Cardinality(Holders(e)') = Cardinality(Holders(e)) - 1
      BY <1>1, <2>1, <2>2, <2>4, HoldersMove
    <3> QED
      BY <1>1, <1>3, <2>1, <2>3, <2>4, <3>1 DEF CountsOK
  <2>5. CASE ~Working(drain[w], e)
    <3>1. Holders(e)' = Holders(e)
      BY <1>1, <2>1, <2>2, <2>5, HoldersMove, Zenon
    <3> QED
      BY <1>1, <1>3, <2>1, <2>3, <2>5, <3>1 DEF CountsOK
  <2> QED
    BY <2>4, <2>5
<1> QED
  BY <1>4, <1>6, <1>7 DEF DrainInv

\* Every step keeps the dispatcher's invariant.
LEMMA DrainNext == DrainInv /\ [Next]_vars => DrainInv'
<1> SUFFICES ASSUME DrainInv, [Next]_vars PROVE DrainInv'
  OBVIOUS
<1>1. ASSUME NEW e \in Events, Publish(e) PROVE DrainInv'
  BY <1>1, DrainPublish
<1>2. ASSUME NEW e \in Events, Stalled(e) \/ Forget(e) PROVE DrainInv'
  BY <1>2, DrainStays DEF Stalled, Forget
<1>3. ASSUME NEW w \in Workers, Tick(w) \/ ClaimFails(w) PROVE DrainInv'
  BY <1>3, DrainTick
<1>4. ASSUME NEW w \in Workers, Select(w) PROVE DrainInv'
  BY <1>4, DrainSelect
<1>5. ASSUME NEW w \in Workers, CommitClaim(w) PROVE DrainInv'
  BY <1>5, DrainCommit
<1>6. ASSUME NEW w \in Workers, Enqueue(w) PROVE DrainInv'
  BY <1>6, DrainEnqueue
<1>7. ASSUME NEW w \in Workers, Stamp(w) PROVE DrainInv'
  BY <1>7, DrainStamp
<1>8. ASSUME NEW w \in Workers, SkipEvent(w) PROVE DrainInv'
  BY <1>8, DrainSkip
<1>9. ASSUME NEW w \in Workers, Crash(w) PROVE DrainInv'
  BY <1>9, DrainCrash
<1>10. ASSUME NEW w \in Workers, NEW e \in Events, TakeJob(w, e) PROVE DrainInv'
  BY <1>10, DrainStays DEF TakeJob
<1>11. ASSUME NEW w \in Workers, NEW p \in Endpoints, InsertRow(w, p) PROVE DrainInv'
  BY <1>11, DrainStays DEF InsertRow
<1>12. ASSUME NEW w \in Workers, AddDelivery(w) \/ EndJob(w) \/ FailJob(w) PROVE DrainInv'
  BY <1>12, DrainStays DEF AddDelivery, EndJob, FailJob
<1>13. ASSUME NEW p \in Endpoints, Switch(p) PROVE DrainInv'
  BY <1>13, DrainStays DEF Switch
<1>14. CASE UNCHANGED vars
  BY <1>14, DrainStays DEF vars
<1> QED
  BY <1>1, <1>2, <1>3, <1>4, <1>5, <1>6, <1>7, <1>8, <1>9, <1>10, <1>11, <1>12, <1>13, <1>14 DEF Next

-----------------------------------------------------------------------------
(* The fan-out keeps its invariant. *)

\* Nothing is fanned out at the start.
LEMMA FanInit == Init => FanInv
<1> SUFFICES ASSUME Init PROVE FanInv
  OBVIOUS
<1>1. FanTypes
  BY OutboxAssumption DEF Init, FanTypes, JobRow, FanRow, NoFan, Nobody
<1>2. (\A e \in Events : JobOK(e)) /\ (\A w \in Workers : FanOK(w)) /\ FansApart
  BY DEF Init, JobOK, FanOK, FansApart, NoFan, Nobody
<1> QED
  BY <1>1, <1>2 DEF FanInv

\* Steps that leave the fan-out's rows alone and store no less.
LEMMA FanStays ==
  ASSUME FanInv, UNCHANGED <<fan, row, added>>, active' \subseteq Endpoints,
         job' \in [Events -> JobRow],
         \A e \in Events : /\ outbox[e].stored => outbox'[e].stored
                           /\ job'[e].state # "none" => job[e].state # "none" \/ outbox'[e].stored
  PROVE  FanInv'
<1>1. FanTypes' /\ FansApart'
  BY DEF FanInv, FanTypes, FansApart
<1>0. fan' = fan /\ row' = row /\ added' = added
  OBVIOUS
<1>2. ASSUME NEW e \in Events PROVE JobOK(e)'
  <2>1. JobOK(e)
    BY DEF FanInv
  <2> QED
    BY <1>0, <2>1 DEF JobOK
<1>3. ASSUME NEW w \in Workers PROVE FanOK(w)'
  <2>1. fan[w].event \in Events \union {Nobody} /\ FanOK(w)
    BY DEF FanInv, FanTypes, FanRow
  <2> QED
    BY <1>0, <2>1 DEF FanOK
<1> QED
  BY <1>1, <1>2, <1>3 DEF FanInv

\* A worker that drops its fan-out keeps the invariant.
LEMMA FanDrops ==
  ASSUME FanInv, NEW w \in Workers, fan' = [fan EXCEPT ![w] = NoFan],
         UNCHANGED <<outbox, row, added, active>>, job' \in [Events -> JobRow],
         \A e \in Events : job'[e].state # "none" => job[e].state # "none"
  PROVE  FanInv'
<1>1. NoFan \in FanRow /\ NoFan.event = Nobody /\ NoFan.open = {}
  BY DEF NoFan, FanRow
<1>2. fan \in [Workers -> FanRow]
  BY DEF FanInv, FanTypes
<1>3. FanTypes'
  BY <1>1 DEF FanInv, FanTypes
<1>4. \A e \in Events : JobOK(e)'
  BY DEF FanInv, JobOK
<1>5. \A v \in Workers : FanOK(v)'
  BY <1>1, <1>2 DEF FanInv, FanOK
<1>6. FansApart'
  BY <1>1, <1>2 DEF FanInv, FansApart
<1> QED
  BY <1>3, <1>4, <1>5, <1>6 DEF FanInv

\* A change of one job's row keeps the jobs typed.
LEMMA JobMove ==
  ASSUME FanInv, NEW e \in Events, NEW r \in JobRow, job' = [job EXCEPT ![e] = r]
  PROVE  job' \in [Events -> JobRow] /\ job'[e] = r /\ \A f \in Events : f # e => job'[f] = job[f]
BY DEF FanInv, FanTypes

\* The dispatcher gives the fan-out jobs of stored events only.
LEMMA FanDispatch ==
  ASSUME IInv, NEW w \in Workers,
         \/ Tick(w) \/ Select(w) \/ CommitClaim(w) \/ Enqueue(w)
         \/ Stamp(w) \/ SkipEvent(w) \/ ClaimFails(w)
  PROVE  FanInv'
<1>1. UNCHANGED <<fan, row, added, active>>
  BY DEF Tick, Select, CommitClaim, Enqueue, Stamp, SkipEvent, ClaimFails
<1>2. \A e \in Events : outbox'[e].stored = outbox[e].stored
  <2>1. outbox \in [Events -> EventRow]
    BY DEF IInv, DrainInv, DrainTypes
  <2>2. CASE CommitClaim(w)
    BY <2>1, <2>2 DEF CommitClaim, EventRow
  <2>3. CASE Stamp(w)
    BY <2>1, <2>3 DEF Stamp, EventRow
  <2>4. CASE ~CommitClaim(w) /\ ~Stamp(w)
    BY <2>4 DEF Tick, Select, Enqueue, SkipEvent, ClaimFails
  <2> QED
    BY <2>2, <2>3, <2>4
<1>3. CASE Enqueue(w)
  <2>1. drain[w].phase = "sending" /\ drain[w].batch \in SUBSET Events /\ drain[w].batch # {} /\ DrainOK(w)
    BY <1>3 DEF Enqueue, IInv, DrainInv, DrainTypes, DrainRow, DrainOK
  <2>2. PICK t \in Events : t = Turn(w) /\ t \in drain[w].batch
    BY <2>1, LeastEvent DEF Turn
  <2>3. outbox[t].stored
    BY <2>1, <2>2 DEF DrainOK
  <2> DEFINE r == IF job[t].state = "none" THEN [state |-> "waiting", stalls |-> 0] ELSE job[t]
  <2>4. job' = [job EXCEPT ![t] = r]
    BY <1>3, <2>2 DEF Enqueue
  <2>5. r \in JobRow
    BY OutboxAssumption DEF IInv, FanInv, FanTypes, JobRow
  <2> HIDE DEF r
  <2>6. job' \in [Events -> JobRow] /\ \A e \in Events : e # t => job'[e] = job[e]
    BY <2>4, <2>5, JobMove DEF IInv
  <2> QED
    BY <1>1, <1>2, <2>3, <2>6, FanStays DEF IInv, FanInv, FanTypes
<1>4. CASE ~Enqueue(w)
  <2>1. job' = job
    BY <1>4 DEF Tick, Select, CommitClaim, Stamp, SkipEvent, ClaimFails
  <2> QED
    BY <1>1, <1>2, <2>1, FanStays DEF IInv, FanInv, FanTypes
<1> QED
  BY <1>3, <1>4

\* Steps on a job's row alone.
LEMMA FanJob ==
  ASSUME FanInv, NEW e \in Events, Stalled(e) \/ Forget(e)
  PROVE  FanInv'
<1>1. job[e] \in JobRow /\ job[e].state \in {"active", "done", "failed"}
  BY DEF FanInv, FanTypes, Stalled, Forget
<1>2. PICK r \in JobRow : job' = [job EXCEPT ![e] = r]
  <2>1. CASE Stalled(e)
    <3> DEFINE r == IF job[e].stalls < MaxStalls THEN [state |-> "waiting", stalls |-> job[e].stalls + 1]
                    ELSE [job[e] EXCEPT !.state = "failed"]
    <3>1. r \in JobRow
      BY <1>1, OutboxAssumption DEF JobRow
    <3>2. job' = [job EXCEPT ![e] = r]
      BY <2>1 DEF Stalled
    <3> QED
      BY <3>1, <3>2
  <2>2. CASE Forget(e)
    <3>1. [state |-> "none", stalls |-> 0] \in JobRow
      BY OutboxAssumption DEF JobRow
    <3> QED
      BY <2>2, <3>1 DEF Forget
  <2> QED
    BY <2>1, <2>2
<1>3. job' \in [Events -> JobRow] /\ \A f \in Events : f # e => job'[f] = job[f]
  BY <1>2, JobMove
<1>4. UNCHANGED <<outbox, fan, row, added, active>>
  BY DEF Stalled, Forget
<1> QED
  BY <1>1, <1>3, <1>4, FanStays DEF FanInv, FanTypes

\* A worker that takes a job starts with no endpoint in hand.
LEMMA FanTake ==
  ASSUME FanInv, NEW w \in Workers, NEW e \in Events, TakeJob(w, e)
  PROVE  FanInv'
<1> DEFINE x == [event |-> e, todo |-> active, open |-> {}]
           r == [job[e] EXCEPT !.state = "active"]
<1>1. /\ fan' = [fan EXCEPT ![w] = x] /\ job' = [job EXCEPT ![e] = r]
      /\ job[e].state = "waiting" /\ UNCHANGED <<outbox, active, row, added>>
  BY DEF TakeJob
<1>2. r \in JobRow
  BY DEF FanInv, FanTypes, JobRow
<1>3. x \in FanRow /\ x.event = e /\ x.open = {}
  BY DEF FanInv, FanTypes, FanRow
<1> HIDE DEF x, r
<1>4. job' \in [Events -> JobRow] /\ \A f \in Events : f # e => job'[f] = job[f]
  BY <1>1, <1>2, JobMove
<1>5. fan \in [Workers -> FanRow]
  BY DEF FanInv, FanTypes
<1>6. FanTypes'
  BY <1>1, <1>3, <1>4 DEF FanInv, FanTypes
<1>7. outbox[e].stored
  BY <1>1 DEF FanInv, JobOK
<1>8. \A f \in Events : JobOK(f)'
  BY <1>1, <1>4, <1>7 DEF FanInv, JobOK
<1>9. \A v \in Workers : FanOK(v)'
  BY <1>1, <1>3, <1>5, <1>7 DEF FanInv, FanOK
<1>10. FansApart'
  BY <1>1, <1>3, <1>5 DEF FanInv, FansApart
<1> QED
  BY <1>6, <1>8, <1>9, <1>10 DEF FanInv

\* A row that this worker inserts has no delivery, and no other worker holds it.
LEMMA FanInsert ==
  ASSUME FanInv, NEW w \in Workers, NEW p \in Endpoints, InsertRow(w, p)
  PROVE  FanInv'
<1>0. fan \in [Workers -> FanRow] /\ fan[w] \in FanRow
  BY DEF FanInv, FanTypes
<1>1. PICK e \in Events : e = fan[w].event
  BY <1>0 DEF InsertRow, FanRow
<1> DEFINE x == [fan[w] EXCEPT !.todo = @ \ {p}, !.open = IF p \in row[e] THEN {} ELSE {p}]
<1>2. /\ fan' = [fan EXCEPT ![w] = x] /\ row' = [row EXCEPT ![e] = row[e] \union {p}]
      /\ UNCHANGED <<outbox, job, active, added>>
  BY <1>0, <1>1 DEF InsertRow, FanRow
<1>3. x \in FanRow /\ x.event = e /\ x.open = IF p \in row[e] THEN {} ELSE {p}
  BY <1>0, <1>1 DEF FanRow
<1> HIDE DEF x
<1>4. /\ fan'[w] = x /\ row'[e] = row[e] \union {p}
      /\ \A v \in Workers : v # w => fan'[v] = fan[v]
      /\ \A f \in Events : f # e => row'[f] = row[f]
      /\ row[e] \subseteq Endpoints
  BY <1>0, <1>2 DEF FanInv, FanTypes
<1>5. FanTypes'
  BY <1>2, <1>3, <1>4 DEF FanInv, FanTypes
<1>6. ASSUME NEW f \in Events PROVE JobOK(f)'
  BY <1>2, <1>4 DEF FanInv, JobOK
<1>7. outbox[e].stored /\ e # Nobody
  BY <1>1 DEF FanInv, FanOK, InsertRow
<1>8. p \notin row[e] => added[e][p] = 0
  BY DEF FanInv, FanTypes, JobOK
<1>9. ASSUME NEW v \in Workers PROVE FanOK(v)'
  <2>1. CASE v = w
    BY <1>2, <1>3, <1>4, <1>7, <1>8, <2>1 DEF FanOK
  <2>2. CASE v # w
    <3>1. FanOK(v) /\ fan[v].event \in Events \union {Nobody}
      BY <1>0 DEF FanInv, FanRow
    <3>2. \A f \in Events : row[f] \subseteq row'[f]
      BY <1>4
    <3> QED
      BY <1>2, <1>4, <2>2, <3>1, <3>2 DEF FanOK
  <2> QED
    BY <2>1, <2>2
<1>10. FansApart'
  <2>1. \A v \in Workers : v # w /\ fan[v].event = e => fan[v].open \cap x.open = {}
    BY <1>3 DEF FanInv, FanOK
  <2> QED
    BY <1>0, <1>3, <1>4, <2>1 DEF FanInv, FansApart
<1> QED
  BY <1>5, <1>6, <1>9, <1>10 DEF FanInv

\* A delivery is added once: the endpoint had none and no one else serves it.
LEMMA FanAdd ==
  ASSUME FanInv, NEW w \in Workers, AddDelivery(w)
  PROVE  FanInv'
<1>0. fan \in [Workers -> FanRow] /\ fan[w] \in FanRow
  BY DEF FanInv, FanTypes
<1>1. PICK e \in Events : e = fan[w].event
  BY <1>0 DEF AddDelivery, FanRow
<1>2. PICK p \in fan[w].open : added' = [added EXCEPT ![e][p] = @ + 1]
  BY <1>1 DEF AddDelivery
<1> DEFINE x == [fan[w] EXCEPT !.open = {}]
<1>3. fan' = [fan EXCEPT ![w] = x] /\ UNCHANGED <<outbox, job, active, row>>
  BY DEF AddDelivery
<1>4. x \in FanRow /\ x.event = e /\ x.open = {}
  BY <1>0, <1>1 DEF FanRow
<1> HIDE DEF x
<1>5. p \in Endpoints /\ p \in row[e] /\ added[e][p] = 0
  BY <1>0, <1>1 DEF FanInv, FanOK, FanRow
<1>6. /\ added' \in [Events -> [Endpoints -> {0, 1}]]
      /\ \A f \in Events, q \in Endpoints : added'[f][q] = IF f = e /\ q = p THEN 1 ELSE added[f][q]
  BY <1>2, <1>5 DEF FanInv, FanTypes
<1>7. FanTypes'
  BY <1>3, <1>4, <1>6 DEF FanInv, FanTypes
<1>8. \A f \in Events : JobOK(f)'
  BY <1>3, <1>5, <1>6 DEF FanInv, JobOK
<1>9. ASSUME NEW v \in Workers PROVE FanOK(v)'
  <2>1. CASE v = w
    BY <1>0, <1>1, <1>3, <1>4, <2>1 DEF FanInv, FanOK
  <2>2. CASE v # w
    <3>1. FanOK(v) /\ fan[v] \in FanRow /\ fan'[v] = fan[v]
      BY <1>0, <1>3, <2>2 DEF FanInv
    <3>2. fan[v].event = e => p \notin fan[v].open
      BY <1>1, <2>2 DEF FanInv, FansApart
    <3> QED
      BY <1>3, <1>6, <3>1, <3>2 DEF FanOK, FanRow
  <2> QED
    BY <2>1, <2>2
<1>10. FansApart'
  BY <1>0, <1>3, <1>4 DEF FanInv, FansApart
<1> QED
  BY <1>7, <1>8, <1>9, <1>10 DEF FanInv

\* A fan-out that ends, fails or dies with its worker leaves rows and
\* deliveries as they are.
LEMMA FanEnd ==
  ASSUME FanInv, NEW w \in Workers, EndJob(w) \/ FailJob(w) \/ Crash(w)
  PROVE  FanInv'
<1>1. fan' = [fan EXCEPT ![w] = NoFan] /\ UNCHANGED <<outbox, row, added, active>>
  BY DEF EndJob, FailJob, Crash
<1>2. CASE Crash(w)
  BY <1>1, <1>2, FanDrops DEF Crash, FanInv, FanTypes
<1>3. CASE EndJob(w) \/ FailJob(w)
  <2>1. PICK e \in Events : e = fan[w].event
    BY <1>3 DEF EndJob, FailJob, FanInv, FanTypes, FanRow
  <2>2. PICK state \in {"done", "failed"} : job' = [job EXCEPT ![e] = [job[e] EXCEPT !.state = state]]
    BY <1>3, <2>1 DEF EndJob, FailJob
  <2> DEFINE r == [job[e] EXCEPT !.state = state]
  <2>3. r \in JobRow
    BY DEF FanInv, FanTypes, JobRow
  <2>4. job' = [job EXCEPT ![e] = r]
    BY <2>2
  <2> HIDE DEF r
  <2>5. job' \in [Events -> JobRow] /\ \A f \in Events : f # e => job'[f] = job[f]
    BY <2>3, <2>4, JobMove
  <2>6. outbox[e].stored
    BY <1>3, <2>1 DEF FanInv, FanOK, EndJob, FailJob
  <2>7. NoFan \in FanRow /\ NoFan.event = Nobody /\ NoFan.open = {} /\ fan \in [Workers -> FanRow]
    BY DEF NoFan, FanRow, FanInv, FanTypes
  <2>8. FanTypes'
    BY <1>1, <2>5, <2>7 DEF FanInv, FanTypes
  <2>9. \A f \in Events : JobOK(f)'
    BY <1>1, <2>5, <2>6 DEF FanInv, JobOK
  <2>10. \A v \in Workers : FanOK(v)'
    BY <1>1, <2>7 DEF FanInv, FanOK
  <2>11. FansApart'
    BY <1>1, <2>7 DEF FanInv, FansApart
  <2> QED
    BY <2>8, <2>9, <2>10, <2>11 DEF FanInv
<1> QED
  BY <1>2, <1>3

\* Every step keeps the fan-out's invariant.
LEMMA FanNext == IInv /\ [Next]_vars => FanInv'
<1> SUFFICES ASSUME IInv, [Next]_vars PROVE FanInv'
  OBVIOUS
<1> USE DEF IInv
<1>1. ASSUME NEW e \in Events, Publish(e) PROVE FanInv'
  <2>1. UNCHANGED <<job, fan, row, added, active>>
    BY <1>1 DEF Publish
  <2>2. \A f \in Events : outbox[f].stored => outbox'[f].stored
    BY <1>1 DEF Publish, DrainInv, DrainTypes, EventRow
  <2> QED
    BY <2>1, <2>2, FanStays DEF FanInv, FanTypes
<1>2. ASSUME NEW e \in Events, Stalled(e) \/ Forget(e) PROVE FanInv'
  BY <1>2, FanJob
<1>3. ASSUME NEW w \in Workers,
             \/ Tick(w) \/ Select(w) \/ CommitClaim(w) \/ Enqueue(w)
             \/ Stamp(w) \/ SkipEvent(w) \/ ClaimFails(w)
      PROVE FanInv'
  BY <1>3, FanDispatch
<1>4. ASSUME NEW w \in Workers, NEW e \in Events, TakeJob(w, e) PROVE FanInv'
  BY <1>4, FanTake
<1>5. ASSUME NEW w \in Workers, NEW p \in Endpoints, InsertRow(w, p) PROVE FanInv'
  BY <1>5, FanInsert
<1>6. ASSUME NEW w \in Workers, AddDelivery(w) PROVE FanInv'
  BY <1>6, FanAdd
<1>7. ASSUME NEW w \in Workers, EndJob(w) \/ FailJob(w) \/ Crash(w) PROVE FanInv'
  BY <1>7, FanEnd
<1>8. ASSUME NEW p \in Endpoints, Switch(p) PROVE FanInv'
  <2>1. UNCHANGED <<outbox, job, fan, row, added>> /\ active' \subseteq Endpoints
    BY <1>8 DEF Switch, FanInv, FanTypes
  <2> QED
    BY <2>1, FanStays DEF FanInv, FanTypes
<1>9. CASE UNCHANGED vars
  BY <1>9, FanStays DEF vars, FanInv, FanTypes
<1> QED
  BY <1>1, <1>2, <1>3, <1>4, <1>5, <1>6, <1>7, <1>8, <1>9 DEF Next

-----------------------------------------------------------------------------
(* The theorems. *)

\* The inductive invariant holds in every state of every run.
THEOREM Inductive == Spec => []IInv
<1>1. Init => IInv
  BY DrainInit, FanInit DEF IInv
<1>2. IInv /\ [Next]_vars => IInv'
  BY DrainNext, FanNext DEF IInv
<1> QED
  BY <1>1, <1>2, PTL DEF Spec

\* Types: outbox rows, drains, jobs and fan-outs keep their shape, no event is
\* claimed more than MAX_ATTEMPTS times, and a drain holds events exactly
\* while it deals with them (domain-events.dispatcher.ts).
THEOREM TypeCorrect == Spec => []TypeOK
<1>1. IInv => TypeOK
  <2> SUFFICES ASSUME IInv PROVE TypeOK
    OBVIOUS
  <2>1. added \in [Events -> [Endpoints -> Nat]]
    BY DEF IInv, FanInv, FanTypes
  <2>2. \A w \in Workers : drain[w].batch # {} <=> drain[w].phase \in {"locked", "sending", "stamping"}
    BY DEF IInv, DrainInv, DrainOK
  <2> QED
    BY <2>1, <2>2 DEF IInv, DrainInv, DrainTypes, FanInv, FanTypes, TypeOK, EventRow, DrainRow, JobRow, FanRow
<1> QED
  BY <1>1, Inductive, PTL

\* A dispatched stamp is written only for an event that queue.add has taken:
\* no crash, lost answer or second dispatcher stamps an event the queue never
\* had.
THEOREM StampsAreSafe == Spec => []StampedMeansEnqueued
<1>1. IInv => StampedMeansEnqueued
  BY DEF IInv, DrainInv, CountsOK, StampedMeansEnqueued
<1> QED
  BY <1>1, Inductive, PTL

\* The attempts of an event that is not dispatched are the drains now dealing
\* with it and the claims that failed or died: the count that quarantines an
\* event is never raised by two dispatchers that merely met.
THEOREM QuarantineIsFair == Spec => []QuarantineIsEarned
<1>1. IInv => QuarantineIsEarned
  BY DEF IInv, DrainInv, CountsOK, QuarantineIsEarned
<1> QED
  BY <1>1, Inductive, PTL

-----------------------------------------------------------------------------
(* The refinement. *)

\* Nothing is published or delivered at the start.
LEMMA PromiseInit == Init => Promise!Init
BY DEF Init, NewEvent, Promise!Init

\* A step that changes neither the stored events nor the deliveries is a
\* stutter of FanOutOnce.
LEMMA PromiseStutters ==
  ASSUME \A e \in Events : outbox'[e].stored = outbox[e].stored, added' = added
  PROVE  UNCHANGED Promise!vars
BY DEF Promise!vars

\* Every step of the lane is a publication, a first delivery to an endpoint
\* or a stutter.
LEMMA PromiseNext == IInv /\ [Next]_vars => [Promise!Next]_(Promise!vars)
<1> SUFFICES ASSUME IInv, [Next]_vars PROVE Promise!Next \/ UNCHANGED Promise!vars
  OBVIOUS
<1>0. outbox \in [Events -> EventRow]
  BY DEF IInv, DrainInv, DrainTypes
<1>1. ASSUME NEW e \in Events, Publish(e) PROVE Promise!Next
  <2>1. /\ ~outbox[e].stored /\ outbox'[e].stored /\ added' = added
        /\ \A f \in Events : f # e => outbox'[f] = outbox[f]
    BY <1>0, <1>1 DEF Publish, EventRow
  <2>2. {f \in Events : outbox'[f].stored} = {f \in Events : outbox[f].stored} \union {e}
    BY <2>1
  <2>3. Promise!Publish(e)
    BY <2>1, <2>2 DEF Promise!Publish
  <2> QED
    BY <2>3 DEF Promise!Next
<1>2. ASSUME NEW w \in Workers, AddDelivery(w) PROVE Promise!Next
  <2>1. PICK e \in Events : e = fan[w].event
    BY <1>2 DEF AddDelivery, IInv, FanInv, FanTypes, FanRow
  <2>2. PICK p \in fan[w].open : added' = [added EXCEPT ![e][p] = @ + 1]
    BY <1>2, <2>1 DEF AddDelivery
  <2>3. p \in Endpoints /\ added[e][p] = 0 /\ outbox[e].stored
    BY <1>2, <2>1 DEF AddDelivery, IInv, FanInv, FanTypes, FanRow, FanOK
  <2>4. added' = [added EXCEPT ![e][p] = 1]
    BY <2>2, <2>3 DEF IInv, FanInv, FanTypes
  <2>5. outbox' = outbox
    BY <1>2 DEF AddDelivery
  <2>6. Promise!Deliver(e, p)
    BY <2>3, <2>4, <2>5 DEF Promise!Deliver
  <2> QED
    BY <2>3, <2>6 DEF Promise!Next
<1>3. ASSUME NEW w \in Workers, CommitClaim(w) PROVE UNCHANGED Promise!vars
  <2>1. \A e \in Events : outbox'[e].stored = outbox[e].stored
    BY <1>0, <1>3 DEF CommitClaim, EventRow
  <2> QED
    BY <1>3, <2>1, PromiseStutters DEF CommitClaim
<1>4. ASSUME NEW w \in Workers, Stamp(w) PROVE UNCHANGED Promise!vars
  <2>1. \A e \in Events : outbox'[e].stored = outbox[e].stored
    BY <1>0, <1>4 DEF Stamp, EventRow
  <2> QED
    BY <1>4, <2>1, PromiseStutters DEF Stamp
<1>5. ASSUME UNCHANGED <<outbox, added>> PROVE UNCHANGED Promise!vars
  BY <1>5, PromiseStutters
<1>6. ASSUME NEW e \in Events, Stalled(e) \/ Forget(e) PROVE UNCHANGED Promise!vars
  BY <1>5, <1>6 DEF Stalled, Forget
<1>7. ASSUME NEW w \in Workers,
             Tick(w) \/ Select(w) \/ Enqueue(w) \/ SkipEvent(w) \/ ClaimFails(w) \/ Crash(w)
      PROVE  UNCHANGED Promise!vars
  BY <1>5, <1>7 DEF Tick, Select, Enqueue, SkipEvent, ClaimFails, Crash
<1>8. ASSUME NEW w \in Workers, NEW e \in Events, TakeJob(w, e) PROVE UNCHANGED Promise!vars
  BY <1>5, <1>8 DEF TakeJob
<1>9. ASSUME NEW w \in Workers, NEW p \in Endpoints, InsertRow(w, p) PROVE UNCHANGED Promise!vars
  BY <1>5, <1>9 DEF InsertRow
<1>10. ASSUME NEW w \in Workers, EndJob(w) \/ FailJob(w) PROVE UNCHANGED Promise!vars
  BY <1>5, <1>10 DEF EndJob, FailJob
<1>11. ASSUME NEW p \in Endpoints, Switch(p) PROVE UNCHANGED Promise!vars
  BY <1>5, <1>11 DEF Switch
<1>12. CASE UNCHANGED vars
  BY <1>5, <1>12 DEF vars
<1> QED
  BY <1>1, <1>2, <1>3, <1>4, <1>6, <1>7, <1>8, <1>9, <1>10, <1>11, <1>12 DEF Next

\* The lane implements FanOutOnce: an endpoint is given at most one delivery
\* of an event, and only of an event that was published, whatever is claimed,
\* enqueued and fanned out again (domain-events.processor.ts).
THEOREM DeliversOnce == Spec => OncePerEndpoint
BY PromiseInit, PromiseNext, Inductive, PTL DEF Spec, OncePerEndpoint, Promise!Spec

=============================================================================
