--------------------------- MODULE SyncFeedProofs ---------------------------
(* Proofs about SyncFeed, for every set of rows, clients and writers: its
   types, its inductive invariant and the safety properties it implies. *)
EXTENDS SyncFeed, TLAPS

-----------------------------------------------------------------------------
(* The constant records have their types. *)

\* Zero is what a cursor starts from.
LEMMA Zero == 0 \in Seqs0
  BY SyncFeedAssumption DEF Seqs0

\* A row not held yet is a copy, and a store may hold nothing else.
LEMMA BlankTyped == Blank \in Copy /\ [r \in Rows |-> Blank] \in [Rows -> Copy]
  BY Zero DEF Blank, Copy

\* A writer without a transaction is typed and idle.
LEMMA NoTxTyped == NoTx \in TxRec /\ NoTx.phase = "idle"
  BY Zero DEF NoTx, TxRec, Sources

\* A wiped store is a store.
LEMMA EmptyTyped == Empty \in Store
  BY Zero, BlankTyped DEF Empty, Store

\* What IndexedDB holds before anything is persisted is a snapshot.
LEMMA NoSnapshotTyped == NoSnapshot \in Snapshot
  BY EmptyTyped DEF NoSnapshot, Snapshot

\* No pull is a pull record.
LEMMA NoPullTyped == NoPull \in PullRec
  BY Zero, BlankTyped DEF NoPull, PullRec

\* No bootstrap, and one that is wanted, are bootstrap records.
LEMMA NoBootTyped == NoBoot \in BootRec /\ [NoBoot EXCEPT !.phase = "wanted"] \in BootRec
  BY Zero, BlankTyped DEF NoBoot, BootRec

-----------------------------------------------------------------------------
(* The type invariant. *)

\* The feed starts typed.
LEMMA InitTypeOK == Init => TypeOK
<1> SUFFICES ASSUME Init PROVE TypeOK
  OBVIOUS
<1>1. nextSeq \in Seqs0 /\ Seed \in Event
  BY SyncFeedAssumption DEF Init, Seqs0, Seqs, Seed, Event, Sources
<1>2. rows \in [Rows -> RowRec]
  BY Zero DEF Init, RowRec
<1> QED
  BY <1>1, <1>2, NoTxTyped, EmptyTyped, NoSnapshotTyped, NoPullTyped, NoBootTyped DEF Init, TypeOK

\* The server's steps keep the types.
LEMMA ServerTypeOK == ASSUME TypeOK, ServerNext PROVE TypeOK'
<1> USE DEF TypeOK
<1>1. ASSUME NEW w \in Writers, NEW x \in Sources, NEW R \in SUBSET Clients, Write(w, x, R)
      PROVE TypeOK'
  <2>1. nextSeq + 1 \in Seqs0
    BY <1>1, SyncFeedAssumption DEF Write, Seqs0
  <2>2. nextSeq + 1 \in Seqs
    BY <1>1, SyncFeedAssumption DEF Write, Seqs0, Seqs
  <2> DEFINE t == [phase |-> "open", seq |-> nextSeq + 1, row |-> x, readers |-> R]
  <2>3. t \in TxRec /\ t.seq \in Seqs
    BY <2>1, <2>2, <1>1 DEF TxRec
  <2>4. tx' = [tx EXCEPT ![w] = t]
    BY <1>1 DEF Write
  <2> HIDE DEF t
  <2> QED
    BY <1>1, <2>1, <2>3, <2>4 DEF Write
<1>2. ASSUME NEW w \in Writers, Commit(w) PROVE TypeOK'
  <2> DEFINE e == [seq |-> tx[w].seq, row |-> tx[w].row, readers |-> tx[w].readers]
  <2>1. e \in Event /\ [ver |-> e.seq, readers |-> e.readers] \in RowRec
    BY <1>2, SyncFeedAssumption DEF Commit, TxRec, Event, RowRec, Seqs, Seqs0
  <2>2. rows' \in [Rows -> RowRec]
    BY <2>1, <1>2 DEF Commit
  <2> DEFINE t == [tx[w] EXCEPT !.phase = "committed"]
  <2>3. t \in TxRec /\ t.phase = "committed"
    BY DEF TxRec
  <2>4. tx' = [tx EXCEPT ![w] = t]
    BY <1>2 DEF Commit
  <2> HIDE DEF t
  <2> QED
    BY <1>2, <2>1, <2>2, <2>3, <2>4 DEF Commit
<1>3. ASSUME NEW w \in Writers, Abort(w) \/ Quiet(w) PROVE TypeOK'
  BY <1>3, NoTxTyped DEF Abort, Quiet
<1>4. ASSUME NEW w \in Writers, Announce(w) PROVE TypeOK'
  <2>1. pings' \in [Clients -> SUBSET Seqs0]
    BY <1>4 DEF Announce
  <2> QED
    BY <1>4, <2>1, NoTxTyped DEF Announce
<1>5. ASSUME NEW P, Prune(P) PROVE TypeOK'
  BY <1>5 DEF Prune
<1> QED
  BY <1>1, <1>2, <1>3, <1>4, <1>5 DEF ServerNext, Sources

\* Changing the fields of a typed answer or store leaves it typed.
LEMMA PullFieldsTyped ==
  ASSUME NEW p \in PullRec
  PROVE  /\ \A S \in SUBSET Seqs : [p EXCEPT !.phase = "checked", !.announced = S] \in PullRec
         /\ \A h \in Seqs0 : [p EXCEPT !.phase = "headed", !.head = h] \in PullRec
         /\ \A F \in [Rows -> Copy] : [p EXCEPT !.phase = "fetched", !.fetched = F] \in PullRec
  BY DEF PullRec

\* So does the answer of a pull that is filled in.
LEMMA AnswerTyped ==
  ASSUME NEW p \in PullRec, NEW W \in SUBSET Seqs, NEW S \in SUBSET Seqs, NEW H \in SUBSET Seqs,
         NEW full \in BOOLEAN
  PROVE  [p EXCEPT !.phase = "read", !.events = W, !.full = full, !.seen = S, !.holes = H] \in PullRec
  BY DEF PullRec

\* So does a store whose cursor or rows are set.
LEMMA StoreFieldsTyped ==
  ASSUME NEW s \in Store
  PROVE  /\ \A m \in BOOLEAN : [s EXCEPT !.mixed = m] \in Store
         /\ \A n \in Seqs0, F \in [Rows -> Copy], R \in SUBSET Seqs, H \in SUBSET Seqs :
              /\ [s EXCEPT !.cache = F, !.cursor = n, !.raced = R, !.holed = H] \in Store
              /\ [s EXCEPT !.cache = F, !.cursor = n, !.seeded = TRUE, !.raced = R, !.holed = {}] \in Store
  BY DEF Store

\* A pull that begins asks from a typed cursor.
LEMMA BeginPullTyped ==
  ASSUME TypeOK, NEW c \in Clients, NEW since \in Seqs0, BeginPull(c, since)
  PROVE  /\ pull' \in [Clients -> PullRec]
         /\ replica' \in [Clients -> Store]
<1>1. [NoPull EXCEPT !.phase = "asked", !.since = since] \in PullRec
  BY NoPullTyped DEF PullRec
<1>2. [replica[c] EXCEPT !.mixed = replica[c].mixed \/ boot[c].phase # "idle"] \in Store
  <2>1. replica[c] \in Store
    BY DEF TypeOK
  <2>2. (replica[c].mixed \/ boot[c].phase # "idle") \in BOOLEAN
    BY <2>1 DEF Store
  <2> QED
    BY <2>1, <2>2, StoreFieldsTyped
<1> QED
  BY <1>1, <1>2 DEF BeginPull, TypeOK

\* Every cursor a pull may ask from is a sequence number.
LEMMA SinceForTyped ==
  ASSUME TypeOK, NEW c \in Clients, NEW h \in Seqs0
  PROVE  SinceFor(c, h) \in Seqs0 /\ SinceFor(c, h) <= replica[c].cursor
<1>1. replica[c].cursor \in Seqs0
  BY DEF TypeOK, Store
<1> QED
  BY <1>1, SyncFeedAssumption DEF SinceFor, Seqs0

\* The steps of a pull keep the types.
LEMMA PullTypeOK ==
  ASSUME TypeOK, NEW c \in Clients,
         \/ Poll(c)
         \/ \E h \in Seqs0 : ReceivePing(c, h) \/ LosePing(c, h)
         \/ CheckHorizon(c) \/ Refused(c) \/ ReadEvents(c) \/ ReadHead(c) \/ Refetch(c)
         \/ ApplyDelta(c) \/ FailPull(c)
  PROVE  TypeOK'
<1> USE DEF TypeOK
<1>1. CASE Poll(c)
  <2>1. replica[c].cursor \in Seqs0
    BY DEF Store
  <2>2. pull' \in [Clients -> PullRec] /\ replica' \in [Clients -> Store]
    BY <1>1, <2>1, BeginPullTyped DEF Poll
  <2> QED
    BY <1>1, <2>2 DEF Poll, server
<1>2. ASSUME NEW h \in Seqs0, ReceivePing(c, h) \/ LosePing(c, h) PROVE TypeOK'
  <2>1. pull' \in [Clients -> PullRec] /\ replica' \in [Clients -> Store]
    BY <1>2, SinceForTyped, BeginPullTyped DEF ReceivePing, LosePing
  <2>2. pings' \in [Clients -> SUBSET Seqs0]
    BY <1>2 DEF ReceivePing, LosePing
  <2> QED
    BY <1>2, <2>1, <2>2 DEF ReceivePing, LosePing, server
<1>3. CASE CheckHorizon(c)
  <2>1. PICK h \in Seqs0 : pull' = [pull EXCEPT ![c].phase = "checked", ![c].announced = AnnouncedBy(h)]
    BY <1>3 DEF CheckHorizon
  <2>2. AnnouncedBy(h) \subseteq Seqs
    BY DEF AnnouncedBy, Pruned, SeqsOf, Event
  <2>3. [pull[c] EXCEPT !.phase = "checked", !.announced = AnnouncedBy(h)] \in PullRec
    BY <2>2, PullFieldsTyped
  <2> QED
    BY <1>3, <2>1, <2>3 DEF CheckHorizon, server
<1>4. CASE Refused(c) \/ FailPull(c)
  BY <1>4, NoPullTyped DEF Refused, FailPull, server
<1>5. CASE ReadEvents(c)
  <2> DEFINE later == {s \in SeqsOf(PmEvents) : s > pull[c].since}
             H == {e.seq : e \in {x \in Pruned : x.row \in Rows /\ x.seq > pull[c].since}} \ pull[c].announced
  <2>1. PICK W \in SUBSET later :
          pull' = [pull EXCEPT ![c].phase = "read", ![c].events = W,
                               ![c].full = (Cardinality(W) = WindowLimit),
                               ![c].seen = SeqsOf(history), ![c].holes = H]
    BY <1>5 DEF ReadEvents
  <2>2. W \subseteq Seqs /\ SeqsOf(history) \subseteq Seqs /\ H \subseteq Seqs
    BY DEF SeqsOf, PmEvents, Pruned, Event
  <2> DEFINE full == (Cardinality(W) = WindowLimit)
  <2>3. full \in BOOLEAN
    OBVIOUS
  <2> HIDE DEF H, full
  <2>4. [pull[c] EXCEPT !.phase = "read", !.events = W, !.full = full,
                        !.seen = SeqsOf(history), !.holes = H] \in PullRec
    BY <2>2, <2>3, AnswerTyped
  <2>5. pull' = [pull EXCEPT ![c] = [pull[c] EXCEPT !.phase = "read", !.events = W, !.full = full,
                                     !.seen = SeqsOf(history), !.holes = H]]
    BY <2>1 DEF full
  <2>6. pull' \in [Clients -> PullRec]
    BY <2>4, <2>5
  <2> QED
    BY <1>5, <2>6 DEF ReadEvents, server
<1>6. CASE ReadHead(c)
  <2>1. PICK h \in Seqs0 : pull' = [pull EXCEPT ![c].phase = "headed", ![c].head = h]
    BY <1>6 DEF ReadHead
  <2>2. [pull[c] EXCEPT !.phase = "headed", !.head = h] \in PullRec
    BY PullFieldsTyped
  <2> QED
    BY <1>6, <2>1, <2>2 DEF ReadHead, server
<1>7. CASE Refetch(c)
  <2> DEFINE F == [r \in Rows |-> IF r \in Touched(pull[c]) THEN Current(c, r) ELSE Blank]
  <2>1. \A r \in Rows : Current(c, r) \in Copy
    BY DEF Current, Copy, RowRec
  <2>2. F \in [Rows -> Copy]
    BY <2>1, BlankTyped
  <2> HIDE DEF F
  <2>3. [pull[c] EXCEPT !.phase = "fetched", !.fetched = F] \in PullRec
    BY <2>2, PullFieldsTyped
  <2>4. pull' = [pull EXCEPT ![c] = [pull[c] EXCEPT !.phase = "fetched", !.fetched = F]]
    BY <1>7 DEF Refetch, F
  <2>5. pull' \in [Clients -> PullRec]
    BY <2>3, <2>4
  <2> QED
    BY <1>7, <2>5 DEF Refetch, server
<1>8. CASE ApplyDelta(c)
  <2> DEFINE p == pull[c]
             s == replica[c]
             cursor == Later(s.cursor, p.head)
             cache == [r \in Rows |-> IF r \in Touched(p) THEN p.fetched[r] ELSE s.cache[r]]
             raced == (s.raced \ p.events) \union ((1..cursor) \ p.seen)
             holed == (s.holed \ p.events) \union (p.holes \intersect (1..cursor))
  <2>1. cursor \in Seqs0
    BY DEF Later, Store, PullRec
  <2>2. cache \in [Rows -> Copy]
    BY DEF Store, PullRec
  <2>3. raced \subseteq Seqs /\ holed \subseteq Seqs
    <3>1. 1..cursor \subseteq Seqs
      BY <2>1, SyncFeedAssumption DEF Seqs, Seqs0
    <3> QED
      BY <3>1 DEF Store, PullRec
  <2> HIDE DEF cursor, cache, raced, holed
  <2>4. [s EXCEPT !.cache = cache, !.cursor = cursor, !.raced = raced, !.holed = holed] \in Store
    BY <2>1, <2>2, <2>3, StoreFieldsTyped
  <2>5. replica' = [replica EXCEPT ![c] =
            [s EXCEPT !.cache = cache, !.cursor = cursor, !.raced = raced, !.holed = holed]]
    BY <1>8 DEF ApplyDelta, cursor, cache, raced, holed
  <2> QED
    BY <1>8, <2>4, <2>5, NoPullTyped DEF ApplyDelta, server
<1> QED
  BY <1>1, <1>2, <1>3, <1>4, <1>5, <1>6, <1>7, <1>8

\* The steps of a bootstrap, a reset, a save and a reload keep the types.
LEMMA BootTypeOK ==
  ASSUME TypeOK, NEW c \in Clients,
         \/ BootHead(c) \/ BootRows(c) \/ BootApply(c) \/ FailBoot(c)
         \/ Reset(c) \/ Persist(c) \/ Reload(c)
  PROVE  TypeOK'
<1> USE DEF TypeOK
<1>1. CASE BootHead(c)
  <2>1. PICK h \in Seqs0 : boot' = [boot EXCEPT ![c].phase = "headed", ![c].head = h, ![c].seen = SeqsOf(history)]
    BY <1>1 DEF BootHead
  <2>2. SeqsOf(history) \subseteq Seqs
    BY DEF SeqsOf, Event
  <2>3. [boot[c] EXCEPT !.phase = "headed", !.head = h, !.seen = SeqsOf(history)] \in BootRec
    BY <2>2 DEF BootRec
  <2> QED
    BY <1>1, <2>1, <2>3 DEF BootHead, server
<1>2. CASE BootRows(c)
  <2> DEFINE F == [r \in Rows |-> Current(c, r)]
  <2>1. F \in [Rows -> Copy]
    BY DEF Current, Copy, RowRec
  <2> HIDE DEF F
  <2>2. [boot[c] EXCEPT !.phase = "fetched", !.fetched = F] \in BootRec
    BY <2>1 DEF BootRec
  <2> QED
    BY <1>2, <2>2 DEF BootRows, server, F
<1>3. CASE BootApply(c)
  <2> DEFINE b == boot[c]
             s == replica[c]
             cursor == Later(s.cursor, b.head)
             cache == [r \in Rows |-> IF b.fetched[r].shown \/ ~s.cache[r].shown
                                      THEN b.fetched[r] ELSE s.cache[r]]
             raced == (1..cursor) \ b.seen
  <2>1. cursor \in Seqs0
    BY DEF Later, Store, BootRec
  <2>2. cache \in [Rows -> Copy]
    BY DEF Store, BootRec
  <2>3. raced \subseteq Seqs
    BY <2>1, SyncFeedAssumption DEF Seqs, Seqs0
  <2> HIDE DEF cursor, cache, raced
  <2>4. [s EXCEPT !.cache = cache, !.cursor = cursor, !.seeded = TRUE, !.raced = raced, !.holed = {}] \in Store
    BY <2>1, <2>2, <2>3, StoreFieldsTyped
  <2>5. replica' = [replica EXCEPT ![c] =
            [s EXCEPT !.cache = cache, !.cursor = cursor, !.seeded = TRUE, !.raced = raced, !.holed = {}]]
    BY <1>3 DEF BootApply, cursor, cache, raced
  <2> QED
    BY <1>3, <2>4, <2>5, NoBootTyped DEF BootApply, server
<1>4. CASE FailBoot(c)
  BY <1>4, NoBootTyped DEF FailBoot, server
<1>5. CASE Reset(c)
  <2>1. [Empty EXCEPT !.mixed = pull[c].phase # "idle"] \in Store
    BY EmptyTyped DEF Store
  <2> QED
    BY <1>5, <2>1, NoBootTyped, NoSnapshotTyped DEF Reset, server
<1>6. CASE Persist(c)
  <2>1. [present |-> TRUE, store |-> replica[c]] \in Snapshot
    BY DEF Snapshot
  <2> QED
    BY <1>6, <2>1 DEF Persist, server
<1>7. CASE Reload(c)
  <2>1. saved[c].store \in Store
    BY DEF Snapshot
  <2> QED
    BY <1>7, <2>1, EmptyTyped, NoSnapshotTyped, NoBootTyped, NoPullTyped DEF Reload, server
<1> QED
  BY <1>1, <1>2, <1>3, <1>4, <1>5, <1>6, <1>7

\* Every step keeps the types.
LEMMA NextTypeOK == TypeOK /\ [Next]_vars => TypeOK'
<1> SUFFICES ASSUME TypeOK, [Next]_vars PROVE TypeOK'
  OBVIOUS
<1>1. CASE UNCHANGED vars
  BY <1>1 DEF vars, TypeOK
<1>2. CASE ServerNext
  BY <1>2, ServerTypeOK
<1>3. ASSUME NEW c \in Clients, ClientNext(c) PROVE TypeOK'
  BY <1>3, PullTypeOK, BootTypeOK DEF ClientNext
<1> QED
  BY <1>1, <1>2, <1>3 DEF Next

\* The type invariant of SyncFeed.
THEOREM TypeCorrect == Spec => []TypeOK
  BY InitTypeOK, NextTypeOK, PTL DEF Spec

-----------------------------------------------------------------------------
(* A part of the invariant is kept by a step that leaves alone what it reads. *)

\* So the part about the stores,
LEMMA StoresFrame ==
  ASSUME NEW c \in Clients, Stores(c),
         UNCHANGED <<rows, history>>, replica'[c] = replica[c], saved'[c] = saved[c]
  PROVE  Stores(c)'
  BY DEF Stores, GoodStore, Faithful, HonestCopy, SeqsOf

\* ... the one about who may write to them,
LEMMA LaneFrame ==
  ASSUME NEW c \in Clients, Lane(c),
         replica'[c] = replica[c], boot'[c] = boot[c], pull'[c] = pull[c]
  PROVE  Lane(c)'
  BY DEF Lane

\* ... the one about the answer of a pull,
LEMMA PullFrame ==
  ASSUME NEW c \in Clients, PullAnswer(c),
         UNCHANGED <<rows, history>>, replica'[c] = replica[c], pull'[c] = pull[c]
  PROVE  PullAnswer(c)'
  BY DEF PullAnswer, HonestCopy, Touched, SeqsOf

\* ... the one about the answer of a bootstrap,
LEMMA BootFrame ==
  ASSUME NEW c \in Clients, BootAnswer(c),
         UNCHANGED <<rows, history>>, boot'[c] = boot[c]
  PROVE  BootAnswer(c)'
  BY DEF BootAnswer, HonestCopy, SeqsOf

\* ... and all of a client's.
LEMMA ClientFrame ==
  ASSUME NEW c \in Clients, ClientInv(c), UNCHANGED <<rows, history>>,
         replica'[c] = replica[c], saved'[c] = saved[c], pull'[c] = pull[c], boot'[c] = boot[c]
  PROVE  ClientInv(c)'
  BY StoresFrame, LaneFrame, PullFrame, BootFrame DEF ClientInv

\* Sequence numbers are positive integers.
LEMMA SeqsAreInts == Seqs \subseteq Int /\ Seqs0 \subseteq Int /\ \A n \in Seqs : n > 0
  BY SyncFeedAssumption DEF Seqs, Seqs0

-----------------------------------------------------------------------------
(* A wiped store is good and an idle request says nothing. *)

\* A wiped store has missed nothing it claims to have.
LEMMA EmptyIsGood ==
  ASSUME TypeOK, NEW c \in Clients, NEW b \in BOOLEAN
  PROVE  GoodStore(Empty, c) /\ GoodStore([Empty EXCEPT !.mixed = b], c)
<1>1. \A e \in history : e.seq \in Seqs /\ e.seq > 0
  BY SeqsAreInts DEF TypeOK, Event
<1>2. \A r \in Rows : rows[r].ver \in Seqs0
  BY DEF TypeOK, RowRec
<1> QED
  BY <1>1, <1>2, SyncFeedAssumption DEF GoodStore, Faithful, HonestCopy, Empty, Blank, Seqs0, Seqs

\* A client that asks nothing has no answer to be wrong.
LEMMA IdleLanes ==
  ASSUME NEW c \in Clients
  PROVE  /\ pull[c] = NoPull => PullAnswer(c)
         /\ boot[c].phase \in {"idle", "wanted"} => BootAnswer(c)
         /\ boot[c] = NoBoot => Lane(c)
  BY DEF NoPull, PullAnswer, BootAnswer, NoBoot, Lane

\* The inductive invariant holds at the start.
LEMMA InitIInv == Init => IInv
<1> SUFFICES ASSUME Init PROVE IInv
  OBVIOUS
<1>1. TypeOK
  BY InitTypeOK
<1>2. Numbering
  BY SyncFeedAssumption DEF Init, Numbering, Seed, Open, NoTx, SeqsOf
<1>3. RowsCurrent
  BY SyncFeedAssumption DEF Init, RowsCurrent, Seed, Open, NoTx
<1>4. ASSUME NEW c \in Clients PROVE ClientInv(c)
  <2>1. replica[c] = Empty
    BY DEF Init
  <2>2. Stores(c)
    BY <1>1, <2>1, EmptyIsGood DEF Stores, Init, NoSnapshot
  <2>5. pull[c] = NoPull /\ boot[c].phase = "wanted"
    BY DEF Init, NoBoot
  <2>3. PullAnswer(c) /\ BootAnswer(c)
    BY <2>5, IdleLanes
  <2>4. Lane(c)
    BY <2>5 DEF Lane, Init, NoPull, Empty, Blank
  <2> QED
    BY <2>2, <2>3, <2>4 DEF ClientInv
<1> QED
  BY <1>1, <1>2, <1>3, <1>4 DEF IInv

-----------------------------------------------------------------------------
(* The server's steps. *)

\* A step that leaves the clients, the rows and the events alone keeps every client right.
LEMMA KeepsClients ==
  ASSUME \A c \in Clients : ClientInv(c), UNCHANGED <<rows, history, replica, saved, pull, boot>>
  PROVE  \A c \in Clients : ClientInv(c)'
  BY ClientFrame

\* A transaction that takes its sequence number keeps the invariant.
LEMMA WriteIInv ==
  ASSUME IInv, NEW w \in Writers, NEW x \in Sources, NEW R \in SUBSET Clients, Write(w, x, R), TypeOK'
  PROVE  IInv'
<1>1. \A c \in Clients : ClientInv(c)'
  BY KeepsClients DEF IInv, Write
<1> DEFINE t == [phase |-> "open", seq |-> nextSeq + 1, row |-> x, readers |-> R]
<1>2. /\ tx' = [tx EXCEPT ![w] = t]
      /\ tx \in [Writers -> TxRec] /\ nextSeq \in Int /\ ~Open(w)
      /\ nextSeq' = nextSeq + 1 /\ UNCHANGED <<history, rows>>
      /\ nextSeq + 1 >= 1
  BY SeqsAreInts, SyncFeedAssumption DEF Write, IInv, TypeOK, Open, Seqs0
<1>3. \A e \in history : e.seq \in Int /\ e.seq <= nextSeq
  BY SeqsAreInts DEF IInv, TypeOK, Event, Numbering
<1>4. \A r \in Rows : rows[r].ver \in Int /\ rows[r].ver <= nextSeq
  BY SeqsAreInts DEF IInv, TypeOK, RowRec, RowsCurrent
<1>5. Numbering'
  BY <1>2, <1>3 DEF IInv, Numbering, SeqsOf, Open, Write
<1>6. RowsCurrent'
  BY <1>2, <1>3, <1>4 DEF IInv, RowsCurrent, Open
<1> QED
  BY <1>1, <1>5, <1>6 DEF IInv

\* The new event is in no answer yet, and a store whose cursor has passed its
\* number counted it as raced.
LEMMA CommitIInv ==
  ASSUME IInv, NEW w \in Writers, Commit(w), TypeOK'
  PROVE  IInv'
<1> DEFINE e == [seq |-> tx[w].seq, row |-> tx[w].row, readers |-> tx[w].readers]
<1>1. /\ e.seq \notin SeqsOf(history) /\ e.seq \in Int /\ 1 <= e.seq /\ e.seq <= nextSeq
      /\ nextSeq \in Int /\ Open(w)
      /\ \A v \in Writers \ {w} : Open(v) => tx[v].seq # e.seq /\ (e.row \in Rows => tx[v].row # e.row)
  BY SeqsAreInts DEF Commit, IInv, TypeOK, Numbering, Open
<1>2. /\ history' = history \union {e}
      /\ nextSeq' = nextSeq
      /\ tx' = [tx EXCEPT ![w].phase = "committed"]
      /\ rows' = [r \in Rows |-> IF r = e.row THEN [ver |-> e.seq, readers |-> e.readers] ELSE rows[r]]
      /\ UNCHANGED <<replica, saved, pull, boot>>
  BY DEF Commit
<1>3. \A f \in history : f.seq \in Int /\ f.seq # e.seq
  BY <1>1, SeqsAreInts DEF IInv, TypeOK, Event, SeqsOf
<1>4. \A v \in Writers : Open(v)' => v # w /\ Open(v) /\ tx'[v] = tx[v]
  BY <1>2 DEF IInv, TypeOK, Open
<1>5. \A r \in Rows : /\ rows[r].ver \in Int /\ rows[r].ver <= rows'[r].ver
                      /\ r = e.row => rows[r].ver < e.seq /\ rows'[r].ver = e.seq /\ rows'[r].readers = e.readers
                      /\ r # e.row => rows'[r] = rows[r]
                      /\ rows'[r].ver <= nextSeq
  BY <1>1, <1>2, SeqsAreInts DEF IInv, TypeOK, RowRec, RowsCurrent
<1>6. SeqsOf(history) \subseteq SeqsOf(history)' /\ SeqsOf(history)' = SeqsOf(history) \union {e.seq}
  BY <1>2 DEF SeqsOf
<1> HIDE DEF e
<1>7. Numbering'
  <2>1. Numbering
    BY DEF IInv
  <2>2. (\A f \in history : f.seq <= nextSeq)'
    BY <1>1, <1>2, <2>1 DEF Numbering
  <2>3. (\A f, g \in history : f.seq = g.seq => f = g)'
    BY <1>2, <1>3, <2>1 DEF Numbering
  <2>4. ASSUME NEW v \in Writers, Open(v)'
        PROVE  /\ tx'[v].seq \in 1..nextSeq'
               /\ tx'[v].seq \notin SeqsOf(history)'
               /\ \A u \in Writers \ {v} : Open(u)' =>
                    /\ tx'[u].seq # tx'[v].seq
                    /\ tx'[v].row \in Rows => tx'[u].row # tx'[v].row
    <3>1. v \in Writers \ {w} /\ Open(v) /\ tx'[v] = tx[v] /\ tx[v].seq # e.seq
      BY <1>1, <1>4, <2>4
    <3>2. \A u \in Writers : Open(u)' => Open(u) /\ tx'[u] = tx[u]
      BY <1>4
    <3>3. tx[v].seq \in 1..nextSeq /\ tx[v].seq \notin SeqsOf(history)
      BY <2>1, <3>1 DEF Numbering
    <3>4. \A u \in Writers \ {v} : Open(u) =>
            tx[u].seq # tx[v].seq /\ (tx[v].row \in Rows => tx[u].row # tx[v].row)
      BY <2>1, <3>1 DEF Numbering
    <3>5. tx'[v].seq \in 1..nextSeq' /\ tx'[v].seq \notin SeqsOf(history)'
      BY <1>2, <1>6, <3>1, <3>3
    <3> QED
      BY <3>1, <3>2, <3>4, <3>5
  <2> QED
    BY <2>2, <2>3, <2>4 DEF Numbering
<1>8. RowsCurrent'
  <2>1. \A v \in Writers : Open(v)' => tx'[v] = tx[v] /\ (tx[v].row \in Rows => tx[v].row # e.row)
    BY <1>1, <1>4
  <2>2. ASSUME NEW r \in Rows, NEW f \in history', f.row = r
        PROVE  f.seq <= rows'[r].ver /\ (f.seq = rows'[r].ver => rows'[r].readers = f.readers)
    <3>1. CASE f = e
      BY <1>1, <1>5, <2>2, <3>1
    <3>2. CASE f # e
      <4>1. f \in history /\ f.seq <= rows[r].ver /\ (f.seq = rows[r].ver => rows[r].readers = f.readers)
        BY <1>2, <2>2, <3>2 DEF IInv, RowsCurrent
      <4> QED
        BY <1>1, <1>3, <1>5, <4>1
    <3> QED
      BY <3>1, <3>2
  <2>3. ASSUME NEW r \in Rows, NEW v \in Writers, Open(v)', tx'[v].row = r
        PROVE  rows'[r].ver < tx'[v].seq
    <3>1. Open(v) /\ tx'[v] = tx[v] /\ r # e.row
      BY <1>4, <2>1, <2>3
    <3> QED
      BY <1>5, <2>3, <3>1 DEF IInv, RowsCurrent
  <2> QED
    BY <1>2, <1>5, <2>2, <2>3 DEF RowsCurrent
<1>9. ASSUME NEW c \in Clients PROVE ClientInv(c)'
  <2>1. ASSUME NEW r \in Rows, NEW copy \in Copy, HonestCopy(copy, c, r) PROVE HonestCopy(copy, c, r)'
    <3>1. copy.ver <= rows[r].ver /\ copy.ver \in Int
          /\ \A f \in history : f.row = r /\ f.seq = copy.ver => copy.shown = (c \in f.readers)
      BY <2>1, SeqsAreInts DEF HonestCopy, Copy
    <3>2. copy.ver <= rows'[r].ver
      BY <1>1, <1>2, <1>5, <3>1, SeqsAreInts DEF TypeOK, RowRec
    <3>3. e.row = r => copy.ver # e.seq
      BY <1>1, <1>5, <3>1
    <3> QED
      BY <1>2, <3>1, <3>2, <3>3 DEF HonestCopy
  <2>2. ASSUME NEW s \in Store, GoodStore(s, c) PROVE GoodStore(s, c)'
    <3>1. s.cursor \in Int /\ \A r \in Rows : s.cache[r] \in Copy
      BY SeqsAreInts DEF Store
    <3>2. ~s.mixed /\ e.seq <= s.cursor => e.seq \in s.raced
      BY <1>1, <2>2, <3>1 DEF GoodStore
    <3>3. Faithful(s)'
      BY <1>2, <2>2, <3>2 DEF GoodStore, Faithful
    <3>4. \A r \in Rows : HonestCopy(s.cache[r], c, r)'
      BY <2>1, <2>2, <3>1 DEF GoodStore
    <3> QED
      BY <1>2, <1>6, <2>2, <3>3, <3>4 DEF GoodStore
  <2>3. ClientInv(c) /\ replica[c] \in Store /\ saved[c].store \in Store
        /\ pull[c] \in PullRec /\ boot[c] \in BootRec
    BY DEF IInv, TypeOK, Snapshot
  <2>4. Stores(c)'
    BY <1>2, <2>2, <2>3 DEF ClientInv, Stores
  <2>5. Lane(c)'
    BY <1>2, <2>3, LaneFrame DEF ClientInv
  <2>6. PullAnswer(c)'
    <3> DEFINE p == pull[c]
    <3>1. PullAnswer(c) /\ pull'[c] = p /\ replica'[c] = replica[c]
          /\ \A r \in Rows : p.fetched[r] \in Copy
      BY <1>2, <2>3 DEF ClientInv, PullRec
    <3>2. p.phase \in {"read", "headed", "fetched"} => e.seq \notin p.seen /\ e.seq \notin p.events
      BY <1>1, <3>1 DEF PullAnswer
    <3>3. p.phase = "fetched" => Touched(p)' = Touched(p)
      BY <1>2, <3>2 DEF Touched
    <3>4. p.phase \in {"read", "headed", "fetched"} =>
            /\ p.seen \subseteq SeqsOf(history)'
            /\ \A f \in history' :
                f.row \in Rows /\ f.seq \in p.seen /\ p.since < f.seq /\ f.seq \notin p.holes
                    => f.seq \in p.events \/ (p.full /\ \A x \in p.events : x < f.seq)
      BY <1>2, <1>6, <3>1, <3>2 DEF PullAnswer
    <3>5. p.phase = "fetched" =>
            \A r \in Touched(p) :
                /\ HonestCopy(p.fetched[r], c, r)'
                /\ \A f \in history' : f.row = r /\ f.seq \in p.events => f.seq <= p.fetched[r].ver
      BY <1>2, <2>1, <3>1, <3>2 DEF PullAnswer, Touched
    <3> HIDE DEF p
    <3> QED
      BY <3>1, <3>3, <3>4, <3>5 DEF PullAnswer, p
  <2>7. BootAnswer(c)'
    <3> DEFINE b == boot[c]
    <3>1. BootAnswer(c) /\ boot'[c] = b /\ \A r \in Rows : b.fetched[r] \in Copy
      BY <1>2, <2>3 DEF ClientInv, BootRec
    <3>2. b.phase \in {"headed", "fetched"} => e.seq \notin b.seen /\ b.seen \subseteq SeqsOf(history)'
      BY <1>1, <1>6, <3>1 DEF BootAnswer
    <3>3. b.phase = "fetched" =>
            /\ \A r \in Rows : HonestCopy(b.fetched[r], c, r)'
            /\ \A f \in history' : f.row \in Rows /\ f.seq \in b.seen => f.seq <= b.fetched[f.row].ver
      BY <1>2, <2>1, <3>1, <3>2 DEF BootAnswer
    <3> HIDE DEF b
    <3> QED
      BY <3>1, <3>2, <3>3 DEF BootAnswer, b
  <2> QED
    BY <2>4, <2>5, <2>6, <2>7 DEF ClientInv
<1> QED
  BY <1>7, <1>8, <1>9 DEF IInv

\* Every step of the server keeps the invariant.
LEMMA ServerIInv ==
  ASSUME IInv, ServerNext, TypeOK'
  PROVE  IInv'
<1>1. ASSUME NEW w \in Writers, Abort(w) \/ Announce(w) \/ Quiet(w) PROVE IInv'
  <2>1. /\ tx' = [tx EXCEPT ![w] = NoTx] /\ tx \in [Writers -> TxRec]
        /\ UNCHANGED <<nextSeq, rows, history, replica, saved, pull, boot>>
    BY <1>1 DEF Abort, Announce, Quiet, IInv, TypeOK
  <2>2. \A v \in Writers : Open(v)' => Open(v) /\ tx'[v] = tx[v]
    BY <2>1, NoTxTyped DEF Open
  <2>3. Numbering'
    BY <2>1, <2>2 DEF IInv, Numbering, SeqsOf
  <2>4. RowsCurrent'
    BY <2>1, <2>2 DEF IInv, RowsCurrent
  <2> QED
    BY <2>1, <2>3, <2>4, KeepsClients DEF IInv
<1>2. ASSUME NEW P, Prune(P) PROVE IInv'
  <2>1. UNCHANGED <<nextSeq, tx, rows, history, replica, saved, pull, boot>>
    BY <1>2 DEF Prune
  <2>2. Numbering' /\ RowsCurrent'
    BY <2>1 DEF IInv, Numbering, RowsCurrent, SeqsOf, Open
  <2> QED
    BY <2>1, <2>2, KeepsClients DEF IInv
<1> QED
  BY <1>1, <1>2, WriteIInv, CommitIInv DEF ServerNext, Sources

-----------------------------------------------------------------------------
(* The steps of a client: only its own part of the state changes. *)

\* A step of client c that leaves the server alone keeps IInv when it keeps
\* c's part.
LEMMA ClientStep ==
  ASSUME IInv, NEW c \in Clients, TypeOK', UNCHANGED server, ClientInv(c)',
         \A d \in Clients \ {c} : /\ replica'[d] = replica[d] /\ saved'[d] = saved[d]
                                  /\ pull'[d] = pull[d] /\ boot'[d] = boot[d]
  PROVE  IInv'
<1>1. UNCHANGED <<nextSeq, tx, rows, history>>
  BY DEF server
<1>2. Numbering' /\ RowsCurrent'
  BY <1>1 DEF IInv, Numbering, RowsCurrent, SeqsOf, Open
<1>3. \A d \in Clients \ {c} : ClientInv(d)'
  BY <1>1, ClientFrame DEF IInv
<1> QED
  BY <1>2, <1>3 DEF IInv

\* A store taken over as it is stays good.
LEMMA GoodFrame ==
  ASSUME NEW s, NEW c, GoodStore(s, c), UNCHANGED <<rows, history>>
  PROVE  GoodStore(s, c)'
  BY DEF GoodStore, Faithful, HonestCopy, SeqsOf

\* A pull that begins has read nothing yet.
LEMMA BeginPullInv ==
  ASSUME IInv, NEW c \in Clients, NEW since \in Seqs0, since <= replica[c].cursor,
         pull[c].phase = "idle", BeginPull(c, since), UNCHANGED <<rows, history, saved, boot>>
  PROVE  ClientInv(c)'
<1> DEFINE m == replica[c].mixed \/ boot[c].phase # "idle"
           s == [replica[c] EXCEPT !.mixed = m]
<1>1. replica'[c] = s /\ pull'[c].phase = "asked" /\ pull'[c].since = since
  BY DEF BeginPull, IInv, TypeOK, NoPull
<1>2. ClientInv(c) /\ replica[c] \in Store
  BY DEF IInv, TypeOK
<1>3. /\ s.cache = replica[c].cache /\ s.cursor = replica[c].cursor
      /\ s.raced = replica[c].raced /\ s.holed = replica[c].holed /\ s.mixed = m
  BY <1>2 DEF Store
<1> HIDE DEF s
<1>4. GoodStore(s, c)
  BY <1>2, <1>3 DEF ClientInv, Stores, GoodStore, Faithful
<1>5. Stores(c)'
  BY <1>1, <1>2, <1>4, GoodFrame DEF ClientInv, Stores
<1>6. Lane(c)'
  BY <1>1, <1>3 DEF Lane
<1>7. PullAnswer(c)'
  BY <1>1, <1>3 DEF PullAnswer
<1>8. BootAnswer(c)'
  BY <1>2, BootFrame DEF ClientInv
<1> QED
  BY <1>5, <1>6, <1>7, <1>8 DEF ClientInv

\* The questions of a pull: what each step of the server's answer establishes.
LEMMA CheckHorizonInv ==
  ASSUME IInv, NEW c \in Clients, CheckHorizon(c)
  PROVE  ClientInv(c)'
<1>1. PICK h \in Seqs0 :
        /\ pull[c].since >= h
        /\ pull' = [pull EXCEPT ![c].phase = "checked", ![c].announced = AnnouncedBy(h)]
  BY DEF CheckHorizon
<1>2. /\ UNCHANGED <<rows, history, replica, saved, boot>> /\ ClientInv(c)
      /\ pull[c].phase = "asked" /\ pull[c] \in PullRec
  BY DEF CheckHorizon, server, IInv, TypeOK
<1>3. /\ pull'[c].phase = "checked" /\ pull'[c].announced = AnnouncedBy(h)
      /\ pull'[c].since = pull[c].since
  BY <1>1, <1>2 DEF IInv, TypeOK, PullRec
<1>4. \A n \in AnnouncedBy(h) : n <= pull[c].since
  BY <1>1, <1>2, SeqsAreInts DEF AnnouncedBy, Pruned, SeqsOf, IInv, TypeOK, Event, PullRec
<1>5. PullAnswer(c)'
  BY <1>2, <1>3, <1>4 DEF PullAnswer, ClientInv
<1>6. Stores(c)' /\ Lane(c)' /\ BootAnswer(c)'
  BY <1>2, <1>3, StoresFrame, BootFrame DEF ClientInv, Lane
<1> QED
  BY <1>5, <1>6 DEF ClientInv

\* The events read are those past the cursor that are committed and visible.
LEMMA ReadEventsInv ==
  ASSUME IInv, NEW c \in Clients, ReadEvents(c)
  PROVE  ClientInv(c)'
<1> DEFINE since == pull[c].since
           later == {n \in SeqsOf(PmEvents) : n > since}
           H == {e.seq : e \in {x \in Pruned : x.row \in Rows /\ x.seq > since}} \ pull[c].announced
<1>1. PICK W \in SUBSET later :
        /\ IsWindow(W, later)
        /\ pull' = [pull EXCEPT ![c].phase = "read", ![c].events = W,
                                ![c].full = (Cardinality(W) = WindowLimit),
                                ![c].seen = SeqsOf(history), ![c].holes = H]
  BY DEF ReadEvents
<1>2. /\ UNCHANGED <<rows, history, replica, saved, boot>> /\ ClientInv(c)
      /\ pull[c].phase = "checked" /\ pull[c] \in PullRec
  BY DEF ReadEvents, server, IInv, TypeOK
<1>3. /\ pull'[c].phase = "read" /\ pull'[c].events = W /\ pull'[c].seen = SeqsOf(history)
      /\ pull'[c].full = (Cardinality(W) = WindowLimit) /\ pull'[c].holes = H
      /\ pull'[c].since = since
  BY <1>1, <1>2 DEF IInv, TypeOK, PullRec
<1>4. W \subseteq SeqsOf(history)
  BY DEF SeqsOf, PmEvents, IInv, TypeOK
<1>5. ASSUME NEW e \in history, e.row \in Rows, since < e.seq, e.seq \notin H
      PROVE  e.seq \in W \/ (Cardinality(W) = WindowLimit /\ \A x \in W : x < e.seq)
  <2>1. CASE e \in outbox
    <3>1. e.seq \in later
      BY <1>5, <2>1 DEF SeqsOf, PmEvents
    <3> QED
      BY <1>1, <3>1 DEF IsWindow
  <2>2. CASE e \notin outbox
    <3>1. e.seq \in pull[c].announced
      BY <1>5, <2>2 DEF Pruned
    <3>2. e.seq <= since
      BY <1>2, <3>1 DEF ClientInv, PullAnswer
    <3>3. since \in Int /\ e.seq \in Int
      BY <1>2, SeqsAreInts DEF PullRec, IInv, TypeOK, Event
    <3> QED
      BY <1>5, <3>2, <3>3
  <2> QED
    BY <2>1, <2>2
<1> HIDE DEF H, later
<1>6. PullAnswer(c)'
  BY <1>2, <1>3, <1>4, <1>5 DEF PullAnswer, ClientInv, SeqsOf
<1>7. Stores(c)' /\ Lane(c)' /\ BootAnswer(c)'
  BY <1>2, <1>3, StoresFrame, BootFrame DEF ClientInv, Lane
<1> QED
  BY <1>6, <1>7 DEF ClientInv

\* The head is read after the events, so it may have passed one of them.
LEMMA ReadHeadInv ==
  ASSUME IInv, NEW c \in Clients, ReadHead(c)
  PROVE  ClientInv(c)'
<1>1. PICK h \in Seqs0 :
        /\ pull[c].full => h \in pull[c].events
        /\ pull' = [pull EXCEPT ![c].phase = "headed", ![c].head = h]
  BY DEF ReadHead
<1>2. /\ UNCHANGED <<rows, history, replica, saved, boot>> /\ ClientInv(c)
      /\ pull[c].phase = "read" /\ pull[c] \in PullRec
  BY DEF ReadHead, server, IInv, TypeOK
<1>3. /\ pull'[c].phase = "headed" /\ pull'[c].head = h
      /\ pull'[c].events = pull[c].events /\ pull'[c].seen = pull[c].seen
      /\ pull'[c].full = pull[c].full /\ pull'[c].holes = pull[c].holes
      /\ pull'[c].since = pull[c].since
  BY <1>1, <1>2 DEF IInv, TypeOK, PullRec
<1>4. PullAnswer(c)'
  BY <1>1, <1>2, <1>3 DEF PullAnswer, ClientInv, SeqsOf
<1>5. Stores(c)' /\ Lane(c)' /\ BootAnswer(c)'
  BY <1>2, <1>3, StoresFrame, BootFrame DEF ClientInv, Lane
<1> QED
  BY <1>4, <1>5 DEF ClientInv

\* A row read now is honest and reflects every event so far.
LEMMA CurrentIsHonest ==
  ASSUME IInv, NEW c \in Clients, NEW r \in Rows
  PROVE  /\ HonestCopy(Current(c, r), c, r)
         /\ \A e \in history : e.row = r => e.seq <= Current(c, r).ver
         /\ \A copy \in Copy : HonestCopy(copy, c, r) => copy.ver <= Current(c, r).ver
<1>1. rows[r].ver \in Int
  BY SeqsAreInts DEF IInv, TypeOK, RowRec
<1>2. Current(c, r).ver = rows[r].ver /\ Current(c, r).shown = (c \in rows[r].readers)
  BY DEF Current
<1>3. \A e \in history : e.row = r => e.seq <= rows[r].ver /\ (e.seq = rows[r].ver => rows[r].readers = e.readers)
  BY DEF IInv, RowsCurrent
<1> QED
  BY <1>1, <1>2, <1>3 DEF HonestCopy

\* The rows refetched are as of now.
LEMMA RefetchInv ==
  ASSUME IInv, NEW c \in Clients, Refetch(c)
  PROVE  ClientInv(c)'
<1> DEFINE p == pull[c]
<1>0. PICK F : F = [r \in Rows |-> IF r \in Touched(p) THEN Current(c, r) ELSE Blank]
  OBVIOUS
<1>1. /\ UNCHANGED <<rows, history, replica, saved, boot>> /\ ClientInv(c)
      /\ p.phase = "headed" /\ p \in PullRec /\ replica[c] \in Store
      /\ pull' = [pull EXCEPT ![c].phase = "fetched", ![c].fetched = F]
  BY <1>0 DEF Refetch, server, IInv, TypeOK
<1>2. /\ pull'[c].phase = "fetched" /\ pull'[c].fetched = F /\ pull'[c].head = p.head
      /\ pull'[c].events = p.events /\ pull'[c].seen = p.seen
      /\ pull'[c].full = p.full /\ pull'[c].holes = p.holes
      /\ pull'[c].since = p.since
  BY <1>1 DEF IInv, TypeOK, PullRec
<1>3. Touched(p) = Touched(pull[c])' /\ Touched(p) \subseteq Rows
  BY <1>1, <1>2 DEF Touched
<1>4. \A r \in Touched(p) :
        /\ F[r] = Current(c, r)
        /\ HonestCopy(F[r], c, r)
        /\ \A e \in history : e.row = r => e.seq <= F[r].ver
        /\ replica[c].cache[r].ver <= F[r].ver
  BY <1>0, <1>1, <1>3, CurrentIsHonest DEF ClientInv, Stores, GoodStore, Store
<1>5. \A r \in Touched(p) : HonestCopy(F[r], c, r)'
  BY <1>1, <1>4 DEF HonestCopy
<1>6. PullAnswer(c)'
  BY <1>1, <1>2, <1>3, <1>4, <1>5 DEF PullAnswer, ClientInv, SeqsOf
<1>7. Stores(c)' /\ Lane(c)' /\ BootAnswer(c)'
  BY <1>1, <1>2, StoresFrame, BootFrame DEF ClientInv, Lane
<1> QED
  BY <1>6, <1>7 DEF ClientInv

\* A pull that ends without an answer leaves the store alone.
LEMMA EndPullInv ==
  ASSUME IInv, NEW c \in Clients, Refused(c) \/ FailPull(c)
  PROVE  ClientInv(c)'
<1>1. /\ UNCHANGED <<rows, history, replica, saved, boot>> /\ ClientInv(c)
      /\ pull'[c] = NoPull
  BY DEF Refused, FailPull, server, IInv, TypeOK
<1>2. PullAnswer(c)' /\ Lane(c)'
  BY <1>1 DEF PullAnswer, Lane, ClientInv, NoPull
<1> QED
  BY <1>1, <1>2, StoresFrame, BootFrame DEF ClientInv

\* The argument of OnlyRacesLoseEvents: an event the new cursor has passed is
\* in the answer, or the old cursor had passed it, or it is excepted.
LEMMA ApplyDeltaInv ==
  ASSUME IInv, NEW c \in Clients, ApplyDelta(c)
  PROVE  ClientInv(c)'
<1> DEFINE p == pull[c]
           s == replica[c]
<1>1. /\ UNCHANGED <<rows, history, saved, boot>> /\ ClientInv(c)
      /\ p.phase = "fetched" /\ p \in PullRec /\ s \in Store /\ pull'[c] = NoPull
  BY DEF ApplyDelta, server, IInv, TypeOK
<1>2. PICK t :
        t = [s EXCEPT !.cache = [r \in Rows |-> IF r \in Touched(p) THEN p.fetched[r] ELSE s.cache[r]],
                      !.cursor = Later(s.cursor, p.head),
                      !.raced = (s.raced \ p.events) \union ((1..Later(s.cursor, p.head)) \ p.seen),
                      !.holed = (s.holed \ p.events) \union (p.holes \intersect (1..Later(s.cursor, p.head)))]
  OBVIOUS
<1>3. replica'[c] = t
  BY <1>2 DEF ApplyDelta, IInv, TypeOK
<1>4. /\ t.cache = [r \in Rows |-> IF r \in Touched(p) THEN p.fetched[r] ELSE s.cache[r]]
      /\ t.cursor = Later(s.cursor, p.head)
      /\ t.raced = (s.raced \ p.events) \union ((1..t.cursor) \ p.seen)
      /\ t.holed = (s.holed \ p.events) \union (p.holes \intersect (1..t.cursor))
      /\ t.mixed = s.mixed
  BY <1>1, <1>2 DEF Store
<1>5. /\ s.cursor \in Int /\ p.head \in Int /\ t.cursor \in Int
      /\ t.cursor = s.cursor \/ t.cursor = p.head
      /\ \A r \in Rows : s.cache[r].ver \in Int /\ p.fetched[r].ver \in Int
      /\ \A e \in history : e.seq \in Int /\ e.seq > 0
      /\ p.since \in Int
  BY <1>1, <1>4, SeqsAreInts DEF Later, Store, PullRec, Copy, IInv, TypeOK, Event
<1>6. ASSUME ~t.mixed, NEW e \in history, e.row \in Rows, e.seq <= t.cursor, e.seq \notin t.raced \union t.holed
      PROVE  t.cache[e.row].ver >= e.seq
  <2>1. e.seq \in p.seen /\ e.seq \in 1..t.cursor
    BY <1>4, <1>5, <1>6
  <2>2. CASE e.seq \in p.events
    <3>1. e.row \in Touched(p) /\ e.seq <= p.fetched[e.row].ver
      BY <1>1, <1>6, <2>2 DEF Touched, ClientInv, PullAnswer
    <3> QED
      BY <1>4, <1>5, <1>6, <3>1
  <2>3. CASE e.seq \notin p.events
    <3>1. e.seq \notin s.raced /\ e.seq \notin s.holed /\ e.seq \notin p.holes
      BY <1>4, <1>6, <2>1, <2>3
    <3>2. p.since <= s.cursor
      BY <1>1, <1>4, <1>6 DEF ClientInv, PullAnswer
    <3>3. CASE e.seq <= s.cursor
      <4>1. s.cache[e.row].ver >= e.seq
        BY <1>1, <1>4, <1>6, <3>1, <3>3 DEF ClientInv, Stores, GoodStore, Faithful
      <4>2. e.row \in Touched(p) => s.cache[e.row].ver <= p.fetched[e.row].ver
        BY <1>1, <1>4, <1>6 DEF ClientInv, PullAnswer
      <4> QED
        BY <1>4, <1>5, <1>6, <4>1, <4>2
    <3>4. CASE e.seq > s.cursor
      <4>1. p.full /\ \A x \in p.events : x < e.seq
        BY <1>1, <1>5, <1>6, <2>1, <2>3, <3>1, <3>2, <3>4 DEF ClientInv, PullAnswer
      <4>2. p.head < e.seq
        BY <1>1, <4>1 DEF ClientInv, PullAnswer
      <4> QED
        BY <1>5, <1>6, <3>4, <4>2
    <3> QED
      BY <1>5, <3>3, <3>4
  <2> QED
    BY <2>2, <2>3
<1>7. ~t.mixed => (1..t.cursor) \ SeqsOf(history) \subseteq t.raced
  BY <1>1, <1>4 DEF ClientInv, PullAnswer
<1>8. \A r \in Rows : HonestCopy(t.cache[r], c, r)
  BY <1>1, <1>4 DEF ClientInv, PullAnswer, Stores, GoodStore
<1>9. GoodStore(t, c)
  BY <1>6, <1>7, <1>8 DEF GoodStore, Faithful
<1>10. Stores(c)'
  BY <1>1, <1>3, <1>9, GoodFrame DEF ClientInv, Stores
<1>11. Lane(c)'
  BY <1>1, <1>3, <1>4 DEF ClientInv, Lane
<1>12. PullAnswer(c)'
  BY <1>1 DEF PullAnswer, NoPull
<1> QED
  BY <1>1, <1>10, <1>11, <1>12, BootFrame DEF ClientInv

-----------------------------------------------------------------------------
(* Bootstrap, reset, persistence and restart. *)

\* The head of a bootstrap is read before its rows.
LEMMA BootHeadInv ==
  ASSUME IInv, NEW c \in Clients, BootHead(c)
  PROVE  ClientInv(c)'
<1>1. /\ UNCHANGED <<rows, history, replica, saved, pull>> /\ ClientInv(c)
      /\ boot[c].phase = "wanted"
      /\ boot'[c].phase = "headed" /\ boot'[c].seen = SeqsOf(history)
  BY DEF BootHead, server, IInv, TypeOK, BootRec
<1>2. BootAnswer(c)' /\ Lane(c)'
  BY <1>1 DEF BootAnswer, Lane, ClientInv, SeqsOf
<1> QED
  BY <1>1, <1>2, StoresFrame, PullFrame DEF ClientInv

\* The rows of a bootstrap reflect every event up to its head.
LEMMA BootRowsInv ==
  ASSUME IInv, NEW c \in Clients, BootRows(c)
  PROVE  ClientInv(c)'
<1>1. PICK F : F = [r \in Rows |-> Current(c, r)]
  OBVIOUS
<1>2. /\ UNCHANGED <<rows, history, replica, saved, pull>> /\ ClientInv(c)
      /\ boot[c].phase = "headed" /\ boot[c] \in BootRec
      /\ boot' = [boot EXCEPT ![c].phase = "fetched", ![c].fetched = F]
  BY <1>1 DEF BootRows, server, IInv, TypeOK
<1>3. boot'[c].phase = "fetched" /\ boot'[c].fetched = F /\ boot'[c].seen = boot[c].seen
  BY <1>2 DEF IInv, TypeOK, BootRec
<1>4. \A r \in Rows : HonestCopy(F[r], c, r) /\ \A e \in history : e.row = r => e.seq <= F[r].ver
  BY <1>1, CurrentIsHonest
<1>5. \A r \in Rows : HonestCopy(F[r], c, r)'
  BY <1>2, <1>4 DEF HonestCopy
<1>6. BootAnswer(c)' /\ Lane(c)'
  BY <1>2, <1>3, <1>4, <1>5 DEF BootAnswer, Lane, ClientInv, SeqsOf
<1> QED
  BY <1>2, <1>6, StoresFrame, PullFrame DEF ClientInv

\* The snapshot replaces every copy of a store nothing else has written to.
LEMMA BootApplyInv ==
  ASSUME IInv, NEW c \in Clients, BootApply(c)
  PROVE  ClientInv(c)'
<1> DEFINE b == boot[c]
           s == replica[c]
<1>1. /\ UNCHANGED <<rows, history, saved, pull>> /\ ClientInv(c)
      /\ b.phase = "fetched" /\ b \in BootRec /\ s \in Store /\ boot'[c] = NoBoot
  BY DEF BootApply, server, IInv, TypeOK
<1>2. PICK t :
        t = [s EXCEPT !.cache = [r \in Rows |-> IF b.fetched[r].shown \/ ~s.cache[r].shown
                                                THEN b.fetched[r] ELSE s.cache[r]],
                      !.cursor = Later(s.cursor, b.head),
                      !.seeded = TRUE,
                      !.raced = (1..Later(s.cursor, b.head)) \ b.seen,
                      !.holed = {}]
  OBVIOUS
<1>3. replica'[c] = t
  BY <1>2 DEF BootApply, IInv, TypeOK
<1>4. /\ t.cache = [r \in Rows |-> IF b.fetched[r].shown \/ ~s.cache[r].shown
                                   THEN b.fetched[r] ELSE s.cache[r]]
      /\ t.raced = (1..t.cursor) \ b.seen /\ t.holed = {}
      /\ t.mixed = s.mixed
  BY <1>1, <1>2 DEF Store
<1>5. /\ \A r \in Rows : b.fetched[r].ver \in Int
      /\ \A e \in history : e.seq \in Int /\ e.seq > 0
      /\ t.cursor \in Int
  BY <1>1, <1>2, SeqsAreInts DEF BootRec, Copy, IInv, TypeOK, Event, Store, Later
<1>6. ~t.mixed => pull[c].phase = "idle" /\ \A r \in Rows : t.cache[r] = b.fetched[r]
  BY <1>1, <1>4 DEF ClientInv, Lane
<1>7. ASSUME ~t.mixed, NEW e \in history, e.row \in Rows, e.seq <= t.cursor, e.seq \notin t.raced
      PROVE  t.cache[e.row].ver >= e.seq
  <2>1. e.seq \in b.seen
    BY <1>4, <1>5, <1>7
  <2>2. e.seq <= b.fetched[e.row].ver
    BY <1>1, <1>7, <2>1 DEF ClientInv, BootAnswer
  <2> QED
    BY <1>5, <1>6, <1>7, <2>2
<1>8. (1..t.cursor) \ SeqsOf(history) \subseteq t.raced
  BY <1>1, <1>4 DEF ClientInv, BootAnswer
<1>9. \A r \in Rows : HonestCopy(t.cache[r], c, r)
  BY <1>1, <1>4 DEF ClientInv, BootAnswer, Stores, GoodStore
<1>10. GoodStore(t, c)
  BY <1>7, <1>8, <1>9 DEF GoodStore, Faithful
<1>11. Stores(c)'
  BY <1>1, <1>3, <1>10, GoodFrame DEF ClientInv, Stores
<1>12. Lane(c)' /\ BootAnswer(c)'
  BY <1>1 DEF Lane, BootAnswer, NoBoot
<1>13. PullAnswer(c)'
  <2>1. CASE t.mixed
    BY <1>1, <1>3, <1>4, <2>1 DEF ClientInv, PullAnswer, HonestCopy, Touched, SeqsOf
  <2>2. CASE ~t.mixed
    BY <1>1, <1>6, <2>2 DEF PullAnswer
  <2> QED
    BY <2>1, <2>2
<1> QED
  BY <1>11, <1>12, <1>13 DEF ClientInv

\* A bootstrap that fails is only asked for again.
LEMMA FailBootInv ==
  ASSUME IInv, NEW c \in Clients, FailBoot(c)
  PROVE  ClientInv(c)'
<1>1. /\ UNCHANGED <<rows, history, replica, saved, pull>> /\ ClientInv(c)
      /\ boot'[c] = NoBoot
  BY DEF FailBoot, server, IInv, TypeOK
<1>2. BootAnswer(c)' /\ Lane(c)'
  BY <1>1 DEF BootAnswer, Lane, NoBoot
<1> QED
  BY <1>1, <1>2, StoresFrame, PullFrame DEF ClientInv

\* A reset leaves a wiped store that a bootstrap fills.
LEMMA ResetInv ==
  ASSUME IInv, NEW c \in Clients, Reset(c)
  PROVE  ClientInv(c)'
<1> DEFINE busy == pull[c].phase # "idle"
<1>1. PICK t : t = [Empty EXCEPT !.mixed = busy]
  OBVIOUS
<1>2. /\ UNCHANGED <<rows, history, pull>> /\ ClientInv(c)
      /\ replica'[c] = t /\ saved'[c] = NoSnapshot /\ boot'[c].phase = "wanted"
  BY <1>1, NoBootTyped DEF Reset, server, IInv, TypeOK, NoBoot
<1>3. GoodStore(t, c)
  BY <1>1, EmptyIsGood DEF IInv
<1>4. t.mixed = busy /\ \A r \in Rows : ~t.cache[r].shown
  BY <1>1 DEF Empty, Blank
<1>5. Stores(c)'
  BY <1>2, <1>3, GoodFrame DEF Stores, NoSnapshot
<1>6. Lane(c)' /\ BootAnswer(c)'
  BY <1>2, <1>4 DEF Lane, BootAnswer
<1>7. PullAnswer(c)'
  BY <1>2, <1>4 DEF ClientInv, PullAnswer, HonestCopy, Touched, SeqsOf
<1> QED
  BY <1>5, <1>6, <1>7 DEF ClientInv

\* What is saved is as good as what is in memory.
LEMMA PersistInv ==
  ASSUME IInv, NEW c \in Clients, Persist(c)
  PROVE  ClientInv(c)'
<1>1. /\ UNCHANGED <<rows, history, replica, pull, boot>> /\ ClientInv(c)
      /\ saved'[c].store = replica[c]
  BY DEF Persist, server, IInv, TypeOK
<1>2. Stores(c)'
  BY <1>1, GoodFrame DEF ClientInv, Stores
<1> QED
  BY <1>1, <1>2, LaneFrame, PullFrame, BootFrame DEF ClientInv

\* A reload starts from what was saved.
LEMMA ReloadInv ==
  ASSUME IInv, NEW c \in Clients, Reload(c)
  PROVE  ClientInv(c)'
<1> DEFINE warm == saved[c].present /\ saved[c].store.seeded
<1>1. PICK t : t = IF warm THEN saved[c].store ELSE Empty
  OBVIOUS
<1>2. /\ UNCHANGED <<rows, history>> /\ ClientInv(c)
      /\ replica'[c] = t /\ pull'[c] = NoPull
      /\ saved'[c] = IF warm THEN saved[c] ELSE NoSnapshot
      /\ boot'[c].phase = IF warm THEN "idle" ELSE "wanted"
  BY <1>1, NoBootTyped DEF Reload, server, IInv, TypeOK, NoBoot
<1>3. GoodStore(t, c)
  BY <1>1, <1>2, EmptyIsGood DEF IInv, ClientInv, Stores
<1>4. warm => t = saved[c].store
  BY <1>1
<1>5. ~warm => \A r \in Rows : ~t.cache[r].shown
  BY <1>1 DEF Empty, Blank
<1>6. Stores(c)'
  BY <1>2, <1>3, <1>4, GoodFrame DEF Stores, NoSnapshot
<1>7. Lane(c)' /\ PullAnswer(c)' /\ BootAnswer(c)'
  BY <1>2, <1>5 DEF Lane, PullAnswer, BootAnswer, NoPull
<1> QED
  BY <1>6, <1>7 DEF ClientInv

\* Every way a pull is begun keeps its client right.
LEMMA BeginsInv ==
  ASSUME IInv, NEW c \in Clients, TypeOK',
         Poll(c) \/ \E h \in Seqs0 : ReceivePing(c, h) \/ LosePing(c, h)
  PROVE  ClientInv(c)'
<1>1. /\ ClientInv(c) /\ replica[c].cursor \in Seqs0
      /\ \A n \in Seqs0 : n <= n
  <2>1. ClientInv(c) /\ replica[c] \in Store
    BY DEF IInv, TypeOK
  <2> QED
    BY <2>1, SeqsAreInts DEF Store
<1>2. CASE Poll(c)
  <2>1. pull[c].phase = "idle" /\ BeginPull(c, replica[c].cursor) /\ UNCHANGED <<rows, history, saved, boot>>
    BY <1>2 DEF Poll, server
  <2> QED
    BY <1>1, <2>1, BeginPullInv
<1>3. ASSUME NEW h \in Seqs0, ReceivePing(c, h), pull[c].phase = "idle" PROVE ClientInv(c)'
  <2>1. SinceFor(c, h) \in Seqs0 /\ SinceFor(c, h) <= replica[c].cursor
    BY SinceForTyped DEF IInv
  <2> QED
    BY <1>3, <2>1, BeginPullInv DEF ReceivePing, server
<1>4. ASSUME NEW h \in Seqs0, LosePing(c, h) \/ (ReceivePing(c, h) /\ pull[c].phase # "idle")
      PROVE ClientInv(c)'
  BY <1>1, <1>4, ClientFrame DEF LosePing, ReceivePing, server
<1> QED
  BY <1>2, <1>3, <1>4

\* Every step keeps the invariant.
LEMMA NextIInv == IInv /\ [Next]_vars => IInv'
<1> SUFFICES ASSUME IInv, [Next]_vars PROVE IInv'
  OBVIOUS
<1>1. TypeOK'
  BY NextTypeOK DEF IInv
<1>2. CASE UNCHANGED vars
  <2>1. Numbering' /\ RowsCurrent'
    BY <1>2 DEF vars, IInv, Numbering, RowsCurrent, SeqsOf, Open
  <2> QED
    BY <1>1, <1>2, <2>1, KeepsClients DEF vars, IInv
<1>3. CASE ServerNext
  BY <1>1, <1>3, ServerIInv
<1>4. ASSUME NEW c \in Clients, ClientNext(c) PROVE IInv'
  <2>1. ClientInv(c)'
    BY <1>1, <1>4, BeginsInv, CheckHorizonInv, ReadEventsInv, ReadHeadInv, RefetchInv, ApplyDeltaInv,
       EndPullInv, BootHeadInv, BootRowsInv, BootApplyInv, FailBootInv, ResetInv, PersistInv, ReloadInv
       DEF ClientNext
  <2>2. UNCHANGED server
    BY <1>4 DEF ClientNext, Poll, ReceivePing, LosePing, CheckHorizon, Refused, ReadEvents, ReadHead,
       Refetch, ApplyDelta, FailPull, BootHead, BootRows, BootApply, FailBoot, Reset, Persist, Reload
  <2>3. \A d \in Clients \ {c} : replica'[d] = replica[d] /\ saved'[d] = saved[d]
    BY <1>4 DEF IInv, TypeOK, ClientNext, Poll, ReceivePing, LosePing, CheckHorizon, Refused, ReadEvents,
       ReadHead, Refetch, ApplyDelta, FailPull, BootHead, BootRows, BootApply, FailBoot, Reset, Persist,
       Reload, BeginPull
  <2>4. \A d \in Clients \ {c} : pull'[d] = pull[d] /\ boot'[d] = boot[d]
    BY <1>4 DEF IInv, TypeOK, ClientNext, Poll, ReceivePing, LosePing, CheckHorizon, Refused, ReadEvents,
       ReadHead, Refetch, ApplyDelta, FailPull, BootHead, BootRows, BootApply, FailBoot, Reset, Persist,
       Reload, BeginPull
  <2> QED
    BY <1>1, <2>1, <2>2, <2>3, <2>4, ClientStep
<1> QED
  BY <1>2, <1>3, <1>4 DEF Next

\* The inductive invariant holds in every reachable state.
THEOREM Inductive == Spec => []IInv
  BY InitIInv, NextIInv, PTL DEF Spec

-----------------------------------------------------------------------------
\* What the store of a client lacks below its cursor it lacks because of a late
\* commit or a silent prune, or because a pull's answer came in during a reset
\* (delta, bootstrap, pullDelta and reset together).
THEOREM NothingElseIsLost == Spec => []OnlyRacesLoseEvents
<1>1. IInv => OnlyRacesLoseEvents
  BY DEF IInv, ClientInv, Stores, GoodStore, OnlyRacesLoseEvents
<1> QED
  BY <1>1, Inductive, PTL

\* The same of every snapshot on disk: a warm boot starts without a gap
\* (persistTables, loadSnapshot).
THEOREM SnapshotsResume == Spec => []SnapshotsAreFaithful
<1>1. IInv => SnapshotsAreFaithful
  BY DEF IInv, ClientInv, Stores, GoodStore, SnapshotsAreFaithful
<1> QED
  BY <1>1, Inductive, PTL

\* A copy is shown exactly when the version held was one its client may read
\* (the visibility filter and the tombstones of delta, the filter of bootstrap).
THEOREM VisibilityIsKept == Spec => []CopiesRespectVisibility
<1>1. IInv => CopiesRespectVisibility
  BY DEF IInv, ClientInv, Stores, GoodStore, HonestCopy, CopiesRespectVisibility
<1> QED
  BY <1>1, Inductive, PTL
=============================================================================
