------------------------------ MODULE SyncFeed ------------------------------
(***************************************************************************)
(* The read side of the Projects sync engine: how committed changes reach  *)
(* the replicas that browsers keep.                                        *)
(*                                                                         *)
(* A server transaction updates a row and inserts an outbox event in the   *)
(* same transaction; the event takes its sync_seq from a database sequence *)
(* at the INSERT, so numbers are handed out before commits are ordered.    *)
(* A client pulls deltas ("everything after my cursor"), is woken by socket *)
(* pings and a poll, seeds itself with a bootstrap snapshot, saves its     *)
(* replica in IndexedDB and restarts from it.                              *)
(*                                                                         *)
(* A row's content is abstracted to its version: the sync_seq of the last  *)
(* committed write of it (0 before the first).  Fields marked "history"    *)
(* exist only for the properties; no guard reads them.                     *)
(***************************************************************************)
EXTENDS Integers, FiniteSets

CONSTANTS
    Rows,         \* synced rows (pm_issues, pm_projects, ...) of one tenant
    Clients,      \* browser engines of that tenant, one per (user, tab)
    Writers,      \* server transactions that may be open at the same time
    Other,        \* stands for the tenant's events that are not pm.* events
    Foreign,      \* stands for the events of every other tenant
    WindowLimit,  \* events one delta covers at most (5000 in the code)
    FirstSeq,     \* the seq of the event that seeding the workspace published
    MaxSeq,       \* bound: the last sequence number handed out in a behaviour
    Aged          \* bound: sequence numbers whose events may outlive retention

ASSUME SyncFeedAssumption ==
    /\ WindowLimit \in Nat \ {0}
    /\ FirstSeq \in Nat \ {0}
    /\ MaxSeq \in Nat
    /\ FirstSeq <= MaxSeq
    /\ Aged \subseteq Nat
    /\ Other \notin Rows
    /\ Foreign \notin Rows
    /\ Other # Foreign

VARIABLES
    nextSeq,   \* last value of the sequence domain_events_sync_seq
    tx,        \* server transactions
    rows,      \* committed rows: version and who may see them
    history,   \* history: every event ever committed
    outbox,    \* domain_events: the committed events still retained
    pings,     \* seq pings on their way to each client
    replica,   \* each client's store: cursor and cached rows
    saved,     \* each client's IndexedDB snapshot
    pull,      \* each client's pullDelta in progress
    boot,      \* each client's bootstrap in progress
    live       \* the client has started: socket and poll timer are on

vars == <<nextSeq, tx, rows, history, outbox, pings, replica, saved, pull, boot, live>>
server == <<nextSeq, tx, rows, history, outbox>>

Seqs == 1..MaxSeq
Seqs0 == 0..MaxSeq
Sources == Rows \union {Other, Foreign}
Event == [seq : Seqs, row : Sources, readers : SUBSET Clients]
Copy == [ver : Seqs0, shown : BOOLEAN]

TxRec == [phase : {"idle", "open", "committed"}, seq : Seqs0, row : Sources, readers : SUBSET Clients]
RowRec == [ver : Seqs0, readers : SUBSET Clients]
Store == [cursor : Seqs0, cache : [Rows -> Copy], seeded : BOOLEAN,
          raced : SUBSET Seqs, holed : SUBSET Seqs, mixed : BOOLEAN]

Snapshot == [present : BOOLEAN, store : Store]
PullRec == [phase : {"idle", "asked", "checked", "read", "headed", "fetched"},
            since : Seqs0, events : SUBSET Seqs, full : BOOLEAN, head : Seqs0, fetched : [Rows -> Copy],
            announced : SUBSET Seqs, seen : SUBSET Seqs, holes : SUBSET Seqs]
BootRec == [phase : {"idle", "wanted", "headed", "fetched"}, head : Seqs0,
            fetched : [Rows -> Copy], seen : SUBSET Seqs]

Blank == [ver |-> 0, shown |-> FALSE]
NoTx == [phase |-> "idle", seq |-> 0, row |-> Other, readers |-> {}]
Empty == [cursor |-> 0, cache |-> [r \in Rows |-> Blank], seeded |-> FALSE,
          raced |-> {}, holed |-> {}, mixed |-> FALSE]
NoSnapshot == [present |-> FALSE, store |-> Empty]
NoPull == [phase |-> "idle", since |-> 0, events |-> {}, full |-> FALSE, head |-> 0,
           fetched |-> [r \in Rows |-> Blank],
           announced |-> {}, seen |-> {}, holes |-> {}]
NoBoot == [phase |-> "idle", head |-> 0, fetched |-> [r \in Rows |-> Blank], seen |-> {}]

-----------------------------------------------------------------------------
(* Queries over the outbox. *)

TenantEvents == {e \in outbox : e.row # Foreign}
PmEvents == {e \in outbox : e.row \in Rows}
SeqsOf(S) == {e.seq : e \in S}

\* latestSeq: coalesce(max(sync_seq), 0) over a set of events.
IsLatest(h, S) ==
    \/ S = {} /\ h = 0
    \/ h \in SeqsOf(S) /\ \A s \in SeqsOf(S) : s <= h

\* minSeqHorizon: max(0, coalesce(min(sync_seq), 0) - 1) over the tenant's events.
IsHorizon(h, S) ==
    \/ S = {} /\ h = 0
    \/ h + 1 \in SeqsOf(S) /\ \A s \in SeqsOf(S) : h + 1 <= s

\* The first WindowLimit events of S in seq order (ORDER BY sync_seq LIMIT 5000).
IsWindow(W, S) ==
    /\ \A a \in W, b \in S \ W : a < b
    /\ \/ W = S /\ Cardinality(W) <= WindowLimit
       \/ Cardinality(W) = WindowLimit

\* Fault: the re-fetch forgets the visibility filter.
Unfiltered(c, r) == [ver |-> rows[r].ver, shown |-> TRUE]

\* What a re-fetch under RLS and visibility finds: the row, or a tombstone.
Current(c, r) == [ver |-> rows[r].ver, shown |-> c \in rows[r].readers]

\* The rows the refs of a delta's events name.
Touched(p) == {r \in Rows : \E e \in history : e.seq \in p.events /\ e.row = r}

-----------------------------------------------------------------------------
\* pm.team.created: the workspace is seeded before its first bootstrap.
Seed == [seq |-> FirstSeq, row |-> Other, readers |-> {}]

Init ==
    /\ nextSeq = FirstSeq
    /\ tx = [w \in Writers |-> NoTx]
    /\ rows = [r \in Rows |-> [ver |-> 0, readers |-> Clients]]
    /\ history = {Seed}
    /\ outbox = {Seed}
    /\ pings = [c \in Clients |-> {}]
    /\ replica = [c \in Clients |-> Empty]
    /\ saved = [c \in Clients |-> NoSnapshot]
    /\ pull = [c \in Clients |-> NoPull]
    /\ boot = [c \in Clients |-> [NoBoot EXCEPT !.phase = "wanted"]]
    /\ live = [c \in Clients |-> FALSE]

-----------------------------------------------------------------------------
(* Server transactions. *)

\* A service updates row x (taking its lock) and publishes its event: the
\* INSERT draws the next sequence number, the transaction stays open.
Write(w, x, readers) ==
    /\ tx[w].phase = "idle"
    /\ x \in Rows => \A v \in Writers : ~(tx[v].phase = "open" /\ tx[v].row = x)
    /\ nextSeq < MaxSeq
    /\ nextSeq' = nextSeq + 1
    /\ tx' = [tx EXCEPT ![w] = [phase |-> "open", seq |-> nextSeq + 1, row |-> x, readers |-> readers]]
    /\ UNCHANGED <<rows, history, outbox, pings, replica, saved, pull, boot, live>>

\* The row and its event become visible together.
Commit(w) ==
    /\ tx[w].phase = "open"
    /\ LET e == [seq |-> tx[w].seq, row |-> tx[w].row, readers |-> tx[w].readers]
       IN /\ history' = history \union {e}
          /\ outbox' = outbox \union {e}
          /\ rows' = [r \in Rows |-> IF r = e.row THEN [ver |-> e.seq, readers |-> e.readers] ELSE rows[r]]
    /\ tx' = [tx EXCEPT ![w].phase = "committed"]
    /\ UNCHANGED <<nextSeq, pings, replica, saved, pull, boot, live>>

\* A rollback (also a crash of the process): the number is lost, a hole stays.
Abort(w) ==
    /\ tx[w].phase = "open"
    /\ tx' = [tx EXCEPT ![w] = NoTx]
    /\ UNCHANGED <<nextSeq, rows, history, outbox, pings, replica, saved, pull, boot, live>>

\* The mutation executor ends a batch: it reads the latest committed seq of
\* ALL tenants and pings the tenant's room with it.
Announce(w) ==
    /\ tx[w].phase = "committed"
    /\ \E h \in Seqs0 :
        /\ IsLatest(h, outbox)
        /\ pings' = [c \in Clients |-> IF live[c] THEN pings[c] \union {h} ELSE pings[c]]
    /\ tx' = [tx EXCEPT ![w] = NoTx]
    /\ UNCHANGED <<nextSeq, rows, history, outbox, replica, saved, pull, boot, live>>

\* A change made through the REST routes pings nobody.
Quiet(w) ==
    /\ tx[w].phase = "committed"
    /\ tx' = [tx EXCEPT ![w] = NoTx]
    /\ UNCHANGED <<nextSeq, rows, history, outbox, pings, replica, saved, pull, boot, live>>

\* The nightly prune deletes the dispatched events past retention: whichever
\* of the aged events have been dispatched by then.
Prune(P) ==
    /\ P # {}
    /\ P \subseteq {e \in outbox : e.seq \in Aged}
    /\ outbox' = outbox \ P
    /\ UNCHANGED <<nextSeq, tx, rows, history, pings, replica, saved, pull, boot, live>>

-----------------------------------------------------------------------------
(* pullDelta and the delta endpoint. *)

\* Where a pull starts: the cursor, or just before a ping the cursor has
\* reached already (the healing rule).
SinceFor(c, hint) ==
    IF hint <= replica[c].cursor
    THEN IF hint > 0 THEN hint - 1 ELSE 0
    ELSE replica[c].cursor

\* A pull sends its request.  One that begins while a reset's bootstrap is
\* under way interleaves two answers: the replica is marked mixed.
BeginPull(c, since) ==
    /\ pull' = [pull EXCEPT ![c] = [NoPull EXCEPT !.phase = "asked", !.since = since]]
    /\ replica' = [replica EXCEPT ![c].mixed = @ \/ boot[c].phase # "idle"]

\* The poll timer, a socket connect, coming online, a flush that ended.
Poll(c) ==
    /\ live[c]
    /\ pull[c].phase = "idle"
    /\ BeginPull(c, replica[c].cursor)
    /\ UNCHANGED <<server, pings, saved, boot, live>>

\* A ping arrives: it starts a pull, or is dropped when one is running.
ReceivePing(c, hint) ==
    /\ hint \in pings[c]
    /\ pings' = [pings EXCEPT ![c] = @ \ {hint}]
    /\ IF pull[c].phase = "idle"
       THEN BeginPull(c, SinceFor(c, hint))
       ELSE UNCHANGED <<pull, replica>>
    /\ UNCHANGED <<server, saved, boot, live>>

LosePing(c, hint) ==
    /\ hint \in pings[c]
    /\ pings' = [pings EXCEPT ![c] = @ \ {hint}]
    /\ UNCHANGED <<server, replica, saved, pull, boot, live>>

\* History: the events retention has deleted, and those of them that the
\* horizon h gives away because every retained event is newer.
Pruned == history \ outbox
AnnouncedBy(h) == {s \in SeqsOf(Pruned) : s <= h}

\* delta: the horizon is read first and the pull goes on when it is not past it.
CheckHorizon(c) ==
    /\ pull[c].phase = "asked"
    /\ \E h \in Seqs0 :
        /\ IsHorizon(h, TenantEvents)
        /\ pull[c].since >= h
        /\ pull' = [pull EXCEPT ![c].phase = "checked", ![c].announced = AnnouncedBy(h)]
    /\ UNCHANGED <<server, pings, replica, saved, boot, live>>

\* delta: past the horizon it answers 410.  The engine recognises that answer
\* by the text 410 or RE_BOOTSTRAP in the error's message; the exception is
\* built without a message and reaches the client as "Gone Exception", so the
\* catch block does nothing and the pull ends.
Refused(c) ==
    /\ pull[c].phase = "asked"
    /\ \E h \in Seqs0 : IsHorizon(h, TenantEvents) /\ pull[c].since < h
    /\ pull' = [pull EXCEPT ![c] = NoPull]
    /\ UNCHANGED <<server, pings, replica, saved, boot, live>>

\* delta: the pm.* events past the cursor, in order, at most a window of them.
\* A full window ends the answer at its last event.
ReadEvents(c) ==
    /\ pull[c].phase = "checked"
    /\ LET later == {s \in SeqsOf(PmEvents) : s > pull[c].since}
       IN \E W \in SUBSET later :
            /\ IsWindow(W, later)
            /\ pull' = [pull EXCEPT ![c].phase = "read",
                                    ![c].events = W,
                                    ![c].full = (Cardinality(W) = WindowLimit),
                                    ![c].seen = SeqsOf(history),
                                    ![c].holes = {e.seq : e \in {x \in Pruned : x.row \in Rows /\ x.seq > pull[c].since}}
                                                   \ pull[c].announced]
    /\ UNCHANGED <<server, pings, replica, saved, boot, live>>

\* Fault: the last event of a full window is taken for not covered.
ReadHeadShort(c) ==
    /\ pull[c].phase = "read"
    /\ \E h \in Seqs0 :
        /\ IF pull[c].full
           THEN h + 1 \in pull[c].events /\ \A s \in pull[c].events : s <= h + 1
           ELSE IsLatest(h, TenantEvents)
        /\ pull' = [pull EXCEPT ![c].phase = "headed", ![c].head = h]
    /\ UNCHANGED <<server, pings, replica, saved, boot, live>>

\* delta: the cursor the answer will carry; unless the window was full this
\* is a second query, made after the events were read.
ReadHead(c) ==
    /\ pull[c].phase = "read"
    /\ \E h \in Seqs0 :
        /\ IF pull[c].full
           THEN h \in pull[c].events /\ \A s \in pull[c].events : s <= h
           ELSE IsLatest(h, TenantEvents)
        /\ pull' = [pull EXCEPT ![c].phase = "headed", ![c].head = h]
    /\ UNCHANGED <<server, pings, replica, saved, boot, live>>

\* delta: the touched rows are re-fetched as they are now.
Refetch(c) ==
    /\ pull[c].phase = "headed"
    /\ pull' = [pull EXCEPT
                 ![c].phase = "fetched",
                 ![c].fetched = [r \in Rows |-> IF r \in Touched(pull[c]) THEN Current(c, r) ELSE Blank]]
    /\ UNCHANGED <<server, pings, replica, saved, boot, live>>

\* Fault: the cursor is set one past the head of the answer.
LaterByOne(a, b) == IF a > b THEN a ELSE b + 1

\* setCursor
Later(a, b) == IF a >= b THEN a ELSE b

\* The answer arrives: upserts and tombstones, then the cursor, never back.
ApplyDelta(c) ==
    /\ pull[c].phase = "fetched"
    /\ LET p == pull[c]
           s == replica[c]
           cursor == Later(s.cursor, p.head)
       IN replica' = [replica EXCEPT ![c] =
            [s EXCEPT !.cache = [r \in Rows |-> IF r \in Touched(p) THEN p.fetched[r] ELSE s.cache[r]],
                      !.cursor = cursor,
                      !.raced = (s.raced \ p.events) \union ((1..cursor) \ p.seen),
                      !.holed = (s.holed \ p.events) \union (p.holes \intersect (1..cursor))]]
    /\ pull' = [pull EXCEPT ![c] = NoPull]
    /\ UNCHANGED <<server, pings, saved, boot, live>>

\* Network error: the poll retries.
FailPull(c) ==
    /\ pull[c].phase # "idle"
    /\ pull' = [pull EXCEPT ![c] = NoPull]
    /\ UNCHANGED <<server, pings, replica, saved, boot, live>>

-----------------------------------------------------------------------------
(* bootstrap, reset, persistence and restart. *)

\* bootstrap: the latest seq is read before the snapshot queries.
BootHead(c) ==
    /\ boot[c].phase = "wanted"
    /\ \E h \in Seqs0 :
        /\ IsLatest(h, TenantEvents)
        /\ boot' = [boot EXCEPT ![c].phase = "headed", ![c].head = h, ![c].seen = SeqsOf(history)]
    /\ UNCHANGED <<server, pings, replica, saved, pull, live>>

BootRows(c) ==
    /\ boot[c].phase = "headed"
    /\ boot' = [boot EXCEPT ![c].phase = "fetched", ![c].fetched = [r \in Rows |-> Current(c, r)]]
    /\ UNCHANGED <<server, pings, replica, saved, pull, live>>

\* The snapshot's rows are upserted (what it lacks is not removed), then the
\* cursor is set and, on the first start, the socket and the poll come on.
BootApply(c) ==
    /\ boot[c].phase = "fetched"
    /\ LET b == boot[c]
           s == replica[c]
           cursor == Later(s.cursor, b.head)
       IN replica' = [replica EXCEPT ![c] =
            [s EXCEPT !.cache = [r \in Rows |-> IF b.fetched[r].shown \/ ~s.cache[r].shown
                                                THEN b.fetched[r] ELSE s.cache[r]],
                      !.cursor = cursor,
                      !.seeded = TRUE,
                      !.raced = (1..cursor) \ b.seen,
                      !.holed = {}]]
    /\ boot' = [boot EXCEPT ![c] = NoBoot]
    /\ live' = [live EXCEPT ![c] = TRUE]
    /\ UNCHANGED <<server, pings, saved, pull>>

\* "Reset local data": the store and the snapshot are wiped, a bootstrap
\* begins.  A pull still in flight is not cancelled and may yet apply.
Reset(c) ==
    /\ live[c]
    /\ boot[c].phase = "idle"
    /\ replica' = [replica EXCEPT ![c] = [Empty EXCEPT !.mixed = pull[c].phase # "idle"]]
    /\ saved' = [saved EXCEPT ![c] = NoSnapshot]
    /\ boot' = [boot EXCEPT ![c] = [NoBoot EXCEPT !.phase = "wanted"]]
    /\ UNCHANGED <<server, pings, pull, live>>

\* A reset's bootstrap fails: the store stays wiped, the poll goes on.
FailBoot(c) ==
    /\ live[c]
    /\ boot[c].phase # "idle"
    /\ boot' = [boot EXCEPT ![c] = NoBoot]
    /\ UNCHANGED <<server, pings, replica, saved, pull, live>>

\* Fault: the cursor is saved without the tables it belongs to.
PersistCursor(c) ==
    /\ live[c]
    /\ saved' = [saved EXCEPT ![c] = [present |-> TRUE,
                    store |-> [replica[c] EXCEPT !.cache = saved[c].store.cache]]]
    /\ UNCHANGED <<server, pings, replica, pull, boot, live>>

\* persistNow: the tables and the cursor in one IndexedDB transaction.
Persist(c) ==
    /\ live[c]
    /\ saved' = [saved EXCEPT ![c] = [present |-> TRUE, store |-> replica[c]]]
    /\ UNCHANGED <<server, pings, replica, pull, boot, live>>

\* Fault: a pull sent before the reload still applies after it.
ReloadKeepingPull(c) ==
    /\ LET warm == saved[c].present /\ saved[c].store.seeded
       IN /\ replica' = [replica EXCEPT ![c] = IF warm THEN saved[c].store ELSE Empty]
          /\ saved' = [saved EXCEPT ![c] = IF warm THEN @ ELSE NoSnapshot]
          /\ boot' = [boot EXCEPT ![c] = IF warm THEN NoBoot ELSE [NoBoot EXCEPT !.phase = "wanted"]]
          /\ live' = [live EXCEPT ![c] = warm]
    /\ pings' = [pings EXCEPT ![c] = {}]
    /\ UNCHANGED <<pull, server>>

\* The tab is closed and opened again: a warm boot from a usable snapshot, a
\* cold one without (a snapshot with no teams is discarded).
Reload(c) ==
    /\ LET warm == saved[c].present /\ saved[c].store.seeded
       IN /\ replica' = [replica EXCEPT ![c] = IF warm THEN saved[c].store ELSE Empty]
          /\ saved' = [saved EXCEPT ![c] = IF warm THEN @ ELSE NoSnapshot]
          /\ boot' = [boot EXCEPT ![c] = IF warm THEN NoBoot ELSE [NoBoot EXCEPT !.phase = "wanted"]]
          /\ live' = [live EXCEPT ![c] = warm]
    /\ pull' = [pull EXCEPT ![c] = NoPull]
    /\ pings' = [pings EXCEPT ![c] = {}]
    /\ UNCHANGED server

-----------------------------------------------------------------------------
ServerNext ==
    \/ \E w \in Writers :
        \/ \E x \in Rows, readers \in SUBSET Clients : Write(w, x, readers)
        \/ \E x \in {Other, Foreign} : Write(w, x, {})
        \/ Commit(w)
        \/ Abort(w)
        \/ Announce(w)
        \/ Quiet(w)
    \/ \E P \in SUBSET {e \in outbox : e.seq \in Aged} : Prune(P)

ClientNext(c) ==
    \/ Poll(c)
    \/ \E h \in Seqs0 : ReceivePing(c, h) \/ LosePing(c, h)
    \/ CheckHorizon(c) \/ Refused(c) \/ ReadEvents(c) \/ ReadHead(c) \/ Refetch(c)
    \/ ApplyDelta(c) \/ FailPull(c)
    \/ BootHead(c) \/ BootRows(c) \/ BootApply(c) \/ FailBoot(c)
    \/ Reset(c) \/ Persist(c) \/ Reload(c)

Next == ServerNext \/ \E c \in Clients : ClientNext(c)

Spec == Init /\ [][Next]_vars

\* What the system owes: open transactions end, a started client polls, and a
\* request that is asked often enough is answered (failures do not go on for
\* ever).  Pings, prunes, resets, reloads and saves are owed by nobody.
Fairness ==
    /\ \A c \in Clients :
        /\ SF_vars(Poll(c)) /\ SF_vars(CheckHorizon(c)) /\ SF_vars(ReadEvents(c))
        /\ SF_vars(ReadHead(c)) /\ SF_vars(Refetch(c)) /\ SF_vars(ApplyDelta(c))
        /\ WF_vars(Refused(c))
        /\ SF_vars(BootHead(c)) /\ SF_vars(BootRows(c)) /\ SF_vars(BootApply(c))
    /\ \A w \in Writers : WF_vars(Commit(w) \/ Abort(w))

FairSpec == Spec /\ Fairness

-----------------------------------------------------------------------------
(* Properties. *)

\* The type invariant.
TypeOK ==
    /\ nextSeq \in Seqs0
    /\ tx \in [Writers -> TxRec]
    /\ \A w \in Writers : tx[w].phase = "open" => tx[w].seq \in Seqs
    /\ rows \in [Rows -> RowRec]
    /\ history \subseteq Event
    /\ outbox \subseteq history
    /\ pings \in [Clients -> SUBSET Seqs0]
    /\ replica \in [Clients -> Store]
    /\ saved \in [Clients -> Snapshot]
    /\ pull \in [Clients -> PullRec]
    /\ boot \in [Clients -> BootRec]
    /\ live \in [Clients -> BOOLEAN]

\* A store reflects every event its cursor has passed: the copy of the row is
\* at least as new as the event.  Excepted are the events that were still
\* uncommitted when the answer that passed them was computed (raced), those
\* retention had deleted without the horizon showing it (holed), and a store
\* that took in a pull's answer during a reset (mixed).
Faithful(s) ==
    ~s.mixed =>
        \A e \in history :
            /\ e.row \in Rows
            /\ e.seq <= s.cursor
            /\ e.seq \notin s.raced \union s.holed
            => s.cache[e.row].ver >= e.seq

\* Pulls, window caps, tombstones, bootstraps and refused pulls together lose
\* no event but for the three excepted causes (sync.service.ts "the cursor may
\* only advance over events this response actually covers").
OnlyRacesLoseEvents == \A c \in Clients : Faithful(replica[c])

\* A snapshot on disk is never ahead of its tables: a restart from it resumes
\* without a gap (persistTables writes cursor and tables in one transaction).
SnapshotsAreFaithful == \A c \in Clients : saved[c].present => Faithful(saved[c].store)

\* A client shows a row exactly when the version it holds was one it may read:
\* losing visibility tombstones the row with the event that revoked it.
CopiesRespectVisibility ==
    \A c \in Clients : \A e \in history :
        e.row \in Rows /\ replica[c].cache[e.row].ver = e.seq
            => replica[c].cache[e.row].shown = (c \in e.readers)

\* A client whose next pull is answered 410.
BehindHorizon(c) ==
    live[c] /\ \E h \in Seqs0 : IsHorizon(h, TenantEvents) /\ replica[c].cursor < h

\* Every committed pm event is passed by every client's cursor, deleted by
\* retention, or the client is refused: polling makes progress through
\* windows, failed requests and dropped pings.
CursorsCatchUp ==
    \A c \in Clients : \A s \in Seqs :
        (\E e \in outbox : e.seq = s /\ e.row \in Rows)
            ~> (replica[c].cursor >= s \/ ~(\E e \in outbox : e.seq = s) \/ BehindHorizon(c))

-----------------------------------------------------------------------------
(* The inductive invariant behind OnlyRacesLoseEvents, part by part. *)

Open(w) == tx[w].phase = "open"

\* Numbers are drawn once; a row is locked by one open transaction.
Numbering ==
    /\ \A e \in history : e.seq <= nextSeq
    /\ \A e, f \in history : e.seq = f.seq => e = f
    /\ \A w \in Writers : Open(w) =>
        /\ tx[w].seq \in 1..nextSeq
        /\ tx[w].seq \notin SeqsOf(history)
        /\ \A v \in Writers \ {w} : Open(v) =>
            /\ tx[v].seq # tx[w].seq
            /\ tx[w].row \in Rows => tx[v].row # tx[w].row

\* A row carries the newest of its events; an open write of it is newer.
RowsCurrent ==
    \A r \in Rows :
        /\ rows[r].ver <= nextSeq
        /\ \A e \in history : e.row = r =>
            /\ e.seq <= rows[r].ver
            /\ e.seq = rows[r].ver => rows[r].readers = e.readers
        /\ \A w \in Writers : Open(w) /\ tx[w].row = r => rows[r].ver < tx[w].seq

\* A copy of row r in the hands of client c.
HonestCopy(copy, c, r) ==
    /\ copy.ver <= rows[r].ver
    /\ \A e \in history : e.row = r /\ e.seq = copy.ver => copy.shown = (c \in e.readers)

\* A store in memory or on disk.
GoodStore(s, c) ==
    /\ Faithful(s)
    /\ ~s.mixed => (1..s.cursor) \ SeqsOf(history) \subseteq s.raced
    /\ \A r \in Rows : HonestCopy(s.cache[r], c, r)

Stores(c) ==
    /\ GoodStore(replica[c], c)
    /\ saved[c].present => GoodStore(saved[c].store, c)

\* A bootstrap starts from a wiped store, and a pull beside it marks the store.
Lane(c) ==
    boot[c].phase # "idle" /\ ~replica[c].mixed =>
        /\ pull[c].phase = "idle"
        /\ \A r \in Rows : ~replica[c].cache[r].shown

\* What the steps of a pull have established so far.
PullAnswer(c) ==
    LET p == pull[c]
    IN /\ p.phase # "idle" /\ ~replica[c].mixed => p.since <= replica[c].cursor
       /\ p.phase = "checked" => \A s \in p.announced : s <= p.since
       /\ p.phase \in {"read", "headed", "fetched"} =>
            /\ p.seen \subseteq SeqsOf(history)
            /\ p.events \subseteq p.seen
            /\ \A e \in history :
                e.row \in Rows /\ e.seq \in p.seen /\ p.since < e.seq /\ e.seq \notin p.holes
                    => e.seq \in p.events \/ (p.full /\ \A x \in p.events : x < e.seq)
       /\ p.phase \in {"headed", "fetched"} => (p.full => p.head \in p.events)
       /\ p.phase = "fetched" =>
            \A r \in Touched(p) :
                /\ HonestCopy(p.fetched[r], c, r)
                /\ \A e \in history : e.row = r /\ e.seq \in p.events => e.seq <= p.fetched[r].ver
                /\ ~replica[c].mixed => replica[c].cache[r].ver <= p.fetched[r].ver

\* What the steps of a bootstrap have established so far.
BootAnswer(c) ==
    LET b == boot[c]
    IN /\ b.phase \in {"headed", "fetched"} => b.seen \subseteq SeqsOf(history)
       /\ b.phase = "fetched" =>
            /\ \A r \in Rows : HonestCopy(b.fetched[r], c, r)
            /\ \A e \in history : e.row \in Rows /\ e.seq \in b.seen => e.seq <= b.fetched[e.row].ver

ClientInv(c) == Stores(c) /\ Lane(c) /\ PullAnswer(c) /\ BootAnswer(c)

IInv ==
    /\ TypeOK
    /\ Numbering
    /\ RowsCurrent
    /\ \A c \in Clients : ClientInv(c)
=============================================================================
