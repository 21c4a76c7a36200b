--------------------------- MODULE MutationQueue ---------------------------
(***************************************************************************)
(* The write side of the Projects sync engine: optimistic edits, the queue *)
(* they wait in (memory and IndexedDB), the flush, and the server executor *)
(* with its idempotency ledger.                                            *)
(*                                                                         *)
(* One issue with a few fields stands for the synced rows: edits of        *)
(* different rows interact through the queue only.  A field's value is the *)
(* number of the edit that wrote it; edits of one user are numbered in the *)
(* order they were made.  The pull is one step here: how it can miss       *)
(* events is the subject of SyncFeed.                                      *)
(***************************************************************************)
EXTENDS Integers, FiniteSets, Sequences

CONSTANTS
    Fields,      \* the fields of the issue
    Tabs,        \* browser tabs of one user in one workspace
    Slots,       \* requests the server may be executing at the same time
    BatchLimit,  \* mutations per flush (50 in the code)
    MaxEdits,    \* bound: edits the user makes
    MaxOthers,   \* bound: edits other users make
    Faults       \* what may go wrong in a run, see FaultKinds

\* overlap: a request fails for the client while the server still executes it;
\* crash: the server dies between two steps; ledger: the write of an applied
\* ledger row fails; expire: the ledger outlives its 30 days of retention;
\* same_ms: two edits carry the same enqueuedAt; reject: the server refuses an
\* edit (permission, validation); reset: the user resets the local data;
\* storage: IndexedDB cannot be opened or read, or holds a poisoned snapshot.
FaultKinds == {"overlap", "crash", "ledger", "expire", "same_ms", "reject", "reset", "storage"}

ASSUME MutationQueueAssumption ==
    /\ BatchLimit \in Nat \ {0}
    /\ MaxEdits \in Nat
    /\ MaxOthers \in Nat
    /\ Faults \subseteq FaultKinds
    /\ 0 \notin Slots

VARIABLES
    minted,   \* how many edits the user has made
    mut,      \* the pending-mutation records: op, field, enqueuedAt, inverse
    queue,    \* each tab's in-memory queue
    dirty,    \* a tab has a persistPending under way
    idb,      \* the pending store in IndexedDB, shared by the tabs
    db,       \* a tab's handle: open, wiped (in a reset, between the destruction
              \* of the database and the next one), or closed (its saves do nothing)
    carried,  \* the queue a tab has still to save into the database that
              \* replaces a destroyed one
    armed,    \* a tab has a flush to come: its timer is set, or a start,
              \* a reset or the online event has just called for one
    store,    \* each tab's row, optimistic edits included
    cursor,   \* each tab's sync cursor
    flight,   \* the request a tab waits for, 0 when it is not flushing
    exec,     \* the server's executions of /sync/mutate
    ledger,   \* sync_mutations
    srv,      \* the issue in the database
    others,   \* how many edits other users have made
    kept,     \* history: edits that have been in IndexedDB
    times,    \* history: how often an edit was applied
    told,     \* history: what the client was last told about an edit
    passed,   \* history: the last flush of a tab found the lock taken
    forgotten \* history: edits lost with a database that was destroyed and not
              \* written again before the tab closed, or that a start did not read

vars == <<minted, mut, queue, dirty, idb, db, carried, armed, store, cursor, flight, exec,
          ledger, srv, others, kept, times, told, passed, forgotten>>

\* What only the tabs change.
tabVars == <<queue, dirty, idb, db, carried, armed, store, cursor, flight, kept, told, passed, forgotten>>

Ids == 1..MaxEdits
Values == 0..(MaxEdits + MaxOthers)
Row == [exists : BOOLEAN, val : [Fields -> Values]]
NoRow == [exists |-> FALSE, val |-> [f \in Fields |-> 0]]
NoField == "none"
Unmade == [op |-> "none", field |-> NoField, stamp |-> 0, inverse |-> NoRow]
NoResult == [status |-> "none", hasRow |-> FALSE, row |-> NoRow]
Idle == [phase |-> "free", batch |-> <<>>, at |-> 0, results |-> [m \in Ids |-> NoResult]]

SeqSet(s) == {s[i] : i \in 1..Len(s)}
RowOf(s) == [exists |-> s.exists, val |-> s.val]
CurrentItem(k) == exec[k].batch[exec[k].at]

Init ==
    /\ minted = 0
    /\ mut = [m \in Ids |-> Unmade]
    /\ queue = [t \in Tabs |-> <<>>]
    /\ dirty = [t \in Tabs |-> FALSE]
    /\ idb = {}
    /\ db = [t \in Tabs |-> "open"]
    /\ carried = [t \in Tabs |-> <<>>]
    /\ armed = [t \in Tabs |-> FALSE]
    /\ store = [t \in Tabs |-> NoRow]
    /\ cursor = [t \in Tabs |-> 0]
    /\ flight = [t \in Tabs |-> 0]
    /\ exec = [k \in Slots |-> Idle]
    /\ ledger = [m \in Ids |-> "none"]
    /\ srv = [ver |-> 0, exists |-> FALSE, val |-> NoRow.val]
    /\ others = 0
    /\ kept = {}
    /\ times = [m \in Ids |-> 0]
    /\ told = [m \in Ids |-> "none"]
    /\ passed = [t \in Tabs |-> FALSE]
    /\ forgotten = {}

-----------------------------------------------------------------------------
(* The client. *)

\* Date.now() of the next edit: later than the last one's, or the same.
Stamps ==
    LET last == IF minted = 0 THEN 0 ELSE mut[minted].stamp
    IN {last + 1} \union (IF "same_ms" \in Faults /\ minted > 0 THEN {last} ELSE {})

\* A tab whose handle works begins to save its queue.
Persist(t) == dirty' = [dirty EXCEPT ![t] = @ \/ db[t] = "open"]

\* A flush of a tab is due, or is not.
Arm(t, due) ==
    /\ armed' = [armed EXCEPT ![t] = due]
    /\ passed' = [passed EXCEPT ![t] = FALSE]

\* enqueue: the edit joins the queue, which is saved and flushed soon.  A reset
\* under way saves the same array, unless an answer has replaced it meanwhile.
Enqueue(t, op, f, patched) ==
    /\ minted < MaxEdits
    /\ minted' = minted + 1
    /\ \E s \in Stamps :
        mut' = [mut EXCEPT ![minted + 1] =
                    [op |-> op, field |-> f, stamp |-> s, inverse |-> store[t]]]
    /\ store' = [store EXCEPT ![t] = patched]
    /\ queue' = [queue EXCEPT ![t] = Append(@, minted + 1)]
    /\ carried' = [carried EXCEPT ![t] = IF db[t] = "wiped" /\ @ = queue[t] THEN Append(@, minted + 1) ELSE @]
    /\ Persist(t)
    /\ Arm(t, TRUE)
    /\ UNCHANGED <<idb, db, cursor, flight, exec, ledger, srv, others, kept, times, told, forgotten>>

\* createIssue: the id is new, no row has it.  A row under a client-minted id appears at once.
Create(t) ==
    /\ ~srv.exists
    /\ \A m \in Ids : mut[m].op # "create"
    /\ Enqueue(t, "create", NoField, [exists |-> TRUE, val |-> [f \in Fields |-> minted + 1]])

\* updateIssue, moveIssueState, setIssuePriority, assignIssue, rankIssue.
Update(t, f) ==
    /\ store[t].exists
    /\ Enqueue(t, "update", f, [store[t] EXCEPT !.val[f] = minted + 1])

\* persistPending: the pending store is cleared and refilled with this tab's
\* queue in one transaction.
SavePending(t) ==
    /\ dirty[t]
    /\ carried[t] = <<>>
    /\ idb' = SeqSet(queue[t])
    /\ kept' = kept \union SeqSet(queue[t])
    /\ dirty' = [dirty EXCEPT ![t] = FALSE]
    /\ UNCHANGED <<minted, mut, queue, db, carried, armed, store, cursor, flight, exec, ledger, srv,
                   others, times, told, passed, forgotten>>

\* The same for the queue carried over into a new database: the first save in it.
SaveCarried(t) ==
    /\ db[t] = "open"
    /\ carried[t] # <<>>
    /\ idb' = SeqSet(carried[t])
    /\ kept' = kept \union SeqSet(carried[t])
    /\ carried' = [carried EXCEPT ![t] = <<>>]
    /\ UNCHANGED <<minted, mut, queue, dirty, db, armed, store, cursor, flight, exec, ledger, srv,
                   others, times, told, passed, forgotten>>

\* flushQueue: one flush per tab, and one at a time across tabs (the lock).
Flush(t, k) ==
    /\ armed[t]
    /\ queue[t] # <<>>
    /\ \A u \in Tabs : flight[u] = 0
    /\ exec[k].phase = "free"
    /\ LET n == IF Len(queue[t]) < BatchLimit THEN Len(queue[t]) ELSE BatchLimit
       IN exec' = [exec EXCEPT ![k] = [Idle EXCEPT !.phase = "look", !.at = 1,
                                                   !.batch = SubSeq(queue[t], 1, n)]]
    /\ flight' = [flight EXCEPT ![t] = k]
    /\ Arm(t, FALSE)
    /\ UNCHANGED <<minted, mut, queue, dirty, idb, db, carried, store, cursor, ledger, srv, others,
                   kept, times, told, forgotten>>

\* flushQueue returns: nothing is queued, this tab flushes already, or another
\* one holds the lock.  It sets no timer.
FlushReturns(t) ==
    /\ armed[t]
    /\ queue[t] = <<>> \/ \E u \in Tabs : flight[u] # 0
    /\ armed' = [armed EXCEPT ![t] = FALSE]
    /\ passed' = [passed EXCEPT ![t] = queue[t] # <<>> /\ flight[t] = 0]
    /\ UNCHANGED <<minted, mut, queue, dirty, idb, db, carried, store, cursor, flight, exec, ledger,
                   srv, others, kept, times, told, forgotten>>

\* handleOnline: the browser is online again.
Online(t) ==
    /\ ~armed[t]
    /\ queue[t] # <<>>
    /\ Arm(t, TRUE)
    /\ UNCHANGED <<minted, mut, queue, dirty, idb, db, carried, store, cursor, flight, exec, ledger,
                   srv, others, kept, times, told, forgotten>>

\* What the tab's row becomes when the results are walked in batch order: an
\* applied item's row lands, a rejected create is removed, another rejected edit
\* restores the whole row as it was before that edit.  Each lays down a whole
\* row, so the last one that does decides; an item answered from the ledger
\* brings no row.
Settle(row, batch, results) ==
    LET lands == {i \in 1..Len(batch) : results[batch[i]].status = "ok" => results[batch[i]].hasRow}
        last == CHOOSE i \in lands : \A j \in lands : j <= i
        item == batch[last]
    IN IF lands = {} THEN row
       ELSE IF results[item].status = "ok" THEN results[item].row
       ELSE IF mut[item].op = "create" THEN NoRow
       ELSE mut[item].inverse

\* What is left of a queue without some edits, in the order it had.
Without(q, S) ==
    LET left == {i \in 1..Len(q) : q[i] \notin S}
        place(i) == Cardinality({j \in left : j <= i})
    IN [n \in 1..Cardinality(left) |-> q[CHOOSE i \in left : place(i) = n]]

\* The answer of a flush arrives and leaves a rest of the queue.
AnswerLeaving(t, rest) ==
    /\ flight[t] # 0
    /\ LET k == flight[t]
           e == exec[k]
           batch == SeqSet(e.batch)
       IN /\ e.phase = "done"
          /\ store' = [store EXCEPT ![t] = Settle(@, e.batch, e.results)]
          /\ told' = [m \in Ids |-> IF m \in batch THEN e.results[m].status ELSE told[m]]
          /\ exec' = [exec EXCEPT ![k] = Idle]
    /\ queue' = [queue EXCEPT ![t] = rest]
    /\ flight' = [flight EXCEPT ![t] = 0]
    /\ Persist(t)
    /\ Arm(t, armed[t] \/ rest # <<>>)
    /\ UNCHANGED <<minted, mut, idb, db, carried, cursor, ledger, srv, others, kept, times, forgotten>>

\* The answered edits leave the queue.
Answer(t) == flight[t] # 0 /\ AnswerLeaving(t, Without(queue[t], SeqSet(exec[flight[t]].batch)))

\* The request fails for the client: the queue stays.  The execution it asked
\* for is over, or (overlap) goes on without it.
Fail(t) ==
    /\ flight[t] # 0
    /\ \/ exec[flight[t]].phase \in {"done", "dead"}
       \/ "overlap" \in Faults
    /\ exec' = [exec EXCEPT ![flight[t]] = IF @.phase \in {"done", "dead"} THEN Idle ELSE @]
    /\ flight' = [flight EXCEPT ![t] = 0]
    /\ UNCHANGED <<minted, mut, queue, dirty, idb, db, carried, store, cursor, ledger, srv, others,
                   kept, times, told, forgotten>>

\* Fault: a failed request leaves the queue without a timer.
LoseAnswerStuck(t) == Fail(t) /\ UNCHANGED <<armed, passed>>

\* A failed request is tried again.
LoseAnswer(t) == Fail(t) /\ Arm(t, TRUE)

\* pullDelta: the server's row replaces the tab's.
Pull(t) ==
    /\ cursor[t] < srv.ver
    /\ store' = [store EXCEPT ![t] = RowOf(srv)]
    /\ cursor' = [cursor EXCEPT ![t] = srv.ver]
    /\ UNCHANGED <<minted, mut, queue, dirty, idb, db, carried, armed, flight, exec, ledger, srv, others,
                   kept, times, told, passed, forgotten>>

\* A tab destroys the database: every other handle on it closes.
Destroy(t, handle, toSave) ==
    /\ idb' = {}
    /\ db' = [u \in Tabs |-> IF u = t THEN handle ELSE IF db[u] = "open" THEN "closed" ELSE db[u]]
    /\ dirty' = [u \in Tabs |-> FALSE]
    /\ carried' = [u \in Tabs |-> IF u = t THEN toSave ELSE IF db[u] = "open" THEN <<>> ELSE carried[u]]

\* Fault: a reset drops the queue with the database.
ResetDrops(t) ==
    /\ "reset" \in Faults
    /\ db[t] # "wiped"
    /\ Destroy(t, "wiped", <<>>)
    /\ queue' = [queue EXCEPT ![t] = <<>>]
    /\ store' = [store EXCEPT ![t] = NoRow]
    /\ cursor' = [cursor EXCEPT ![t] = 0]
    /\ UNCHANGED <<minted, mut, armed, flight, exec, ledger, srv, others, kept, times, told, passed, forgotten>>

\* reset: the database is destroyed; the queue stays in memory.
Reset(t) ==
    /\ "reset" \in Faults
    /\ db[t] # "wiped"
    /\ Destroy(t, "wiped", queue[t])
    /\ store' = [store EXCEPT ![t] = NoRow]
    /\ cursor' = [cursor EXCEPT ![t] = 0]
    /\ UNCHANGED <<minted, mut, queue, armed, flight, exec, ledger, srv, others, kept, times, told, passed, forgotten>>

\* reset goes on: the new database opens (if it does not, the tab has no handle),
\* the save of the queue begins, the rows are loaded again (or that fails, and no
\* flush follows).
Reopen(t) ==
    /\ db[t] = "wiped"
    /\ \/ /\ db' = [db EXCEPT ![t] = "open"]
          /\ UNCHANGED <<idb, dirty, carried>>
       \/ "storage" \in Faults /\ Destroy(t, "closed", <<>>)
    /\ \/ /\ store' = [store EXCEPT ![t] = RowOf(srv)]
          /\ cursor' = [cursor EXCEPT ![t] = srv.ver]
          /\ IF carried[t] # <<>> THEN Arm(t, TRUE) ELSE UNCHANGED <<armed, passed>>
       \/ UNCHANGED <<store, cursor, armed, passed>>
    /\ UNCHANGED <<minted, mut, queue, flight, exec, ledger, srv, others, kept, times, told, forgotten>>

\* Fault: the saved queue comes back in the order of its random keys.
KeyOrders(S) == {q \in [1..Cardinality(S) -> S] : SeqSet(q) = S}

\* The orders loadSnapshot may return: sorted by enqueuedAt, equal stamps in
\* the order of their random keys.
ReplayOrders(S) ==
    {q \in [1..Cardinality(S) -> S] :
        /\ SeqSet(q) = S
        /\ \A i, j \in 1..Cardinality(S) : i < j => mut[q[i]].stamp <= mut[q[j]].stamp}

\* How a start finds IndexedDB, and the queue it is left with.
\* It reads the saved queue.
Loaded(t, q) ==
    /\ q \in ReplayOrders(idb)
    /\ db' = [db EXCEPT ![t] = "open"]
    /\ dirty' = [dirty EXCEPT ![t] = FALSE]
    /\ carried' = [carried EXCEPT ![t] = <<>>]
    /\ UNCHANGED idb

\* The snapshot is poisoned (a cursor, and no team): the database is destroyed,
\* the queue read from it is carried over.
Poisoned(t, q) ==
    /\ q \in ReplayOrders(idb)
    /\ \/ Destroy(t, "open", q)
       \/ Destroy(t, "closed", <<>>)

\* It does not open and is destroyed; opening takes too long; reading fails.
Unreadable(t, q) ==
    /\ q = <<>>
    /\ \/ Destroy(t, "closed", <<>>)
       \/ /\ db' \in {[db EXCEPT ![t] = "open"], [db EXCEPT ![t] = "closed"]}
          /\ dirty' = [dirty EXCEPT ![t] = FALSE]
          /\ carried' = [carried EXCEPT ![t] = <<>>]
          /\ UNCHANGED idb

\* What a tab that closes has only in memory though it had been saved.
Exposed(t) == IF db[t] = "open" /\ carried[t] = <<>> THEN {} ELSE SeqSet(queue[t])

\* The tab is closed and opened again: the saved queue is all it has.
Reload(t) ==
    /\ flight[t] # 0 => exec[flight[t]].phase \in {"done", "dead"} \/ "overlap" \in Faults
    /\ \E q \in ReplayOrders(idb) \union {<<>>} :
        /\ \/ Loaded(t, q)
           \/ "storage" \in Faults /\ (Poisoned(t, q) \/ Unreadable(t, q))
        /\ queue' = [queue EXCEPT ![t] = q]
        /\ forgotten' = (forgotten \union Exposed(t) \union idb) \ SeqSet(q)
        /\ Arm(t, q # <<>>)
    /\ store' = [store EXCEPT ![t] = RowOf(srv)]
    /\ cursor' = [cursor EXCEPT ![t] = srv.ver]
    /\ exec' = [k \in Slots |-> IF k = flight[t] /\ exec[k].phase \in {"done", "dead"}
                                THEN Idle ELSE exec[k]]
    /\ flight' = [flight EXCEPT ![t] = 0]
    /\ UNCHANGED <<minted, mut, ledger, srv, others, kept, times, told>>

-----------------------------------------------------------------------------
(* The executor: one item after the other, three transactions each. *)

Ended(e) == e.at = Len(e.batch)

\* An item is finished with a result; after the last one the answer leaves.
Finish(k, result) ==
    exec' = [exec EXCEPT ![k].results[CurrentItem(k)] = result,
                         ![k].phase = IF Ended(exec[k]) THEN "done" ELSE "look",
                         ![k].at = IF Ended(exec[k]) THEN @ ELSE @ + 1]

\* Fault: a recorded rejection is answered as a duplicate.
LookupDuplicate(k) ==
    /\ exec[k].phase = "look"
    /\ IF ledger[CurrentItem(k)] = "none"
       THEN exec' = [exec EXCEPT ![k].phase = "apply"]
       ELSE Finish(k, [NoResult EXCEPT !.status = "ok"])
    /\ UNCHANGED <<tabVars, minted, mut, ledger, srv, others, times>>

\* The ledger lookup: a recorded mutation is answered from the ledger.
Lookup(k) ==
    /\ exec[k].phase = "look"
    /\ CASE ledger[CurrentItem(k)] = "none" ->
              exec' = [exec EXCEPT ![k].phase = "apply"]
         [] ledger[CurrentItem(k)] = "rejected" ->
              Finish(k, [NoResult EXCEPT !.status = "rejected"])
         [] OTHER ->
              Finish(k, [NoResult EXCEPT !.status = "ok"])
    /\ UNCHANGED <<tabVars, minted, mut, ledger, srv, others, times>>

\* applyOp succeeds: the row changes in a transaction of its own.
Apply(k) ==
    /\ exec[k].phase = "apply"
    /\ LET i == CurrentItem(k)
           m == mut[i]
       IN /\ m.op = "create" <=> ~srv.exists
          /\ srv' = [ver |-> srv.ver + 1, exists |-> TRUE,
                     val |-> [f \in Fields |-> IF m.op = "create" \/ f = m.field THEN i ELSE srv.val[f]]]
          /\ times' = [times EXCEPT ![i] = @ + 1]
          /\ exec' = [exec EXCEPT ![k].phase = "applied",
                                  ![k].results[i] = [status |-> "ok", hasRow |-> TRUE, row |-> RowOf(srv')]]
    /\ UNCHANGED <<tabVars, minted, mut, ledger, others>>

\* applyOp throws: the id is taken, the issue is not there, or the service
\* refuses the edit.
Refuse(k) ==
    /\ exec[k].phase = "apply"
    /\ \/ ~(mut[CurrentItem(k)].op = "create" <=> ~srv.exists)
       \/ "reject" \in Faults
    /\ exec' = [exec EXCEPT ![k].phase = "refused"]
    /\ UNCHANGED <<tabVars, minted, mut, ledger, srv, others, times>>

\* Faults: no ledger row is written; a second one is marked as a duplicate.
Unrecorded(i, status) == ledger
RecordedTwice(i, status) == [ledger EXCEPT ![i] = IF @ = "none" THEN status ELSE "duplicate"]

\* INSERT INTO sync_mutations ... ON CONFLICT DO NOTHING
Recorded(i, status) == [ledger EXCEPT ![i] = IF @ = "none" THEN status ELSE @]

Record(k) ==
    LET i == CurrentItem(k)
    IN /\ \/ /\ exec[k].phase = "applied"
             /\ ledger' = Recorded(i, "applied")
             /\ Finish(k, exec[k].results[i])
          \/ /\ exec[k].phase = "refused"
             /\ ledger' = Recorded(i, "rejected")
             /\ Finish(k, [NoResult EXCEPT !.status = "rejected"])
       /\ UNCHANGED <<tabVars, minted, mut, srv, others, times>>

\* The applied row cannot be written: the catch block treats the item as
\* rejected and tries to record that.
RecordFails(k) ==
    /\ "ledger" \in Faults
    /\ exec[k].phase = "applied"
    /\ \/ ledger' = Recorded(CurrentItem(k), "rejected")
       \/ UNCHANGED ledger
    /\ Finish(k, [NoResult EXCEPT !.status = "rejected"])
    /\ UNCHANGED <<tabVars, minted, mut, srv, others, times>>

\* The server process dies; the client sees its request fail.
Crash(k) ==
    /\ "crash" \in Faults
    /\ exec[k].phase \notin {"free", "done", "dead"}
    /\ exec' = [exec EXCEPT ![k] = IF \E t \in Tabs : flight[t] = k THEN [Idle EXCEPT !.phase = "dead"] ELSE Idle]
    /\ UNCHANGED <<tabVars, minted, mut, ledger, srv, others, times>>

\* An execution nobody waits for ends: its answer goes nowhere.
Discard(k) ==
    /\ exec[k].phase = "done"
    /\ \A t \in Tabs : flight[t] # k
    /\ exec' = [exec EXCEPT ![k] = Idle]
    /\ UNCHANGED <<tabVars, minted, mut, ledger, srv, others, times>>

\* The nightly prune deletes ledger rows older than 30 days; requests do not
\* run that long, queues may wait longer.
ExpireLedger ==
    /\ "expire" \in Faults
    /\ \A k \in Slots : exec[k].phase = "free"
    /\ \E m \in Ids : ledger[m] # "none"
    /\ ledger' = [m \in Ids |-> "none"]
    /\ UNCHANGED <<tabVars, minted, mut, exec, srv, others, times>>

\* Another user edits the issue.
OtherEdit(f) ==
    /\ srv.exists
    /\ others < MaxOthers
    /\ others' = others + 1
    /\ srv' = [srv EXCEPT !.ver = @ + 1, !.val[f] = MaxEdits + others + 1]
    /\ UNCHANGED <<tabVars, minted, mut, exec, ledger, times>>

Next ==
    \/ \E t \in Tabs :
        \/ Create(t)
        \/ \E f \in Fields : Update(t, f)
        \/ SavePending(t) \/ SaveCarried(t)
        \/ (\E k \in Slots : Flush(t, k)) \/ FlushReturns(t) \/ Online(t)
        \/ Answer(t) \/ LoseAnswer(t) \/ Pull(t)
        \/ Reset(t) \/ Reopen(t) \/ Reload(t)
    \/ \E k \in Slots :
        Lookup(k) \/ Apply(k) \/ Refuse(k) \/ Record(k) \/ RecordFails(k) \/ Crash(k) \/ Discard(k)
    \/ ExpireLedger
    \/ \E f \in Fields : OtherEdit(f)

Spec == Init /\ [][Next]_vars

\* A timer that is set fires, the server goes on with what it executes, and not
\* every answer is lost; saves, edits, reloads, pulls, resets, failures and the
\* online event are owed by nobody.
Fairness ==
    /\ \A t \in Tabs :
        /\ WF_vars(FlushReturns(t) \/ \E k \in Slots : Flush(t, k))
        /\ SF_vars(Answer(t))
        /\ WF_vars(LoseAnswer(t) /\ exec[flight[t]].phase = "dead")
    /\ \A k \in Slots :
        WF_vars(Lookup(k) \/ Apply(k) \/ Refuse(k) \/ Record(k) \/ Discard(k))

FairSpec == Spec /\ Fairness

-----------------------------------------------------------------------------
(* Properties. *)

\* The type invariant.
TypeOK ==
    /\ minted \in 0..MaxEdits
    /\ mut \in [Ids -> [op : {"none", "create", "update"}, field : Fields \union {NoField},
                        stamp : Nat, inverse : Row]]
    /\ queue \in [Tabs -> Seq(Ids)]
    /\ dirty \in [Tabs -> BOOLEAN]
    /\ idb \subseteq Ids
    /\ db \in [Tabs -> {"open", "wiped", "closed"}]
    /\ carried \in [Tabs -> Seq(Ids)]
    /\ armed \in [Tabs -> BOOLEAN]
    /\ store \in [Tabs -> Row]
    /\ cursor \in [Tabs -> Nat]
    /\ flight \in [Tabs -> Slots \union {0}]
    /\ exec \in [Slots -> [phase : {"free", "look", "apply", "applied", "refused", "done", "dead"},
                           batch : Seq(Ids), at : Nat,
                           results : [Ids -> [status : {"none", "ok", "rejected"},
                                              hasRow : BOOLEAN, row : Row]]]]
    /\ ledger \in [Ids -> {"none", "applied", "rejected"}]
    /\ srv \in [ver : Nat, exists : BOOLEAN, val : [Fields -> Values]]
    /\ others \in 0..MaxOthers
    /\ kept \subseteq Ids
    /\ times \in [Ids -> Nat]
    /\ told \in [Ids -> {"none", "ok", "rejected"}]
    /\ passed \in [Tabs -> BOOLEAN]
    /\ forgotten \subseteq Ids

\* An edit the client was told is done has been applied, whatever was lost,
\* repeated or crashed: a ledger row never stands for work not done.
AckedMeansApplied == \A m \in Ids : told[m] = "ok" => times[m] > 0

\* With one tab, an edit that reached IndexedDB is answered, or still in the queue
\* or in IndexedDB: no answer, lost answer, clear-and-refill, reload or reset
\* drops it (engine.ts:171-173 "The pending queue SURVIVES the wipe"), but for
\* the two ways forgotten names: the tab closed after the database had been
\* destroyed and before the queue was in the new one, or a start did not read it.
SavedWorkSurvives ==
    \A m \in kept :
        \/ told[m] # "none"
        \/ m \in idb
        \/ \E t \in Tabs : m \in SeqSet(queue[t])
        \/ m \in forgotten

\* The user is told what happened: an edit is applied at most once, however
\* often its batch is sent (docs/fse-spike-gate.md "exactly-once"), and one
\* reported as rejected was not applied.
AppliedAsTold ==
    \A m \in Ids : times[m] <= 1 /\ (told[m] = "rejected" => times[m] = 0)

\* The server has applied an edit or refused it.
Handled(m) == times[m] > 0 \/ ledger[m] # "none"

\* The server never handles an edit ahead of one made earlier that waits in the
\* same queue, across tabs, reloads, lost answers and batches sent again
\* (engine.ts:36 "replays in order on reconnect"), unless both carry the same
\* millisecond: a reload may swap such edits, and an update sent ahead of the
\* create is refused.
EditsLandInOrder ==
    \A t \in Tabs : \A m, n \in SeqSet(queue[t]) :
        m < n /\ Handled(n) => Handled(m) \/ mut[m].stamp = mut[n].stamp

\* A saved edit waits for a tab that has lost the lock and set no timer.
PassedOver(m) == \E t \in Tabs : passed[t] /\ m \in SeqSet(queue[t])

\* No saved edit is stuck: if from some time on no tab that holds it finds the
\* lock taken, it is answered, unless every copy of it is gone because the tab
\* that held it closed after another tab had rewritten IndexedDB (with one tab
\* SavedWorkSurvives excludes that).
SavedEditsAreAnswered ==
    \A m \in Ids :
        \/ m \in kept ~> \/ told[m] # "none"
                        \/ m \notin idb \union UNION {SeqSet(queue[t]) : t \in Tabs}
        \/ []<>PassedOver(m)
=============================================================================
