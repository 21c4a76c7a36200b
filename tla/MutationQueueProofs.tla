------------------------ MODULE MutationQueueProofs ------------------------
(***************************************************************************)
(* Proofs about MutationQueue, for any fields, tabs, executions, batches   *)
(* and faults: types, and acknowledged edits that were applied; with one   *)
(* tab, saved edits that survive; queues in order; edits that land in      *)
(* order while the ledger outlives the queues; and edits that are applied  *)
(* as told while nothing comes between the steps of an execution.          *)
(***************************************************************************)
EXTENDS MutationQueue, FiniteSetTheorems, SequenceTheorems, WellFoundedInduction, TLAPS

-----------------------------------------------------------------------------
(* The inductive invariants. *)

Statuses == {"none", "ok", "rejected"}
MutRow == [op : {"none", "create", "update"}, field : Fields \union {NoField}, stamp : Nat, inverse : Row]
Result == [status : Statuses, hasRow : BOOLEAN, row : Row]
ExecRow == [phase : {"free", "look", "apply", "applied", "refused", "done", "dead"},
            batch : Seq(Ids), at : Nat, results : [Ids -> Result]]
SrvRow == [ver : Nat, exists : BOOLEAN, val : [Fields -> Values]]

\* What the tabs keep.
ClientTypes ==
    /\ minted \in 0..MaxEdits
    /\ mut \in [Ids -> MutRow]
    /\ queue \in [Tabs -> Seq(Ids)]
    /\ dirty \in [Tabs -> BOOLEAN]
    /\ idb \subseteq Ids
    /\ store \in [Tabs -> Row]
    /\ cursor \in [Tabs -> Nat]
    /\ flight \in [Tabs -> Slots \union {0}]
    /\ kept \subseteq Ids
    /\ told \in [Ids -> Statuses]
    /\ db \in [Tabs -> {"open", "wiped", "closed"}]
    /\ carried \in [Tabs -> Seq(Ids)]
    /\ armed \in [Tabs -> BOOLEAN]
    /\ passed \in [Tabs -> BOOLEAN]
    /\ forgotten \subseteq Ids

\* What the server keeps.
ServerTypes ==
    /\ exec \in [Slots -> ExecRow]
    /\ ledger \in [Ids -> {"none", "applied", "rejected"}]
    /\ srv \in SrvRow
    /\ others \in 0..MaxOthers
    /\ times \in [Ids -> Nat]

\* An execution at work is at an item of its batch; what it is done with has a
\* result, and what it has applied is to be answered so.
AtWork(k) == exec[k].phase \in {"look", "apply", "applied", "refused"}
ExecOK(k) ==
    /\ AtWork(k) => /\ exec[k].at \in 1..Len(exec[k].batch)
                    /\ \A i \in 1..(exec[k].at - 1) : exec[k].results[exec[k].batch[i]].status # "none"
    /\ exec[k].phase = "done" => \A i \in 1..Len(exec[k].batch) : exec[k].results[exec[k].batch[i]].status # "none"
    /\ exec[k].phase = "applied" => exec[k].results[CurrentItem(k)].status = "ok"

\* Of an edit that was not applied nobody says it was.
Unapplied(m) ==
    times[m] = 0 => /\ ledger[m] # "applied"
                    /\ told[m] # "ok"
                    /\ \A k \in Slots : exec[k].results[m].status # "ok"

IInv ==
    /\ ClientTypes
    /\ ServerTypes
    /\ \A k \in Slots : ExecOK(k)
    /\ \A m \in Ids : Unapplied(m)

\* With one tab: where a saved edit is that is neither answered nor forgotten.
\* The queue has it, and so has IndexedDB or, once that is destroyed, what is
\* carried over; what is carried over is queued or answered.
Backed(t, m) ==
    CASE db[t] = "closed" -> TRUE
      [] db[t] = "open" /\ carried[t] = <<>> -> m \in idb
      [] OTHER -> m \in SeqSet(carried[t])
Saved(t) ==
    /\ dirty[t] => db[t] = "open"
    /\ \A m \in kept : \/ told[m] # "none" \/ m \in forgotten
                       \/ m \in SeqSet(queue[t]) /\ Backed(t, m)
    /\ \A m \in SeqSet(carried[t]) : told[m] # "none" \/ m \in SeqSet(queue[t])

\* Edits in the order they were made, up to those that carry the same stamp.
Tie(m, n) == mut[m].stamp = mut[n].stamp
InOrder(q) == \A i, j \in 1..Len(q) : i < j => q[i] < q[j] \/ Tie(q[i], q[j])
QueueKeepsOrder == \A t \in Tabs : InOrder(queue[t])

\* Edits are stamped in the order they were made, and a queue holds edits that
\* were made, in that order.
Ordered ==
    /\ \A m, n \in 1..minted : m < n => mut[m].stamp <= mut[n].stamp
    /\ idb \subseteq 1..minted
    /\ \A t \in Tabs : SeqSet(queue[t]) \subseteq 1..minted /\ SeqSet(carried[t]) \subseteq 1..minted
    /\ QueueKeepsOrder

\* The sets of edits the tabs keep, and those that were sent.
Copies == {idb} \union {SeqSet(queue[t]) : t \in Tabs} \union {SeqSet(carried[t]) : t \in Tabs}
Batches == {SeqSet(exec[k].batch) : k \in Slots}

\* The server must not handle n while m waits beside it.
Before(m, n) == m < n /\ ~Handled(m) /\ ~Tie(m, n)

\* What an execution is done with is handled.
Done(k) ==
    /\ AtWork(k) => \A i \in 1..(exec[k].at - 1) : Handled(exec[k].batch[i])
    /\ exec[k].phase = "done" => \A i \in 1..Len(exec[k].batch) : Handled(exec[k].batch[i])

\* Nothing is handled ahead of an edit that waits beside it: a batch or another
\* tab's queue that has the later edit has the earlier one too.
Landing ==
    /\ \A m \in Ids : Handled(m) => m \in 1..minted
    /\ \A k \in Slots : SeqSet(exec[k].batch) \subseteq 1..minted /\ InOrder(exec[k].batch) /\ Done(k)
    /\ \A A \in Copies : \A m, n \in A : Before(m, n) => ~Handled(n)
    /\ \A A \in Copies, B \in Copies \union Batches : \A m \in A, n \in A \intersect B : Before(m, n) => m \in B

\* Failures that come between the steps of an execution, or between the ledger
\* and a queue.
Gaps == {"overlap", "crash", "ledger", "expire"}

\* Without them there is one execution, which a tab waits for.
OneExec ==
    /\ \A t, u \in Tabs : flight[t] # 0 /\ flight[u] # 0 => t = u
    /\ \A k \in Slots : exec[k].phase # "free" => \E t \in Tabs : flight[t] = k

\* What was applied is in the ledger or about to be, what was rejected is
\* there and was not applied, and an item is worked on once.
Pending(m) == \E k \in Slots : exec[k].phase = "applied" /\ CurrentItem(k) = m
Told(m) ==
    /\ times[m] <= 1
    /\ times[m] = 1 => ledger[m] = "applied" \/ Pending(m)
    /\ ledger[m] = "rejected" => times[m] = 0
    /\ told[m] = "rejected" => ledger[m] = "rejected"
    /\ \A k \in Slots : exec[k].results[m].status = "rejected" => ledger[m] = "rejected"
Fresh(k) ==
    /\ exec[k].phase \in {"apply", "refused"} => ledger[CurrentItem(k)] = "none" /\ times[CurrentItem(k)] = 0
    /\ exec[k].phase = "applied" => ledger[CurrentItem(k)] = "none"
    /\ exec[k].phase # "dead"

AsTold ==
    /\ OneExec
    /\ \A m \in Ids : Told(m)
    /\ \A k \in Slots : Fresh(k)

-----------------------------------------------------------------------------
(* Lemmas about the operators of the model. *)

\* A set of numbers up to n has a greatest element.
LEMMA Greatest ==
  ASSUME NEW n \in Nat, NEW S \in SUBSET (1..n), S # {}
  PROVE  \E x \in S : \A y \in S : y <= x
<1> DEFINE T == {m \in Nat : n - m \in S}
<1> DEFINE Below == {ss \in Nat \X Nat : ss[1] < ss[2]}
<1>1. IsWellFoundedOn(Below, Nat)
  <2>1. Below = OpToRel(<, Nat)
    BY DEF OpToRel
  <2> QED
    BY <2>1, NatLessThanWellFounded
<1>2. \A x, y \in Nat : x =< y \/ <<y, x>> \in Below
  OBVIOUS
<1>3. \A y \in S : n - y \in T /\ n - (n - y) = y
  OBVIOUS
<1>4. T # {} /\ T \subseteq Nat
  BY <1>3
<1> HIDE DEF Below, T
<1>5. PICK x \in T : \A y \in T : ~ (<<y, x>> \in Below)
  BY <1>1, <1>4, WFMin
<1>6. \A y \in T : x =< y
  BY <1>2, <1>4, <1>5, Zenon
<1>7. n - x \in S /\ x \in Nat
  BY DEF T
<1>8. \A y \in S : y <= n - x
  BY <1>3, <1>6, <1>7
<1> QED
  BY <1>7, <1>8

\* The row an answer leaves in the tab is a row.
LEMMA SettleRow ==
  ASSUME mut \in [Ids -> MutRow], NEW row \in Row, NEW batch \in Seq(Ids), NEW results \in [Ids -> Result]
  PROVE  Settle(row, batch, results) \in Row
<1> DEFINE lands == {i \in 1..Len(batch) : results[batch[i]].status = "ok" => results[batch[i]].hasRow}
<1> DEFINE last == CHOOSE i \in lands : \A j \in lands : j <= i
<1> DEFINE item == batch[last]
<1>1. CASE lands = {}
  BY <1>1 DEF Settle
<1>2. CASE lands # {}
  <2>1. lands \in SUBSET (1..Len(batch)) /\ Len(batch) \in Nat
    BY LenProperties
  <2>2. last \in lands
    <3> HIDE DEF lands
    <3>1. \E x \in lands : \A y \in lands : y <= x
      BY <1>2, <2>1, Greatest
    <3> QED
      BY <3>1
  <2>3. item \in Ids
    BY <2>1, <2>2, ElementOfSeq
  <2>4. Settle(row, batch, results) =
           IF results[item].status = "ok" THEN results[item].row
           ELSE IF mut[item].op = "create" THEN NoRow ELSE mut[item].inverse
    BY <1>2 DEF Settle
  <2> HIDE DEF item
  <2>5. results[item].row \in Row /\ mut[item].inverse \in Row
    BY <2>3 DEF Result, MutRow
  <2>6. NoRow \in Row
    BY MutationQueueAssumption DEF NoRow, Row, Values
  <2> QED
    BY <2>4, <2>5, <2>6
<1> QED
  BY <1>1, <1>2

\* The places of the members of a set of numbers are 1, 2, ... in their order.
LEMMA Places ==
  ASSUME NEW n \in Nat, NEW S \in SUBSET (1..n)
  PROVE  /\ Cardinality(S) \in Nat
         /\ \A i \in S : Cardinality({j \in S : j <= i}) \in 1..Cardinality(S)
         /\ \A i, k \in S : i < k => Cardinality({j \in S : j <= i}) < Cardinality({j \in S : j <= k})
         /\ \A p \in 1..Cardinality(S) : \E i \in S : Cardinality({j \in S : j <= i}) = p
<1>0. \A i \in S : i \in Int
  OBVIOUS
<1>1. IsFiniteSet(S) /\ Cardinality(S) \in Nat
  <2>1. IsFiniteSet(1..n)
    BY FS_Interval
  <2>2. IsFiniteSet(S)
    BY <2>1, FS_Subset
  <2> QED
    BY <2>2, FS_CardinalityType
<1>2. ASSUME NEW i \in S
      PROVE  /\ IsFiniteSet({j \in S : j <= i})
             /\ Cardinality({j \in S : j <= i}) \in 1..Cardinality(S)
  <2>1. {j \in S : j <= i} \in SUBSET S /\ {j \in S : j <= i} # {}
    OBVIOUS
  <2>2. IsFiniteSet({j \in S : j <= i}) /\ Cardinality({j \in S : j <= i}) <= Cardinality(S)
    BY <1>1, <2>1, FS_Subset
  <2>3. Cardinality({j \in S : j <= i}) \in Nat /\ Cardinality({j \in S : j <= i}) # 0
    BY <2>1, <2>2, FS_CardinalityType, FS_EmptySet
  <2> QED
    BY <1>1, <2>2, <2>3
<1>3. ASSUME NEW i \in S, NEW k \in S, i < k
      PROVE  Cardinality({j \in S : j <= i}) < Cardinality({j \in S : j <= k})
  <2>1. {j \in S : j <= i} \in SUBSET {j \in S : j <= k}
    <3>1. ASSUME NEW j \in S, j <= i PROVE j <= k
      <4>1. j \in Int /\ i \in Int /\ k \in Int
        BY <1>0
      <4> QED
        BY <1>3, <3>1, <4>1
    <3> QED
      BY <3>1
  <2>2. {j \in S : j <= i} # {j \in S : j <= k}
    <3>1. k \in Int /\ i \in Int
      BY <1>0
    <3>2. k <= k /\ ~(k <= i)
      BY <1>3, <3>1
    <3>3. k \in {j \in S : j <= k} /\ k \notin {j \in S : j <= i}
      BY <3>2
    <3> QED
      BY <3>3
  <2>3. /\ Cardinality({j \in S : j <= i}) <= Cardinality({j \in S : j <= k})
        /\ Cardinality({j \in S : j <= k}) # Cardinality({j \in S : j <= i})
    BY <1>2, <2>1, <2>2, FS_Subset
  <2> QED
    BY <1>1, <1>2, <2>3
<1> DEFINE f == [i \in S |-> Cardinality({j \in S : j <= i})]
<1>4. f \in Injection(S, 1..Cardinality(S))
  <2>1. f \in [S -> 1..Cardinality(S)]
    BY <1>2
  <2>2. ASSUME NEW i \in S, NEW k \in S, f[i] = f[k] PROVE i = k
    <3>1. f[i] = Cardinality({j \in S : j <= i}) /\ f[k] = Cardinality({j \in S : j <= k})
      OBVIOUS
    <3>2. ~(i < k) /\ ~(k < i)
      BY <1>1, <1>2, <1>3, <2>2, <3>1
    <3> QED
      BY <3>2
  <2> QED
    BY <2>1, <2>2 DEF Injection, IsInjective
<1>5. IsFiniteSet(1..Cardinality(S)) /\ Cardinality(1..Cardinality(S)) = Cardinality(S)
  BY <1>1, FS_Interval
<1>6. f \in Surjection(S, 1..Cardinality(S))
  <2> HIDE DEF f
  <2> QED
    BY <1>4, <1>5, FS_Injection
<1>7. ASSUME NEW p \in 1..Cardinality(S) PROVE \E i \in S : Cardinality({j \in S : j <= i}) = p
  BY <1>6 DEF Surjection
<1> QED
  BY <1>1, <1>2, <1>3, <1>7

\* What is left of a queue is what it should be, in order.
LEMMA WithoutIsFilter ==
  ASSUME NEW S, NEW q \in Seq(S), NEW B
  PROVE  /\ Without(q, B) \in Seq(S)
         /\ SeqSet(Without(q, B)) = SeqSet(q) \ B
         /\ \A a, b \in 1..Len(Without(q, B)) : a < b =>
              \E i, j \in 1..Len(q) : i < j /\ Without(q, B)[a] = q[i] /\ Without(q, B)[b] = q[j]
<1> DEFINE left == {i \in 1..Len(q) : q[i] \notin B}
<1> DEFINE place(i) == Cardinality({j \in left : j <= i})
<1> DEFINE pick == [n \in 1..Cardinality(left) |-> CHOOSE i \in left : place(i) = n]
<1> DEFINE w == Without(q, B)
<1>0. Len(q) \in Nat /\ \A i \in 1..Len(q) : q[i] \in S
  BY LenProperties, ElementOfSeq
<1>1. /\ Cardinality(left) \in Nat
      /\ \A i \in left : place(i) \in 1..Cardinality(left)
      /\ \A i, k \in left : i < k => place(i) < place(k)
      /\ \A p \in 1..Cardinality(left) : \E i \in left : place(i) = p
  <2>1. left \in SUBSET (1..Len(q))
    OBVIOUS
  <2> HIDE DEF left
  <2> QED
    BY <1>0, <2>1, Places
<1>2. w = [n \in 1..Cardinality(left) |-> q[pick[n]]]
  BY DEF Without
<1>3. \A n \in 1..Cardinality(left) : pick[n] \in left /\ place(pick[n]) = n
  BY <1>1
<1>4. left \subseteq 1..Len(q) /\ \A i \in 1..Len(q) : i \in left <=> q[i] \notin B
  OBVIOUS
<1> HIDE DEF left, place, pick
<1>5. \A n \in 1..Cardinality(left) : w[n] = q[pick[n]] /\ w[n] \in S /\ w[n] \notin B
  BY <1>0, <1>2, <1>3, <1>4
<1>6. w \in [1..Cardinality(left) -> S]
  BY <1>2, <1>5
<1>7. w \in Seq(S) /\ Len(w) = Cardinality(left)
  BY <1>1, <1>6, SeqDef, LenProperties
<1>8. SeqSet(w) = SeqSet(q) \ B
  <2>1. ASSUME NEW x \in SeqSet(w) PROVE x \in SeqSet(q) /\ x \notin B
    <3>1. PICK n \in 1..Cardinality(left) : x = w[n]
      BY <1>7 DEF SeqSet
    <3> QED
      BY <1>3, <1>4, <1>5, <3>1 DEF SeqSet
  <2>2. ASSUME NEW x \in SeqSet(q), x \notin B PROVE x \in SeqSet(w)
    <3>1. PICK i \in 1..Len(q) : x = q[i]
      BY DEF SeqSet
    <3>2. i \in left /\ place(i) \in 1..Cardinality(left)
      BY <1>1, <1>4, <2>2, <3>1
    <3>3. PICK n \in 1..Cardinality(left) : n = place(i)
      BY <3>2
    <3>4. PICK k \in left : k = pick[n] /\ place(k) = place(i)
      BY <1>3, <3>3
    <3>5. k = i
      <4>1. ~(place(k) < place(i)) /\ ~(place(i) < place(k))
        BY <1>1, <3>2, <3>4
      <4>2. ~(k < i) /\ ~(i < k)
        BY <1>1, <3>2, <4>1
      <4>3. k \in Int /\ i \in Int
        BY <1>0, <1>4
      <4> QED
        BY <4>2, <4>3
    <3> QED
      BY <1>5, <1>7, <3>1, <3>4, <3>5 DEF SeqSet
  <2> QED
    BY <2>1, <2>2
<1>9. ASSUME NEW a \in 1..Len(w), NEW b \in 1..Len(w), a < b
      PROVE  \E i, j \in 1..Len(q) : i < j /\ w[a] = q[i] /\ w[b] = q[j]
  <2>1. /\ pick[a] \in left /\ place(pick[a]) = a /\ w[a] = q[pick[a]]
        /\ pick[b] \in left /\ place(pick[b]) = b /\ w[b] = q[pick[b]]
    BY <1>3, <1>5, <1>7
  <2>2. pick[a] \in 1..Len(q) /\ pick[b] \in 1..Len(q)
    BY <1>4, <2>1
  <2>3. ~(pick[b] < pick[a]) /\ pick[a] # pick[b]
    BY <1>1, <1>7, <1>9, <2>1
  <2>4. pick[a] < pick[b]
    BY <1>0, <2>2, <2>3
  <2> QED
    BY <2>1, <2>2, <2>4
<1> QED
  BY <1>7, <1>8, <1>9

\* What is left of a queue in order is in order.
LEMMA WithoutInOrder ==
  ASSUME NEW q \in Seq(Ids), NEW B, InOrder(q)
  PROVE  InOrder(Without(q, B))
<1> DEFINE w == Without(q, B)
<1>1. \A a, b \in 1..Len(w) : a < b => \E i, j \in 1..Len(q) : i < j /\ w[a] = q[i] /\ w[b] = q[j]
  BY WithoutIsFilter
<1> HIDE DEF w
<1>2. \A a, b \in 1..Len(w) : a < b => w[a] < w[b] \/ Tie(w[a], w[b])
  <2> SUFFICES ASSUME NEW a \in 1..Len(w), NEW b \in 1..Len(w), a < b
               PROVE  w[a] < w[b] \/ Tie(w[a], w[b])
    OBVIOUS
  <2>1. PICK i \in 1..Len(q), j \in 1..Len(q) : i < j /\ w[a] = q[i] /\ w[b] = q[j]
    BY <1>1
  <2>2. q[i] < q[j] \/ Tie(q[i], q[j])
    BY <2>1 DEF InOrder
  <2> QED
    BY <2>1, <2>2 DEF Tie
<1> QED
  BY <1>2 DEF InOrder, w

\* An execution at work is at one of the edits.
LEMMA ItemRow ==
  ASSUME ServerTypes, NEW k \in Slots, ExecOK(k), AtWork(k)
  PROVE  /\ exec[k] \in ExecRow /\ exec[k].at \in 1..Len(exec[k].batch)
         /\ Len(exec[k].batch) \in Nat /\ CurrentItem(k) \in Ids
         /\ \A i \in 1..Len(exec[k].batch) : exec[k].batch[i] \in Ids
<1>1. exec[k] \in ExecRow /\ exec[k].at \in 1..Len(exec[k].batch)
  BY DEF ServerTypes, ExecOK
<1>2. exec[k].batch \in Seq(Ids)
  BY <1>1 DEF ExecRow
<1>3. Len(exec[k].batch) \in Nat /\ \A i \in 1..Len(exec[k].batch) : exec[k].batch[i] \in Ids
  BY <1>2, LenProperties, ElementOfSeq
<1> QED
  BY <1>1, <1>3 DEF CurrentItem

\* An item is finished: the next one, or the answer.
LEMMA FinishMove ==
  ASSUME ServerTypes, NEW k \in Slots, ExecOK(k), AtWork(k),
         NEW result \in Result, result.status # "none", Finish(k, result)
  PROVE  \E r \in ExecRow :
           /\ exec' = [exec EXCEPT ![k] = r]
           /\ r.batch = exec[k].batch
           /\ r.results = [exec[k].results EXCEPT ![CurrentItem(k)] = result]
           /\ r.phase = IF Ended(exec[k]) THEN "done" ELSE "look"
           /\ r.at = IF Ended(exec[k]) THEN exec[k].at ELSE exec[k].at + 1
           /\ ExecOK(k)'
<1>1. /\ exec[k] \in ExecRow /\ exec[k].at \in 1..Len(exec[k].batch)
      /\ Len(exec[k].batch) \in Nat /\ CurrentItem(k) \in Ids
      /\ \A i \in 1..Len(exec[k].batch) : exec[k].batch[i] \in Ids
  BY ItemRow
<1> DEFINE phase == IF Ended(exec[k]) THEN "done" ELSE "look"
<1> DEFINE at == IF Ended(exec[k]) THEN exec[k].at ELSE exec[k].at + 1
<1> DEFINE results == [exec[k].results EXCEPT ![CurrentItem(k)] = result]
<1> DEFINE r == [exec[k] EXCEPT !.results = results, !.phase = phase, !.at = at]
<1>2. at \in Nat /\ phase \in {"look", "done"} /\ results \in [Ids -> Result]
  BY <1>1 DEF ExecRow
<1>4. exec' = [exec EXCEPT ![k] = r]
  BY <1>1 DEF Finish, ServerTypes, ExecRow
<1>5. r \in ExecRow /\ r.phase = phase /\ r.batch = exec[k].batch /\ r.at = at /\ r.results = results
  BY <1>1, <1>2 DEF ExecRow
<1>6. \A m \in Ids : results[m] = IF m = CurrentItem(k) THEN result ELSE exec[k].results[m]
  BY <1>1 DEF ExecRow
<1> HIDE DEF r, results
<1>7. exec'[k] = r
  BY <1>4 DEF ServerTypes
<1>8. \A i \in 1..exec[k].at : results[exec[k].batch[i]].status # "none"
  <2>1. ASSUME NEW i \in 1..exec[k].at PROVE results[exec[k].batch[i]].status # "none"
    <3>1. exec[k].batch[i] \in Ids
      BY <1>1
    <3>2. CASE i = exec[k].at
      BY <1>6, <3>1, <3>2 DEF CurrentItem
    <3>3. CASE i # exec[k].at
      <4>1. i \in 1..(exec[k].at - 1)
        BY <1>1, <3>3
      <4>2. exec[k].results[exec[k].batch[i]].status # "none"
        BY <4>1 DEF ExecOK
      <4> QED
        BY <1>6, <3>1, <4>2
    <3> QED
      BY <3>2, <3>3
  <2> QED
    BY <2>1
<1>9. ExecOK(k)'
  <2>1. CASE Ended(exec[k])
    BY <1>1, <1>5, <1>7, <1>8, <2>1 DEF ExecOK, AtWork, Ended
  <2>2. CASE ~Ended(exec[k])
    <3>1. at \in 1..Len(exec[k].batch) /\ at - 1 = exec[k].at
      BY <1>1, <2>2 DEF Ended
    <3>2. r.phase = "look"
      BY <1>5, <2>2
    <3>3. \A i \in 1..(r.at - 1) : r.results[r.batch[i]].status # "none"
      BY <1>5, <1>8, <3>1
    <3> QED
      BY <1>5, <1>7, <3>1, <3>2, <3>3 DEF ExecOK, AtWork
  <2> QED
    BY <2>1, <2>2
<1> QED
  BY <1>4, <1>5, <1>9 DEF results

\* One execution takes a step: the parts of the invariant.
LEMMA ServerMove ==
  ASSUME IInv, NEW k \in Slots, NEW r \in ExecRow, exec' = [exec EXCEPT ![k] = r],
         UNCHANGED <<tabVars, minted, mut, others>>,
         ledger' \in [Ids -> {"none", "applied", "rejected"}], srv' \in SrvRow, times' \in [Ids -> Nat],
         ExecOK(k)',
         \A m \in Ids : times'[m] = 0 =>
            /\ times[m] = 0
            /\ ledger'[m] = "applied" => ledger[m] = "applied"
            /\ r.results[m].status = "ok" => exec[k].results[m].status = "ok"
  PROVE  IInv'
<1>1. exec'[k] = r /\ \A j \in Slots : j # k => exec'[j] = exec[j]
  BY DEF IInv, ServerTypes
<1>2. ClientTypes'
  BY DEF IInv, ClientTypes, tabVars
<1>3. ServerTypes'
  BY DEF IInv, ServerTypes
<1>4. ASSUME NEW j \in Slots PROVE ExecOK(j)'
  <2>1. CASE j = k
    BY <2>1
  <2>2. CASE j # k
    BY <1>1, <2>2 DEF IInv, ExecOK, AtWork, CurrentItem
  <2> QED
    BY <2>1, <2>2
<1>5. ASSUME NEW m \in Ids PROVE Unapplied(m)'
  <2> SUFFICES ASSUME times'[m] = 0
               PROVE  ledger'[m] # "applied" /\ told'[m] # "ok" /\ \A j \in Slots : exec'[j].results[m].status # "ok"
    BY DEF Unapplied
  <2>1. ledger[m] # "applied" /\ told[m] # "ok" /\ \A j \in Slots : exec[j].results[m].status # "ok"
    BY DEF IInv, Unapplied
  <2>0. told' = told
    BY DEF tabVars
  <2>2. ASSUME NEW j \in Slots PROVE exec'[j].results[m].status # "ok"
    BY <1>1, <2>1
  <2> QED
    BY <2>0, <2>1, <2>2
<1> QED
  BY <1>2, <1>3, <1>4, <1>5 DEF IInv

\* Executions end or are left alone.
LEMMA ExecsDrop ==
  ASSUME IInv, exec' \in [Slots -> ExecRow],
         \A k \in Slots : \/ exec'[k] = exec[k]
                          \/ exec'[k] = Idle
                          \/ exec'[k] = [Idle EXCEPT !.phase = "dead"]
  PROVE  /\ \A k \in Slots : ExecOK(k)'
         /\ \A k \in Slots, m \in Ids : exec'[k].results[m].status = "ok" => exec[k].results[m].status = "ok"
<1>1. /\ Idle.phase = "free" /\ \A m \in Ids : Idle.results[m].status = "none"
      /\ [Idle EXCEPT !.phase = "dead"].phase = "dead"
      /\ \A m \in Ids : [Idle EXCEPT !.phase = "dead"].results[m].status = "none"
  BY DEF Idle, NoResult
<1>2. ASSUME NEW k \in Slots PROVE ExecOK(k)'
  <2>1. ExecOK(k)
    BY DEF IInv
  <2>2. CASE exec'[k] = exec[k]
    BY <2>1, <2>2 DEF ExecOK, AtWork, CurrentItem
  <2>3. CASE exec'[k].phase \in {"free", "dead"}
    BY <2>3 DEF ExecOK, AtWork
  <2> QED
    BY <1>1, <2>2, <2>3
<1>3. ASSUME NEW k \in Slots, NEW m \in Ids, exec'[k].results[m].status = "ok"
      PROVE  exec[k].results[m].status = "ok"
  BY <1>1, <1>3
<1> QED
  BY <1>2, <1>3

\* An item without a result.
LEMMA NoResultRow == NoResult \in Result
<1>1. NoRow \in Row
  BY MutationQueueAssumption DEF NoRow, Row, Values
<1> QED
  BY <1>1 DEF NoResult, Result, Statuses

\* The rows of an execution that is free or dead.
LEMMA IdleRow == Idle \in ExecRow /\ [Idle EXCEPT !.phase = "dead"] \in ExecRow
<1>2. NoResult \in Result
  BY NoResultRow
<1>3. <<>> \in Seq(Ids)
  BY EmptySeq
<1> QED
  BY <1>2, <1>3 DEF Idle, ExecRow

\* The parts of the invariant when the tabs move and executions only end.
LEMMA ClientMove ==
  ASSUME IInv, ClientTypes', UNCHANGED <<ledger, times>>,
         srv' \in SrvRow, others' \in 0..MaxOthers, exec' \in [Slots -> ExecRow],
         \A k \in Slots : \/ exec'[k] = exec[k]
                          \/ exec'[k] = Idle
                          \/ exec'[k] = [Idle EXCEPT !.phase = "dead"],
         \A m \in Ids : told'[m] = "ok" => told[m] = "ok" \/ \E k \in Slots : exec[k].results[m].status = "ok"
  PROVE  IInv'
<1>1. /\ \A k \in Slots : ExecOK(k)'
      /\ \A k \in Slots, m \in Ids : exec'[k].results[m].status = "ok" => exec[k].results[m].status = "ok"
  BY ExecsDrop
<1>2. ServerTypes'
  BY DEF IInv, ServerTypes
<1>3. ASSUME NEW m \in Ids PROVE Unapplied(m)'
  BY <1>1 DEF IInv, Unapplied
<1> QED
  BY <1>1, <1>2, <1>3 DEF IInv

-----------------------------------------------------------------------------
(* Every step keeps IInv. *)

\* enqueue.
LEMMA EnqueueKeeps ==
  ASSUME IInv, NEW t \in Tabs, NEW op \in {"create", "update"}, NEW f \in Fields \union {NoField},
         NEW patched \in Row, Enqueue(t, op, f, patched)
  PROVE  IInv'
<1>1. ClientTypes
  BY DEF IInv
<1>2. minted + 1 \in Ids /\ minted + 1 \in 0..MaxEdits
  BY <1>1, MutationQueueAssumption DEF ClientTypes, Enqueue, Ids
<1>3. PICK s \in Stamps : mut' = [mut EXCEPT ![minted + 1] = [op |-> op, field |-> f, stamp |-> s, inverse |-> store[t]]]
  BY DEF Enqueue
<1>4. s \in Nat
  <2>1. CASE minted = 0
    BY <2>1 DEF Stamps
  <2>2. CASE minted # 0
    <3>1. minted \in Ids
      BY <1>1, <2>2 DEF ClientTypes, Ids
    <3>2. mut[minted].stamp \in Nat
      BY <1>1, <3>1 DEF ClientTypes, MutRow
    <3> QED
      BY <2>2, <3>2 DEF Stamps
  <2> QED
    BY <2>1, <2>2
<1>5. [op |-> op, field |-> f, stamp |-> s, inverse |-> store[t]] \in MutRow
  BY <1>1, <1>4 DEF ClientTypes, MutRow
<1>6. mut' \in [Ids -> MutRow]
  BY <1>1, <1>2, <1>3, <1>5 DEF ClientTypes
<1>7. Append(queue[t], minted + 1) \in Seq(Ids)
  BY <1>1, <1>2, AppendProperties DEF ClientTypes
<1>8. queue' \in [Tabs -> Seq(Ids)]
  BY <1>1, <1>7 DEF ClientTypes, Enqueue
<1>11. carried' \in [Tabs -> Seq(Ids)]
  <2>1. Append(carried[t], minted + 1) \in Seq(Ids) /\ carried[t] \in Seq(Ids)
    BY <1>1, <1>2, AppendProperties DEF ClientTypes
  <2> DEFINE c == IF db[t] = "wiped" /\ carried[t] = queue[t] THEN Append(carried[t], minted + 1) ELSE carried[t]
  <2>2. carried' = [carried EXCEPT ![t] = c]
    BY DEF Enqueue
  <2>3. c \in Seq(Ids)
    BY <2>1
  <2> HIDE DEF c
  <2> QED
    BY <1>1, <2>2, <2>3 DEF ClientTypes
<1>12. /\ dirty' \in [Tabs -> BOOLEAN] /\ armed' \in [Tabs -> BOOLEAN] /\ passed' \in [Tabs -> BOOLEAN]
  BY <1>1 DEF ClientTypes, Enqueue, Persist, Arm
<1>9. ClientTypes'
  BY <1>1, <1>2, <1>6, <1>8, <1>11, <1>12 DEF ClientTypes, Enqueue
<1>10. /\ UNCHANGED <<ledger, times, exec, told, srv, others>>
       /\ srv' \in SrvRow /\ others' \in 0..MaxOthers /\ exec' \in [Slots -> ExecRow]
  BY DEF Enqueue, IInv, ServerTypes
<1> QED
  BY <1>9, <1>10, ClientMove

\* createIssue and updateIssue.
LEMMA EditKeeps ==
  ASSUME IInv, NEW t \in Tabs, Create(t) \/ \E f \in Fields : Update(t, f)
  PROVE  IInv'
<1>1. ClientTypes
  BY DEF IInv
<1>2. minted < MaxEdits => minted + 1 \in Values
  BY <1>1, MutationQueueAssumption DEF ClientTypes, Values
<1>3. CASE Create(t)
  <2>1. Enqueue(t, "create", NoField, [exists |-> TRUE, val |-> [f \in Fields |-> minted + 1]])
    BY <1>3 DEF Create
  <2>2. minted + 1 \in Values
    BY <1>2, <2>1 DEF Enqueue
  <2>3. [exists |-> TRUE, val |-> [f \in Fields |-> minted + 1]] \in Row
    BY <2>2 DEF Row
  <2> QED
    BY <2>1, <2>3, EnqueueKeeps
<1>4. ASSUME NEW f \in Fields, Update(t, f) PROVE IInv'
  <2>1. Enqueue(t, "update", f, [store[t] EXCEPT !.val[f] = minted + 1])
    BY <1>4 DEF Update
  <2>2. minted + 1 \in Values
    BY <1>2, <2>1 DEF Enqueue
  <2>3. store[t] \in Row
    BY <1>1 DEF ClientTypes
  <2>4. [store[t] EXCEPT !.val[f] = minted + 1] \in Row
    BY <2>2, <2>3 DEF Row
  <2> QED
    BY <2>1, <2>4, EnqueueKeeps
<1> QED
  BY <1>3, <1>4

\* The members of a queue are edits.
LEMMA QueueMembers ==
  ASSUME ClientTypes, NEW t \in Tabs
  PROVE  SeqSet(queue[t]) \subseteq Ids
<1>1. queue[t] \in Seq(Ids)
  BY DEF ClientTypes
<1> QED
  BY <1>1, ElementOfSeq DEF SeqSet

\* persistPending.
LEMMA SaveKeeps ==
  ASSUME IInv, NEW t \in Tabs, SavePending(t) \/ SaveCarried(t)
  PROVE  IInv'
<1>1. ClientTypes /\ carried[t] \in Seq(Ids) /\ <<>> \in Seq(Ids)
  BY EmptySeq DEF IInv, ClientTypes
<1>2. SeqSet(queue[t]) \subseteq Ids
  BY <1>1, QueueMembers
<1>5. SeqSet(carried[t]) \subseteq Ids
  BY <1>1, ElementOfSeq DEF SeqSet
<1>3. ClientTypes'
  <2>1. CASE SavePending(t)
    BY <1>1, <1>2, <2>1 DEF ClientTypes, SavePending
  <2>2. CASE SaveCarried(t)
    BY <1>1, <1>5, <2>2 DEF ClientTypes, SaveCarried
  <2> QED
    BY <2>1, <2>2
<1>4. /\ UNCHANGED <<ledger, times, exec, told, srv, others>>
      /\ srv' \in SrvRow /\ others' \in 0..MaxOthers /\ exec' \in [Slots -> ExecRow]
  BY DEF SavePending, SaveCarried, IInv, ServerTypes
<1> QED
  BY <1>3, <1>4, ClientMove

\* The timers.
LEMMA TimerKeeps ==
  ASSUME IInv, NEW t \in Tabs, FlushReturns(t) \/ Online(t)
  PROVE  IInv'
<1>1. ClientTypes
  BY DEF IInv
<1>2. armed' \in [Tabs -> BOOLEAN] /\ passed' \in [Tabs -> BOOLEAN]
  BY <1>1 DEF ClientTypes, FlushReturns, Online, Arm
<1>3. ClientTypes'
  BY <1>1, <1>2 DEF ClientTypes, FlushReturns, Online
<1>4. /\ UNCHANGED <<ledger, times, exec, told, srv, others>>
      /\ srv' \in SrvRow /\ others' \in 0..MaxOthers /\ exec' \in [Slots -> ExecRow]
  BY DEF FlushReturns, Online, IInv, ServerTypes
<1> QED
  BY <1>3, <1>4, ClientMove

\* The destruction of the database.
LEMMA DestroyTypes ==
  ASSUME ClientTypes, NEW t \in Tabs, NEW handle \in {"open", "wiped", "closed"}, NEW q \in Seq(Ids),
         Destroy(t, handle, q)
  PROVE  /\ idb' = {} /\ db' \in [Tabs -> {"open", "wiped", "closed"}] /\ db'[t] = handle
         /\ dirty' \in [Tabs -> BOOLEAN]
         /\ carried' \in [Tabs -> Seq(Ids)] /\ carried'[t] = q
<1>1. <<>> \in Seq(Ids)
  BY EmptySeq
<1> QED
  BY <1>1 DEF Destroy, ClientTypes

\* reset.
LEMMA ResetKeeps ==
  ASSUME IInv, NEW t \in Tabs, Reset(t) \/ Reopen(t)
  PROVE  IInv'
<1>1. ClientTypes /\ ServerTypes /\ queue[t] \in Seq(Ids) /\ <<>> \in Seq(Ids)
  BY EmptySeq DEF IInv, ClientTypes
<1>2. RowOf(srv) \in Row /\ srv.ver \in Nat /\ NoRow \in Row
  BY <1>1, MutationQueueAssumption DEF ServerTypes, SrvRow, RowOf, Row, NoRow, Values
<1>3. ClientTypes'
  <2>1. CASE Reset(t)
    <3>1. Destroy(t, "wiped", queue[t])
      BY <2>1 DEF Reset
    <3>2. /\ idb' = {} /\ db' \in [Tabs -> {"open", "wiped", "closed"}]
          /\ dirty' \in [Tabs -> BOOLEAN] /\ carried' \in [Tabs -> Seq(Ids)]
      BY <1>1, <3>1, DestroyTypes
    <3> QED
      BY <1>1, <1>2, <2>1, <3>2 DEF ClientTypes, Reset
  <2>2. CASE Reopen(t)
    <3>1. /\ idb' \subseteq Ids /\ db' \in [Tabs -> {"open", "wiped", "closed"}]
          /\ dirty' \in [Tabs -> BOOLEAN] /\ carried' \in [Tabs -> Seq(Ids)]
      <4>1. CASE db' = [db EXCEPT ![t] = "open"] /\ UNCHANGED <<idb, dirty, carried>>
        BY <1>1, <4>1 DEF ClientTypes
      <4>2. CASE Destroy(t, "closed", <<>>)
        BY <1>1, <4>2, DestroyTypes
      <4> QED
        BY <2>2, <4>1, <4>2 DEF Reopen
    <3>2. armed' \in [Tabs -> BOOLEAN] /\ passed' \in [Tabs -> BOOLEAN]
      BY <1>1, <2>2 DEF ClientTypes, Reopen, Arm
    <3>3. store' \in [Tabs -> Row] /\ cursor' \in [Tabs -> Nat]
      BY <1>1, <1>2, <2>2 DEF ClientTypes, Reopen
    <3> QED
      BY <1>1, <2>2, <3>1, <3>2, <3>3 DEF ClientTypes, Reopen
  <2> QED
    BY <2>1, <2>2
<1>4. /\ UNCHANGED <<ledger, times, exec, told, srv, others>>
      /\ srv' \in SrvRow /\ others' \in 0..MaxOthers /\ exec' \in [Slots -> ExecRow]
  BY DEF Reset, Reopen, IInv, ServerTypes
<1> QED
  BY <1>3, <1>4, ClientMove

\* The batch of a flush is the head of the queue.
LEMMA FlushRow ==
  ASSUME ClientTypes, ServerTypes, NEW t \in Tabs, NEW k \in Slots, Flush(t, k)
  PROVE  \E r \in ExecRow, n \in 1..Len(queue[t]) :
           /\ exec' = [exec EXCEPT ![k] = r]
           /\ r.phase = "look" /\ r.at = 1 /\ r.batch = SubSeq(queue[t], 1, n) /\ Len(r.batch) = n
           /\ \A m \in Ids : r.results[m].status = "none"
<1>1. queue[t] \in Seq(Ids) /\ queue[t] # <<>>
  BY DEF ClientTypes, Flush
<1>2. Len(queue[t]) \in Nat \ {0}
  BY <1>1, EmptySeq
<1> DEFINE n == IF Len(queue[t]) < BatchLimit THEN Len(queue[t]) ELSE BatchLimit
<1> DEFINE r == [Idle EXCEPT !.phase = "look", !.at = 1, !.batch = SubSeq(queue[t], 1, n)]
<1>3. n \in 1..Len(queue[t])
  BY <1>2, MutationQueueAssumption
<1>4. exec' = [exec EXCEPT ![k] = r]
  BY DEF Flush
<1> HIDE DEF n
<1>5. \A i \in 1..n : queue[t][i] \in Ids
  BY <1>1, <1>2, <1>3, ElementOfSeq
<1>6. SubSeq(queue[t], 1, n) \in Seq(Ids) /\ Len(SubSeq(queue[t], 1, n)) = n
  BY <1>3, <1>5, SubSeqProperties
<1>7. r \in ExecRow
  BY <1>6, IdleRow DEF ExecRow
<1>8. r.phase = "look" /\ r.at = 1 /\ r.batch = SubSeq(queue[t], 1, n)
  BY DEF Idle
<1>9. \A m \in Ids : r.results[m].status = "none"
  BY DEF Idle, NoResult
<1> HIDE DEF r
<1> QED
  BY <1>3, <1>4, <1>6, <1>7, <1>8, <1>9

\* flushQueue.
LEMMA FlushKeeps ==
  ASSUME IInv, NEW t \in Tabs, NEW k \in Slots, Flush(t, k)
  PROVE  IInv'
<1>1. ClientTypes /\ ServerTypes
  BY DEF IInv
<1>2. PICK r \in ExecRow, n \in 1..Len(queue[t]) :
           /\ exec' = [exec EXCEPT ![k] = r]
           /\ r.phase = "look" /\ r.at = 1 /\ r.batch = SubSeq(queue[t], 1, n) /\ Len(r.batch) = n
           /\ \A m \in Ids : r.results[m].status = "none"
  BY <1>1, FlushRow
<1>3. exec'[k] = r /\ \A j \in Slots : j # k => exec'[j] = exec[j]
  BY <1>1, <1>2 DEF ServerTypes
<1>4. Len(queue[t]) \in Nat
  BY <1>1, LenProperties DEF ClientTypes
<1>5. ClientTypes'
  BY <1>1 DEF ClientTypes, Flush, Arm
<1>6. ServerTypes'
  BY <1>1, <1>2 DEF ServerTypes, Flush
<1>7. ASSUME NEW j \in Slots PROVE ExecOK(j)'
  <2>1. CASE j = k
    BY <1>2, <1>3, <1>4, <2>1 DEF ExecOK, AtWork
  <2>2. CASE j # k
    <3>1. ExecOK(j)
      BY DEF IInv
    <3>2. exec'[j] = exec[j]
      BY <1>3, <2>2
    <3> QED
      BY <3>1, <3>2 DEF ExecOK, AtWork, CurrentItem
  <2> QED
    BY <2>1, <2>2
<1>8. ASSUME NEW m \in Ids PROVE Unapplied(m)'
  <2>1. \A j \in Slots : exec'[j].results[m].status = "ok" => exec[j].results[m].status = "ok"
    BY <1>2, <1>3
  <2>2. UNCHANGED <<ledger, times, told>> /\ Unapplied(m)
    BY DEF Flush, IInv
  <2> QED
    BY <2>1, <2>2 DEF Unapplied
<1> QED
  BY <1>5, <1>6, <1>7, <1>8 DEF IInv

\* The answer of a flush.
LEMMA AnswerKeeps ==
  ASSUME IInv, NEW t \in Tabs, Answer(t)
  PROVE  IInv'
<1> DEFINE k == flight[t]
<1>1. ClientTypes /\ ServerTypes /\ k \in Slots /\ exec[k] \in ExecRow
  BY DEF IInv, ClientTypes, ServerTypes, Answer
<1>2. /\ store' = [store EXCEPT ![t] = Settle(store[t], exec[k].batch, exec[k].results)]
      /\ queue' = [queue EXCEPT ![t] = Without(queue[t], SeqSet(exec[k].batch))]
      /\ told' = [m \in Ids |-> IF m \in SeqSet(exec[k].batch) THEN exec[k].results[m].status ELSE told[m]]
      /\ exec' = [exec EXCEPT ![k] = Idle]
  BY <1>1 DEF Answer, AnswerLeaving, ClientTypes
<1>3. Settle(store[t], exec[k].batch, exec[k].results) \in Row
  BY <1>1, SettleRow DEF ClientTypes, ExecRow
<1>4. Without(queue[t], SeqSet(exec[k].batch)) \in Seq(Ids)
  BY <1>1, WithoutIsFilter DEF ClientTypes
<1>5. told' \in [Ids -> Statuses]
  BY <1>1, <1>2 DEF ClientTypes, ExecRow, Result
<1>6. store' \in [Tabs -> Row] /\ queue' \in [Tabs -> Seq(Ids)]
  BY <1>1, <1>2, <1>3, <1>4 DEF ClientTypes
<1>11. dirty' \in [Tabs -> BOOLEAN] /\ armed' \in [Tabs -> BOOLEAN] /\ passed' \in [Tabs -> BOOLEAN]
  BY <1>1 DEF ClientTypes, Answer, AnswerLeaving, Persist, Arm
<1>12. /\ UNCHANGED <<minted, mut, idb, db, carried, cursor, kept, forgotten>>
       /\ flight' = [flight EXCEPT ![t] = 0]
  BY DEF Answer, AnswerLeaving
<1>7. ClientTypes'
  BY <1>1, <1>5, <1>6, <1>11, <1>12 DEF ClientTypes
<1>8. exec' \in [Slots -> ExecRow] /\ \A j \in Slots : exec'[j] = exec[j] \/ exec'[j] = Idle
  BY <1>1, <1>2, IdleRow DEF ServerTypes
<1>9. \A m \in Ids : told'[m] = "ok" => told[m] = "ok" \/ \E j \in Slots : exec[j].results[m].status = "ok"
  BY <1>1, <1>2
<1>10. UNCHANGED <<ledger, times, srv, others>> /\ srv' \in SrvRow /\ others' \in 0..MaxOthers
  BY <1>1 DEF Answer, AnswerLeaving, ServerTypes
<1> QED
  BY <1>7, <1>8, <1>9, <1>10, ClientMove

\* A request that fails for the client.
LEMMA LoseAnswerKeeps ==
  ASSUME IInv, NEW t \in Tabs, LoseAnswer(t)
  PROVE  IInv'
<1>1. ClientTypes /\ ServerTypes /\ flight[t] \in Slots
  BY DEF IInv, ClientTypes, LoseAnswer, Fail
<1>2. exec' \in [Slots -> ExecRow] /\ \A j \in Slots : exec'[j] = exec[j] \/ exec'[j] = Idle
  <2>1. exec' = exec \/ exec' = [exec EXCEPT ![flight[t]] = Idle]
    <3>1. exec' = [exec EXCEPT ![flight[t]] = IF exec[flight[t]].phase \in {"done", "dead"} THEN Idle ELSE exec[flight[t]]]
      BY DEF LoseAnswer, Fail
    <3>2. exec = [exec EXCEPT ![flight[t]] = exec[flight[t]]]
      BY <1>1 DEF ServerTypes
    <3> QED
      BY <3>1, <3>2
  <2> QED
    BY <1>1, <2>1, IdleRow DEF ServerTypes
<1>3. ClientTypes'
  BY <1>1 DEF ClientTypes, LoseAnswer, Fail, Arm
<1>4. UNCHANGED <<ledger, times, srv, others, told>> /\ srv' \in SrvRow /\ others' \in 0..MaxOthers
  BY <1>1 DEF LoseAnswer, Fail, ServerTypes
<1> QED
  BY <1>2, <1>3, <1>4, ClientMove

\* pullDelta.
LEMMA PullKeeps ==
  ASSUME IInv, NEW t \in Tabs, Pull(t)
  PROVE  IInv'
<1>1. ClientTypes /\ ServerTypes
  BY DEF IInv
<1>2. RowOf(srv) \in Row /\ srv.ver \in Nat
  BY <1>1 DEF ServerTypes, SrvRow, RowOf, Row
<1>3. ClientTypes'
  BY <1>1, <1>2 DEF ClientTypes, Pull
<1>4. UNCHANGED <<ledger, times, srv, others, told, exec>>
      /\ srv' \in SrvRow /\ others' \in 0..MaxOthers /\ exec' \in [Slots -> ExecRow]
  BY <1>1 DEF Pull, ServerTypes
<1> QED
  BY <1>3, <1>4, ClientMove

\* A saved queue that is replayed holds each of its edits once.
LEMMA ReplayOnce ==
  ASSUME ClientTypes, NEW q \in ReplayOrders(idb)
  PROVE  /\ q \in Seq(Ids) /\ SeqSet(q) = idb
         /\ \A i, j \in 1..Len(q) : i < j => q[i] # q[j] /\ mut[q[i]].stamp <= mut[q[j]].stamp
<1>1. IsFiniteSet(idb) /\ Cardinality(idb) \in Nat
  <2>1. IsFiniteSet(Ids)
    BY MutationQueueAssumption, FS_Interval DEF Ids
  <2>2. IsFiniteSet(idb)
    BY <2>1, FS_Subset DEF ClientTypes
  <2> QED
    BY <2>2, FS_CardinalityType
<1>2. /\ q \in [1..Cardinality(idb) -> idb] /\ SeqSet(q) = idb
      /\ \A i, j \in 1..Cardinality(idb) : i < j => mut[q[i]].stamp <= mut[q[j]].stamp
  BY DEF ReplayOrders
<1>3. q \in Seq(idb) /\ Len(q) = Cardinality(idb)
  BY <1>1, <1>2, SeqDef, LenProperties
<1>4. q \in Seq(Ids)
  BY <1>3, SeqMonotonic DEF ClientTypes
<1>5. q \in Surjection(1..Cardinality(idb), idb)
  BY <1>2, <1>3 DEF Surjection, SeqSet
<1>6. IsFiniteSet(1..Cardinality(idb)) /\ Cardinality(1..Cardinality(idb)) = Cardinality(idb)
  BY <1>1, FS_Interval
<1>7. q \in Injection(1..Cardinality(idb), idb)
  BY <1>5, <1>6, FS_SurjSameCardinalityImpliesInj
<1>8. \A i, j \in 1..Cardinality(idb) : q[i] = q[j] => i = j
  BY <1>7 DEF Injection, IsInjective
<1> QED
  BY <1>1, <1>2, <1>3, <1>4, <1>8

\* The execution a closed tab waited for.
LEMMA ReloadKeeps ==
  ASSUME IInv, NEW t \in Tabs, Reload(t)
  PROVE  IInv'
<1>1. ClientTypes /\ ServerTypes
  BY DEF IInv
<1>2. RowOf(srv) \in Row /\ srv.ver \in Nat
  BY <1>1 DEF ServerTypes, SrvRow, RowOf, Row
<1>3. PICK q \in ReplayOrders(idb) \union {<<>>} :
        /\ Loaded(t, q) \/ Poisoned(t, q) \/ Unreadable(t, q)
        /\ queue' = [queue EXCEPT ![t] = q]
        /\ forgotten' = (forgotten \union Exposed(t) \union idb) \ SeqSet(q)
        /\ Arm(t, q # <<>>)
  BY DEF Reload
<1>4. q \in Seq(Ids) /\ <<>> \in Seq(Ids)
  BY <1>1, ReplayOnce, EmptySeq
<1>9. /\ idb' \subseteq Ids /\ db' \in [Tabs -> {"open", "wiped", "closed"}]
      /\ dirty' \in [Tabs -> BOOLEAN] /\ carried' \in [Tabs -> Seq(Ids)]
  <2>1. CASE Loaded(t, q)
    BY <1>1, <1>4, <2>1 DEF ClientTypes, Loaded
  <2>2. CASE Poisoned(t, q)
    BY <1>1, <1>4, <2>2, DestroyTypes DEF Poisoned
  <2>3. CASE Destroy(t, "closed", <<>>)
    BY <1>1, <1>4, <2>3, DestroyTypes
  <2>4. CASE /\ db' \in {[db EXCEPT ![t] = "open"], [db EXCEPT ![t] = "closed"]}
             /\ dirty' = [dirty EXCEPT ![t] = FALSE]
             /\ carried' = [carried EXCEPT ![t] = <<>>]
             /\ UNCHANGED idb
    BY <1>1, <1>4, <2>4 DEF ClientTypes
  <2> QED
    BY <1>3, <2>1, <2>2, <2>3, <2>4 DEF Unreadable
<1>10. armed' \in [Tabs -> BOOLEAN] /\ passed' \in [Tabs -> BOOLEAN]
  BY <1>1, <1>3 DEF ClientTypes, Arm
<1>11. forgotten' \subseteq Ids
  <2>1. Exposed(t) \subseteq Ids
    BY <1>1, QueueMembers DEF Exposed
  <2> QED
    BY <1>1, <1>3, <2>1 DEF ClientTypes
<1>5. ClientTypes'
  <2>1. /\ UNCHANGED <<minted, mut, kept, told>>
        /\ store' = [store EXCEPT ![t] = RowOf(srv)]
        /\ cursor' = [cursor EXCEPT ![t] = srv.ver]
        /\ flight' = [flight EXCEPT ![t] = 0]
    BY DEF Reload
  <2>2. queue' \in [Tabs -> Seq(Ids)]
    BY <1>1, <1>3, <1>4 DEF ClientTypes
  <2> QED
    BY <1>1, <1>2, <1>9, <1>10, <1>11, <2>1, <2>2 DEF ClientTypes
<1>6. exec' = [k \in Slots |-> IF k = flight[t] /\ exec[k].phase \in {"done", "dead"} THEN Idle ELSE exec[k]]
  BY DEF Reload
<1>7. exec' \in [Slots -> ExecRow] /\ \A j \in Slots : exec'[j] = exec[j] \/ exec'[j] = Idle
  BY <1>1, <1>6, IdleRow DEF ServerTypes
<1>8. UNCHANGED <<ledger, times, srv, others, told>> /\ srv' \in SrvRow /\ others' \in 0..MaxOthers
  BY <1>1 DEF Reload, ServerTypes
<1> QED
  BY <1>5, <1>7, <1>8, ClientMove

\* The ledger lookup.
LEMMA LookupKeeps ==
  ASSUME IInv, NEW k \in Slots, Lookup(k)
  PROVE  IInv'
<1>1. ClientTypes /\ ServerTypes /\ ExecOK(k) /\ AtWork(k)
  BY DEF IInv, Lookup, AtWork
<1>2. /\ exec[k] \in ExecRow /\ exec[k].at \in 1..Len(exec[k].batch)
      /\ Len(exec[k].batch) \in Nat /\ CurrentItem(k) \in Ids
  BY <1>1, ItemRow
<1>3. /\ UNCHANGED <<tabVars, minted, mut, others>>
      /\ ledger' = ledger /\ srv' = srv /\ times' = times
  BY DEF Lookup
<1>4. ledger' \in [Ids -> {"none", "applied", "rejected"}] /\ srv' \in SrvRow /\ times' \in [Ids -> Nat]
  BY <1>1, <1>3 DEF ServerTypes
<1>5. CASE ledger[CurrentItem(k)] = "none"
  <2> DEFINE r == [exec[k] EXCEPT !.phase = "apply"]
  <2>1. exec' = [exec EXCEPT ![k] = r]
    BY <1>5 DEF Lookup
  <2>2. r \in ExecRow /\ r.phase = "apply" /\ r.results = exec[k].results /\ r.batch = exec[k].batch /\ r.at = exec[k].at
    BY <1>2 DEF ExecRow
  <2> HIDE DEF r
  <2>3. exec'[k] = r
    BY <1>1, <2>1 DEF ServerTypes
  <2>4. ExecOK(k)'
    BY <1>1, <2>2, <2>3 DEF ExecOK, AtWork
  <2> QED
    BY <1>3, <1>4, <2>1, <2>2, <2>4, ServerMove
<1>6. CASE ledger[CurrentItem(k)] # "none"
  <2> DEFINE result == [NoResult EXCEPT !.status = IF ledger[CurrentItem(k)] = "rejected" THEN "rejected" ELSE "ok"]
  <2>1. Finish(k, result)
    BY <1>6 DEF Lookup
  <2>2. result \in Result /\ result.status = IF ledger[CurrentItem(k)] = "rejected" THEN "rejected" ELSE "ok"
    BY NoResultRow DEF NoResult, Result, Statuses
  <2> HIDE DEF result
  <2>3. PICK r \in ExecRow :
           /\ exec' = [exec EXCEPT ![k] = r]
           /\ r.results = [exec[k].results EXCEPT ![CurrentItem(k)] = result]
           /\ ExecOK(k)'
    BY <1>1, <2>1, <2>2, FinishMove
  <2>4. ASSUME NEW m \in Ids, times[m] = 0, r.results[m].status = "ok" PROVE exec[k].results[m].status = "ok"
    <3>1. CASE m = CurrentItem(k)
      <4>1. result.status = "ok"
        BY <1>2, <2>3, <2>4, <3>1 DEF ExecRow
      <4>2. ledger[m] = "applied"
        BY <1>1, <1>2, <1>6, <2>2, <3>1, <4>1 DEF ServerTypes
      <4>3. FALSE
        BY <2>4, <4>2 DEF IInv, Unapplied
      <4> QED
        BY <4>3
    <3>2. CASE m # CurrentItem(k)
      BY <1>2, <2>3, <2>4, <3>2 DEF ExecRow
    <3> QED
      BY <3>1, <3>2
  <2> QED
    BY <1>3, <1>4, <2>3, <2>4, ServerMove
<1> QED
  BY <1>5, <1>6

\* applyOp succeeds.
LEMMA ApplyKeeps ==
  ASSUME IInv, NEW k \in Slots, Apply(k)
  PROVE  IInv'
<1>1. ClientTypes /\ ServerTypes /\ ExecOK(k) /\ AtWork(k)
  BY DEF IInv, Apply, AtWork
<1>2. /\ exec[k] \in ExecRow /\ exec[k].at \in 1..Len(exec[k].batch)
      /\ Len(exec[k].batch) \in Nat /\ CurrentItem(k) \in Ids
      /\ \A i \in 1..Len(exec[k].batch) : exec[k].batch[i] \in Ids
  BY <1>1, ItemRow
<1> DEFINE item == CurrentItem(k)
<1> DEFINE result == [status |-> "ok", hasRow |-> TRUE, row |-> RowOf(srv')]
<1>3. UNCHANGED <<tabVars, minted, mut, others, ledger>>
  BY DEF Apply
<1>4. srv' \in SrvRow
  <2>1. item \in Values
    BY <1>2, MutationQueueAssumption DEF Ids, Values
  <2>2. srv' = [ver |-> srv.ver + 1, exists |-> TRUE,
                val |-> [f \in Fields |-> IF mut[item].op = "create" \/ f = mut[item].field THEN item ELSE srv.val[f]]]
    BY DEF Apply
  <2> HIDE DEF item
  <2> QED
    BY <1>1, <2>1, <2>2 DEF ServerTypes, SrvRow
<1>5. result \in Result
  BY <1>4 DEF SrvRow, Result, Statuses, RowOf, Row
<1>6. times' \in [Ids -> Nat] /\ \A m \in Ids : times'[m] = 0 => times[m] = 0 /\ m # item
  <2>1. times' = [times EXCEPT ![item] = times[item] + 1]
    BY DEF Apply
  <2> HIDE DEF item
  <2> QED
    BY <1>1, <1>2, <2>1 DEF ServerTypes, item
<1> DEFINE results == [exec[k].results EXCEPT ![item] = result]
<1> DEFINE r == [exec[k] EXCEPT !.phase = "applied", !.results = results]
<1>7. exec' = [exec EXCEPT ![k] = r]
  BY <1>1, <1>2 DEF Apply, ServerTypes, ExecRow
<1>8. results \in [Ids -> Result] /\ \A m \in Ids : results[m] = IF m = item THEN result ELSE exec[k].results[m]
  <2> HIDE DEF item, result
  <2> QED
    BY <1>2, <1>5 DEF ExecRow
<1> HIDE DEF results
<1>9. r \in ExecRow /\ r.phase = "applied" /\ r.results = results /\ r.batch = exec[k].batch /\ r.at = exec[k].at
  BY <1>2, <1>8 DEF ExecRow
<1>10. result.status = "ok"
  OBVIOUS
<1> HIDE DEF r, result
<1>11. exec'[k] = r
  BY <1>1, <1>7 DEF ServerTypes
<1>12. ExecOK(k)'
  <2>1. ASSUME NEW i \in 1..(exec[k].at - 1) PROVE results[exec[k].batch[i]].status # "none"
    <3>1. exec[k].batch[i] \in Ids
      BY <1>2
    <3>2. exec[k].results[exec[k].batch[i]].status # "none"
      BY <1>1 DEF ExecOK
    <3> QED
      BY <1>8, <1>10, <3>1, <3>2
  <2>2. results[exec[k].batch[exec[k].at]].status = "ok"
    BY <1>2, <1>8, <1>10 DEF CurrentItem
  <2> QED
    BY <1>2, <1>9, <1>11, <2>1, <2>2 DEF ExecOK, AtWork, CurrentItem
<1>13. ASSUME NEW m \in Ids, times'[m] = 0, r.results[m].status = "ok" PROVE exec[k].results[m].status = "ok"
  BY <1>6, <1>8, <1>9, <1>13
<1>14. ledger' \in [Ids -> {"none", "applied", "rejected"}]
  BY <1>1, <1>3 DEF ServerTypes
<1> QED
  BY <1>3, <1>4, <1>6, <1>7, <1>9, <1>12, <1>13, <1>14, ServerMove

\* applyOp throws.
LEMMA RefuseKeeps ==
  ASSUME IInv, NEW k \in Slots, Refuse(k)
  PROVE  IInv'
<1>1. ClientTypes /\ ServerTypes /\ ExecOK(k) /\ AtWork(k)
  BY DEF IInv, Refuse, AtWork
<1>2. exec[k] \in ExecRow
  BY <1>1 DEF ServerTypes
<1>3. UNCHANGED <<tabVars, minted, mut, others, ledger, srv, times>>
  BY DEF Refuse
<1>4. ledger' \in [Ids -> {"none", "applied", "rejected"}] /\ srv' \in SrvRow /\ times' \in [Ids -> Nat]
  BY <1>1, <1>3 DEF ServerTypes
<1> DEFINE r == [exec[k] EXCEPT !.phase = "refused"]
<1>5. exec' = [exec EXCEPT ![k] = r]
  BY DEF Refuse
<1>6. r \in ExecRow /\ r.phase = "refused" /\ r.results = exec[k].results /\ r.batch = exec[k].batch /\ r.at = exec[k].at
  BY <1>2 DEF ExecRow
<1> HIDE DEF r
<1>7. exec'[k] = r
  BY <1>1, <1>5 DEF ServerTypes
<1>8. ExecOK(k)'
  BY <1>1, <1>6, <1>7 DEF ExecOK, AtWork
<1> QED
  BY <1>3, <1>4, <1>5, <1>6, <1>8, ServerMove

\* The ledger row is written, or cannot be.
LEMMA RecordKeeps ==
  ASSUME IInv, NEW k \in Slots, Record(k) \/ RecordFails(k)
  PROVE  IInv'
<1>1. ClientTypes /\ ServerTypes /\ ExecOK(k) /\ AtWork(k)
  BY DEF IInv, Record, RecordFails, AtWork
<1>2. exec[k] \in ExecRow /\ CurrentItem(k) \in Ids
  BY <1>1, ItemRow
<1> DEFINE rejection == [NoResult EXCEPT !.status = "rejected"]
<1>3. UNCHANGED <<tabVars, minted, mut, others, srv, times>>
  BY DEF Record, RecordFails
<1>4. srv' \in SrvRow /\ times' \in [Ids -> Nat]
  BY <1>1, <1>3 DEF ServerTypes
<1>5. rejection \in Result /\ rejection.status = "rejected"
  BY NoResultRow DEF NoResult, Result, Statuses
<1> HIDE DEF rejection
<1>6. \A s \in {"applied", "rejected"} :
         /\ Recorded(CurrentItem(k), s) \in [Ids -> {"none", "applied", "rejected"}]
         /\ \A m \in Ids : Recorded(CurrentItem(k), s)[m] = ledger[m]
                           \/ (m = CurrentItem(k) /\ Recorded(CurrentItem(k), s)[m] = s)
  BY <1>1, <1>2 DEF Recorded, ServerTypes
<1>7. CASE exec[k].phase = "applied" /\ ledger' = Recorded(CurrentItem(k), "applied")
           /\ Finish(k, exec[k].results[CurrentItem(k)])
  <2>1. exec[k].results[CurrentItem(k)] \in Result /\ exec[k].results[CurrentItem(k)].status = "ok"
    BY <1>1, <1>2, <1>7 DEF ExecOK, ExecRow
  <2>2. PICK r \in ExecRow :
           /\ exec' = [exec EXCEPT ![k] = r]
           /\ r.results = [exec[k].results EXCEPT ![CurrentItem(k)] = exec[k].results[CurrentItem(k)]]
           /\ ExecOK(k)'
    BY <1>1, <1>7, <2>1, FinishMove
  <2>3. r.results = exec[k].results
    BY <1>2, <2>2 DEF ExecRow
  <2>4. ASSUME NEW m \in Ids, times[m] = 0, ledger'[m] = "applied" PROVE ledger[m] = "applied"
    <3>1. m # CurrentItem(k)
      BY <1>1, <2>1, <2>4 DEF IInv, Unapplied
    <3> QED
      BY <1>6, <1>7, <2>4, <3>1
  <2>5. ledger' \in [Ids -> {"none", "applied", "rejected"}]
    BY <1>6, <1>7
  <2> QED
    BY <1>3, <1>4, <2>2, <2>3, <2>4, <2>5, ServerMove
<1>8. CASE Finish(k, rejection) /\ (ledger' = Recorded(CurrentItem(k), "rejected") \/ UNCHANGED ledger)
  <2>1. PICK r \in ExecRow :
           /\ exec' = [exec EXCEPT ![k] = r]
           /\ r.results = [exec[k].results EXCEPT ![CurrentItem(k)] = rejection]
           /\ ExecOK(k)'
    BY <1>1, <1>5, <1>8, FinishMove
  <2>2. \A m \in Ids : r.results[m].status = "ok" => exec[k].results[m].status = "ok"
    BY <1>2, <1>5, <2>1 DEF ExecRow
  <2>3. /\ ledger' \in [Ids -> {"none", "applied", "rejected"}]
        /\ \A m \in Ids : ledger'[m] = "applied" => ledger[m] = "applied"
    BY <1>1, <1>6, <1>8 DEF ServerTypes
  <2> QED
    BY <1>3, <1>4, <2>1, <2>2, <2>3, ServerMove
<1> QED
  BY <1>7, <1>8 DEF Record, RecordFails, rejection

\* An execution dies or ends unheard.
LEMMA EndKeeps ==
  ASSUME IInv, NEW k \in Slots, Crash(k) \/ Discard(k)
  PROVE  IInv'
<1>1. ClientTypes /\ ServerTypes
  BY DEF IInv
<1>2. exec' = [exec EXCEPT ![k] = Idle] \/ exec' = [exec EXCEPT ![k] = [Idle EXCEPT !.phase = "dead"]]
  BY DEF Crash, Discard
<1>3. /\ exec' \in [Slots -> ExecRow]
      /\ \A j \in Slots : exec'[j] = exec[j] \/ exec'[j] = Idle \/ exec'[j] = [Idle EXCEPT !.phase = "dead"]
  BY <1>1, <1>2, IdleRow DEF ServerTypes
<1>4. UNCHANGED <<tabVars, minted, mut, ledger, srv, others, times>>
  BY DEF Crash, Discard
<1>5. ClientTypes' /\ srv' \in SrvRow /\ others' \in 0..MaxOthers /\ told' = told
  BY <1>1, <1>4 DEF ClientTypes, ServerTypes, tabVars
<1> QED
  BY <1>3, <1>4, <1>5, ClientMove

\* The nightly prune.
LEMMA ExpireKeeps ==
  ASSUME IInv, ExpireLedger
  PROVE  IInv'
<1>1. ClientTypes /\ ServerTypes
  BY DEF IInv
<1>2. /\ UNCHANGED <<tabVars, minted, mut, exec, srv, others, times>>
      /\ ledger' = [m \in Ids |-> "none"]
  BY DEF ExpireLedger
<1>3. ClientTypes' /\ ServerTypes' /\ told' = told
  BY <1>1, <1>2 DEF ClientTypes, ServerTypes, tabVars
<1>4. ASSUME NEW j \in Slots PROVE ExecOK(j)'
  <2>1. ExecOK(j)
    BY DEF IInv
  <2> QED
    BY <1>2, <2>1 DEF ExecOK, AtWork, CurrentItem
<1>5. ASSUME NEW m \in Ids PROVE Unapplied(m)'
  <2>1. Unapplied(m)
    BY DEF IInv
  <2> QED
    BY <1>2, <1>3, <2>1 DEF Unapplied
<1> QED
  BY <1>3, <1>4, <1>5 DEF IInv

\* Another user's edit.
LEMMA OtherKeeps ==
  ASSUME IInv, NEW f \in Fields, OtherEdit(f)
  PROVE  IInv'
<1>1. ClientTypes /\ ServerTypes
  BY DEF IInv
<1>2. /\ UNCHANGED <<tabVars, minted, mut, exec, ledger, times>>
      /\ others' = others + 1 /\ others < MaxOthers
      /\ srv' = [srv EXCEPT !.ver = srv.ver + 1, !.val[f] = MaxEdits + others + 1]
  BY DEF OtherEdit
<1>3. others' \in 0..MaxOthers /\ MaxEdits + others + 1 \in Values
  BY <1>1, <1>2, MutationQueueAssumption DEF ServerTypes, Values
<1>4. srv' \in SrvRow
  <2>1. srv \in SrvRow
    BY <1>1 DEF ServerTypes
  <2>2. ASSUME NEW v \in Values PROVE [srv EXCEPT !.ver = srv.ver + 1, !.val[f] = v] \in SrvRow
    <3>1. [srv.val EXCEPT ![f] = v] \in [Fields -> Values] /\ srv.ver + 1 \in Nat
      BY <2>1 DEF SrvRow
    <3>2. [srv EXCEPT !.ver = srv.ver + 1, !.val[f] = v]
             = [srv EXCEPT !.ver = srv.ver + 1, !.val = [srv.val EXCEPT ![f] = v]]
      BY <2>1 DEF SrvRow
    <3> QED
      BY <2>1, <3>1, <3>2 DEF SrvRow
  <2> QED
    BY <1>2, <1>3, <2>2
<1>5. ClientTypes' /\ exec' \in [Slots -> ExecRow] /\ told' = told
  BY <1>1, <1>2 DEF ClientTypes, ServerTypes, tabVars
<1> QED
  BY <1>2, <1>3, <1>4, <1>5, ClientMove

\* Every step.
LEMMA NextKeeps ==
  ASSUME IInv, [Next]_vars
  PROVE  IInv'
<1>1. ASSUME NEW t \in Tabs, Create(t) \/ \E f \in Fields : Update(t, f) PROVE IInv'
  BY <1>1, EditKeeps
<1>2. ASSUME NEW t \in Tabs, SavePending(t) \/ SaveCarried(t) PROVE IInv'
  BY <1>2, SaveKeeps
<1>10. ASSUME NEW t \in Tabs, FlushReturns(t) \/ Online(t) \/ Reset(t) \/ Reopen(t) PROVE IInv'
  BY <1>10, TimerKeeps, ResetKeeps
<1>3. ASSUME NEW t \in Tabs, NEW k \in Slots, Flush(t, k) PROVE IInv'
  BY <1>3, FlushKeeps
<1>4. ASSUME NEW t \in Tabs, Answer(t) \/ LoseAnswer(t) \/ Pull(t) \/ Reload(t) PROVE IInv'
  BY <1>4, AnswerKeeps, LoseAnswerKeeps, PullKeeps, ReloadKeeps
<1>5. ASSUME NEW k \in Slots, Lookup(k) \/ Apply(k) \/ Refuse(k) PROVE IInv'
  BY <1>5, LookupKeeps, ApplyKeeps, RefuseKeeps
<1>6. ASSUME NEW k \in Slots, Record(k) \/ RecordFails(k) \/ Crash(k) \/ Discard(k) PROVE IInv'
  BY <1>6, RecordKeeps, EndKeeps
<1>7. CASE ExpireLedger
  BY <1>7, ExpireKeeps
<1>8. ASSUME NEW f \in Fields, OtherEdit(f) PROVE IInv'
  BY <1>8, OtherKeeps
<1>9. CASE UNCHANGED vars
  BY <1>9 DEF vars, IInv, ClientTypes, ServerTypes, ExecOK, AtWork, CurrentItem, Unapplied
<1> QED
  BY <1>1, <1>2, <1>3, <1>4, <1>5, <1>6, <1>7, <1>8, <1>9, <1>10 DEF Next

\* No tab has edits, no request runs.
LEMMA InitHolds == Init => IInv
<1> SUFFICES ASSUME Init PROVE IInv
  OBVIOUS
<1>1. NoRow \in Row /\ Idle \in ExecRow /\ <<>> \in Seq(Ids)
  BY MutationQueueAssumption, IdleRow, EmptySeq DEF NoRow, Row, Values
<1>2. Unmade \in MutRow
  BY <1>1 DEF Unmade, MutRow
<1>3. ClientTypes
  BY <1>1, <1>2, MutationQueueAssumption DEF Init, ClientTypes, Statuses
<1>4. ServerTypes
  BY <1>1, MutationQueueAssumption DEF Init, ServerTypes, SrvRow, Row, NoRow
<1>5. \A k \in Slots : ExecOK(k)
  BY DEF Init, ExecOK, AtWork, Idle
<1>6. \A m \in Ids : Unapplied(m)
  BY DEF Init, Unapplied, Idle, NoResult
<1> QED
  BY <1>3, <1>4, <1>5, <1>6 DEF IInv

\* The types, the places executions are at, and nothing acknowledged that was not applied.
THEOREM Inductive == Spec => []IInv
<1>1. Init => IInv
  BY InitHolds
<1>2. IInv /\ [Next]_vars => IInv'
  BY NextKeeps
<1> QED
  BY <1>1, <1>2, PTL DEF Spec

\* The type invariant.
THEOREM TypeCorrect == Spec => []TypeOK
<1>1. IInv => TypeOK
  BY DEF IInv, ClientTypes, ServerTypes, TypeOK, MutRow, ExecRow, Result, Statuses, SrvRow
<1> QED
  BY <1>1, Inductive, PTL

\* An edit the client was told is done has been applied.
THEOREM AcksAreReal == Spec => []AckedMeansApplied
<1>1. IInv => AckedMeansApplied
  <2> SUFFICES ASSUME IInv, NEW m \in Ids, told[m] = "ok" PROVE times[m] > 0
    BY DEF AckedMeansApplied
  <2>1. times[m] \in Nat /\ times[m] # 0
    BY DEF IInv, ServerTypes, Unapplied
  <2> QED
    BY <2>1
<1> QED
  BY <1>1, Inductive, PTL

-----------------------------------------------------------------------------
(* One tab: what is saved survives. *)

\* Appending keeps the members of a sequence.
LEMMA AppendMembers ==
  ASSUME NEW q \in Seq(Ids), NEW e \in Ids
  PROVE  SeqSet(Append(q, e)) = SeqSet(q) \union {e}
<1>1. Len(q) \in Nat /\ Len(Append(q, e)) = Len(q) + 1 /\ Append(q, e)[Len(q) + 1] = e
      /\ \A i \in 1..Len(q) : Append(q, e)[i] = q[i]
  BY AppendProperties, LenProperties
<1>2. ASSUME NEW m \in SeqSet(Append(q, e)) PROVE m \in SeqSet(q) \union {e}
  <2>1. PICK i \in 1..Len(Append(q, e)) : m = Append(q, e)[i]
    BY DEF SeqSet
  <2>2. CASE i = Len(q) + 1
    BY <1>1, <2>1, <2>2
  <2>3. CASE i # Len(q) + 1
    <3>1. i \in 1..Len(q)
      BY <1>1, <2>3
    <3> QED
      BY <1>1, <2>1, <3>1 DEF SeqSet
  <2> QED
    BY <2>2, <2>3
<1>3. ASSUME NEW m \in SeqSet(q) PROVE m \in SeqSet(Append(q, e))
  <2>1. PICK i \in 1..Len(q) : m = q[i]
    BY DEF SeqSet
  <2>2. i \in 1..Len(Append(q, e)) /\ Append(q, e)[i] = m
    BY <1>1, <2>1
  <2> QED
    BY <2>2 DEF SeqSet
<1>4. e \in SeqSet(Append(q, e))
  <2>1. Len(q) + 1 \in 1..Len(Append(q, e))
    BY <1>1
  <2> QED
    BY <1>1, <2>1 DEF SeqSet
<1> QED
  BY <1>2, <1>3, <1>4

\* The empty sequence has no members.
LEMMA EmptySet == SeqSet(<<>>) = {}
<1>1. Len(<<>>) = 0
  BY EmptySeq
<1> QED
  BY <1>1 DEF SeqSet

\* An edit.
LEMMA EditSaved ==
  ASSUME NEW t, Tabs = {t}, IInv, Saved(t), NEW op, NEW f, NEW patched, Enqueue(t, op, f, patched)
  PROVE  Saved(t)'
<1>1. ClientTypes /\ queue[t] \in Seq(Ids) /\ carried[t] \in Seq(Ids)
  BY DEF IInv, ClientTypes
<1>2. /\ UNCHANGED <<kept, told, idb, db, forgotten>>
      /\ queue' = [queue EXCEPT ![t] = Append(queue[t], minted + 1)]
      /\ carried' = [carried EXCEPT ![t] = IF db[t] = "wiped" /\ carried[t] = queue[t]
                                           THEN Append(carried[t], minted + 1) ELSE carried[t]]
      /\ dirty' = [dirty EXCEPT ![t] = dirty[t] \/ db[t] = "open"]
  BY DEF Enqueue, Persist
<1>3. minted + 1 \in Ids
  BY <1>1, MutationQueueAssumption DEF Enqueue, ClientTypes, Ids
<1>4. queue'[t] = Append(queue[t], minted + 1) /\ SeqSet(queue'[t]) = SeqSet(queue[t]) \union {minted + 1}
  BY <1>1, <1>2, <1>3, AppendMembers DEF ClientTypes
<1>5. \/ carried'[t] = carried[t]
      \/ db[t] = "wiped" /\ SeqSet(carried'[t]) = SeqSet(carried[t]) \union {minted + 1}
  <2>1. CASE db[t] = "wiped" /\ carried[t] = queue[t]
    <3>1. carried'[t] = Append(carried[t], minted + 1)
      BY <1>1, <1>2, <2>1 DEF ClientTypes
    <3> QED
      BY <1>1, <1>3, <2>1, <3>1, AppendMembers
  <2>2. CASE ~(db[t] = "wiped" /\ carried[t] = queue[t])
    BY <1>1, <1>2, <2>2 DEF ClientTypes
  <2> QED
    BY <2>1, <2>2
<1>6. ASSUME NEW m, Backed(t, m) PROVE Backed(t, m)'
  <2>1. CASE carried'[t] = carried[t]
    BY <1>2, <1>6, <2>1 DEF Backed
  <2>2. CASE db[t] = "wiped" /\ SeqSet(carried'[t]) = SeqSet(carried[t]) \union {minted + 1}
    BY <1>2, <1>6, <2>2 DEF Backed
  <2> QED
    BY <1>5, <2>1, <2>2
<1>7. ASSUME NEW m \in kept PROVE told[m] # "none" \/ m \in forgotten \/ (m \in SeqSet(queue'[t]) /\ Backed(t, m)')
  <2>1. told[m] # "none" \/ m \in forgotten \/ (m \in SeqSet(queue[t]) /\ Backed(t, m))
    BY Zenon DEF Saved
  <2>2. SeqSet(queue[t]) \subseteq SeqSet(queue'[t])
    BY <1>4
  <2> QED
    BY <1>6, <2>1, <2>2, Zenon
<1>8. ASSUME NEW m \in SeqSet(carried'[t]) PROVE told[m] # "none" \/ m \in SeqSet(queue'[t])
  <2>1. m \in SeqSet(carried[t]) \/ m = minted + 1
    BY <1>5
  <2> QED
    BY <1>4, <2>1 DEF Saved
<1>9. dirty'[t] => db'[t] = "open"
  BY <1>1, <1>2, Zenon DEF Saved, ClientTypes
<1> QED
  BY <1>2, <1>7, <1>8, <1>9 DEF Saved

\* The two saves.
LEMMA SaveSaved ==
  ASSUME NEW t, Tabs = {t}, IInv, Saved(t), SavePending(t) \/ SaveCarried(t)
  PROVE  Saved(t)'
<1>1. ClientTypes /\ carried[t] \in Seq(Ids)
  BY DEF IInv, ClientTypes
<1>2. CASE SavePending(t)
  <2>1. /\ UNCHANGED <<told, db, forgotten, queue, carried>>
        /\ dirty' = [dirty EXCEPT ![t] = FALSE]
        /\ carried[t] = <<>> /\ idb' = SeqSet(queue[t]) /\ kept' = kept \union SeqSet(queue[t])
    BY <1>2 DEF SavePending
  <2>2. ASSUME NEW m \in SeqSet(queue[t]) PROVE Backed(t, m)' \/ db[t] = "wiped"
    <3>1. db[t] \in {"open", "wiped", "closed"}
      BY <1>1 DEF ClientTypes
    <3> QED
      BY <2>1, <2>2, <3>1 DEF Backed
  <2>3. CASE db[t] # "wiped"
    <3>1. ASSUME NEW m \in kept' PROVE told[m] # "none" \/ m \in forgotten \/ (m \in SeqSet(queue[t]) /\ Backed(t, m)')
      <4>1. m \in SeqSet(queue[t]) \/ m \in kept
        BY <2>1
      <4>2. CASE m \in SeqSet(queue[t])
        BY <2>2, <2>3, <4>2, Zenon
      <4>3. CASE m \in kept
        BY <2>2, <2>3, <4>3, Zenon DEF Saved
      <4> QED
        BY <4>1, <4>2, <4>3
    <3>2. dirty'[t] = FALSE
      BY <1>1, <2>1 DEF ClientTypes
    <3> QED
      BY <2>1, <3>1, <3>2 DEF Saved
  <2>4. CASE db[t] = "wiped"
    <3>1. dirty[t]
      BY <1>2 DEF SavePending
    <3> QED
      BY <2>4, <3>1 DEF Saved
  <2> QED
    BY <2>3, <2>4
<1>3. CASE SaveCarried(t)
  <2>1. /\ UNCHANGED <<told, db, forgotten, queue, dirty>>
        /\ db[t] = "open" /\ carried[t] # <<>>
        /\ idb' = SeqSet(carried[t]) /\ kept' = kept \union SeqSet(carried[t])
        /\ carried' = [carried EXCEPT ![t] = <<>>]
    BY <1>3 DEF SaveCarried
  <2>2. carried'[t] = <<>> /\ SeqSet(carried'[t]) = {}
    BY <1>1, <2>1, EmptySet DEF ClientTypes
  <2>3. ASSUME NEW m \in SeqSet(carried[t]) PROVE Backed(t, m)'
    BY <2>1, <2>2, <2>3 DEF Backed
  <2>4. ASSUME NEW m \in kept' PROVE told[m] # "none" \/ m \in forgotten \/ (m \in SeqSet(queue[t]) /\ Backed(t, m)')
    <3>1. CASE m \in SeqSet(carried[t])
      BY <2>3, <3>1, Zenon DEF Saved
    <3>2. CASE m \in kept
      <4>1. Backed(t, m) => m \in SeqSet(carried[t])
        BY <2>1 DEF Backed
      <4> QED
        BY <2>3, <3>2, <4>1, Zenon DEF Saved
    <3> QED
      BY <2>1, <3>1, <3>2
  <2> QED
    BY <2>1, <2>2, <2>4 DEF Saved
<1> QED
  BY <1>2, <1>3

\* The two steps of a reset.
LEMMA ResetSaved ==
  ASSUME NEW t, Tabs = {t}, IInv, Saved(t), Reset(t) \/ Reopen(t)
  PROVE  Saved(t)'
<1>1. ClientTypes /\ queue[t] \in Seq(Ids) /\ <<>> \in Seq(Ids)
  BY EmptySeq DEF IInv, ClientTypes
<1>2. UNCHANGED <<kept, told, forgotten, queue>>
  BY DEF Reset, Reopen
<1>3. CASE Reset(t)
  <2>1. Destroy(t, "wiped", queue[t])
    BY <1>3 DEF Reset
  <2>2. db'[t] = "wiped" /\ carried'[t] = queue[t]
    BY <1>1, <2>1, DestroyTypes
  <2>3. dirty'[t] = FALSE
    BY <2>1 DEF Destroy
  <2>4. \A m : Backed(t, m)' <=> m \in SeqSet(queue[t])
    BY <2>2 DEF Backed
  <2> QED
    BY <1>2, <2>2, <2>3, <2>4 DEF Saved
<1>4. CASE /\ db[t] = "wiped" /\ db' = [db EXCEPT ![t] = "open"]
           /\ UNCHANGED <<idb, dirty, carried>>
  <2>1. db'[t] = "open"
    BY <1>1, <1>4 DEF ClientTypes
  <2>2. \A m : Backed(t, m) => Backed(t, m)'
    BY <1>4, <2>1, EmptySet DEF Backed
  <2> QED
    BY <1>2, <1>4, <2>1, <2>2 DEF Saved
<1>5. CASE Destroy(t, "closed", <<>>)
  <2>1. db'[t] = "closed" /\ carried'[t] = <<>>
    BY <1>1, <1>5, DestroyTypes
  <2>2. dirty'[t] = FALSE
    BY <1>5 DEF Destroy
  <2>3. \A m : Backed(t, m)'
    BY <2>1 DEF Backed
  <2> QED
    BY <1>2, <2>1, <2>2, <2>3, EmptySet DEF Saved
<1> QED
  BY <1>3, <1>4, <1>5 DEF Reopen

\* The answered edits leave the queue.
LEMMA AnswerSaved ==
  ASSUME NEW t, Tabs = {t}, IInv, Saved(t), Answer(t)
  PROVE  Saved(t)'
<1> DEFINE k == flight[t]
<1>1. /\ ClientTypes /\ queue[t] \in Seq(Ids) /\ SeqSet(carried[t]) \subseteq Ids
      /\ k \in Slots /\ exec[k] \in ExecRow /\ exec[k].phase = "done"
  BY ElementOfSeq DEF IInv, ClientTypes, ServerTypes, Answer, AnswerLeaving, SeqSet
<1>2. /\ UNCHANGED <<kept, idb, db, carried, forgotten>>
      /\ queue' = [queue EXCEPT ![t] = Without(queue[t], SeqSet(exec[k].batch))]
      /\ told' = [m \in Ids |-> IF m \in SeqSet(exec[k].batch) THEN exec[k].results[m].status ELSE told[m]]
      /\ dirty' = [dirty EXCEPT ![t] = dirty[t] \/ db[t] = "open"]
  BY <1>1 DEF Answer, AnswerLeaving, Persist
<1>3. SeqSet(queue'[t]) = SeqSet(queue[t]) \ SeqSet(exec[k].batch)
  BY <1>1, <1>2, WithoutIsFilter DEF ClientTypes
<1>4. \A m \in SeqSet(exec[k].batch) : exec[k].results[m].status # "none"
  <2>1. ExecOK(k)
    BY <1>1 DEF IInv
  <2> QED
    BY <1>1, <2>1 DEF ExecOK, SeqSet
<1> HIDE DEF k
<1>5. \A m \in Ids : told[m] # "none" \/ m \in SeqSet(queue[t]) => told'[m] # "none" \/ m \in SeqSet(queue'[t])
  BY <1>2, <1>3, <1>4
<1>6. \A m \in Ids : told[m] # "none" => told'[m] # "none"
  BY <1>2, <1>4
<1>7. \A m : Backed(t, m) <=> Backed(t, m)'
  BY <1>2 DEF Backed
<1>8. ASSUME NEW m \in kept PROVE told'[m] # "none" \/ m \in forgotten \/ (m \in SeqSet(queue'[t]) /\ Backed(t, m)')
  <2>1. m \in Ids
    BY <1>1 DEF ClientTypes
  <2>2. told[m] # "none" \/ m \in forgotten \/ (m \in SeqSet(queue[t]) /\ Backed(t, m))
    BY Zenon DEF Saved
  <2> QED
    BY <1>5, <1>6, <1>7, <2>1, <2>2, Zenon
<1>9. dirty'[t] => db'[t] = "open"
  BY <1>1, <1>2, Zenon DEF Saved, ClientTypes
<1>10. \A m \in SeqSet(carried[t]) : told'[m] # "none" \/ m \in SeqSet(queue'[t])
  BY <1>1, <1>5 DEF Saved
<1> QED
  BY <1>2, <1>8, <1>9, <1>10 DEF Saved

\* The tab is opened again.
LEMMA ReloadSaved ==
  ASSUME NEW t, Tabs = {t}, IInv, Saved(t), Reload(t)
  PROVE  Saved(t)'
<1>1. ClientTypes /\ <<>> \in Seq(Ids)
  BY EmptySeq DEF IInv, ClientTypes
<1>2. PICK q \in ReplayOrders(idb) \union {<<>>} :
        /\ Loaded(t, q) \/ Poisoned(t, q) \/ Unreadable(t, q)
        /\ queue' = [queue EXCEPT ![t] = q]
        /\ forgotten' = (forgotten \union Exposed(t) \union idb) \ SeqSet(q)
  BY DEF Reload
<1>3. q \in Seq(Ids) /\ SeqSet(q) \subseteq idb
  BY <1>1, ReplayOnce, EmptySet
<1>4. queue'[t] = q /\ UNCHANGED <<kept, told>>
  BY <1>1, <1>2 DEF ClientTypes, Reload
<1>5. /\ dirty'[t] = FALSE
      /\ SeqSet(carried'[t]) \subseteq SeqSet(q)
      /\ \A m \in SeqSet(q) : Backed(t, m)'
  <2>1. CASE Loaded(t, q)
    <3>1. db'[t] = "open" /\ dirty'[t] = FALSE /\ carried'[t] = <<>> /\ idb' = idb
      BY <1>1, <2>1 DEF ClientTypes, Loaded
    <3> QED
      BY <1>3, <3>1, EmptySet DEF Backed
  <2>2. CASE Destroy(t, "open", q)
    <3>1. carried'[t] = q /\ db'[t] = "open"
      BY <1>1, <1>3, <2>2, DestroyTypes
    <3>2. dirty'[t] = FALSE
      BY <2>2 DEF Destroy
    <3>3. ASSUME NEW m \in SeqSet(q) PROVE Backed(t, m)'
      <4>1. q # <<>>
        BY <3>3, EmptySet
      <4> QED
        BY <3>1, <3>3, <4>1 DEF Backed
    <3> QED
      BY <3>1, <3>2, <3>3
  <2>3. CASE Destroy(t, "closed", <<>>)
    <3>1. carried'[t] = <<>> /\ db'[t] = "closed"
      BY <1>1, <2>3, DestroyTypes
    <3>2. dirty'[t] = FALSE
      BY <2>3 DEF Destroy
    <3> QED
      BY <3>1, <3>2, EmptySet DEF Backed
  <2>4. CASE /\ q = <<>>
             /\ dirty' = [dirty EXCEPT ![t] = FALSE]
             /\ carried' = [carried EXCEPT ![t] = <<>>]
    <3>1. carried'[t] = <<>> /\ dirty'[t] = FALSE
      BY <1>1, <2>4 DEF ClientTypes
    <3> QED
      BY <2>4, <3>1, EmptySet
  <2> QED
    BY <1>2, <2>1, <2>2, <2>3, <2>4 DEF Poisoned, Unreadable
<1>6. ASSUME NEW m \in kept PROVE told[m] # "none" \/ m \in forgotten' \/ m \in SeqSet(q)
  <2>1. told[m] # "none" \/ m \in forgotten \/ (m \in SeqSet(queue[t]) /\ Backed(t, m))
    BY Zenon DEF Saved
  <2>2. ASSUME m \in SeqSet(queue[t]), Backed(t, m) PROVE m \in Exposed(t) \/ m \in idb
    BY <2>2 DEF Backed, Exposed
  <2>3. m \in forgotten \/ m \in Exposed(t) \/ m \in idb => m \in forgotten' \/ m \in SeqSet(q)
    BY <1>2
  <2> QED
    BY <2>1, <2>2, <2>3, Zenon
<1> QED
  BY <1>4, <1>5, <1>6 DEF Saved

\* Every step keeps what is saved, in IndexedDB and in the queue, or answers it.
LEMMA SavedKept ==
  ASSUME NEW t, Tabs = {t}, IInv, Saved(t), [Next]_vars
  PROVE  Saved(t)'
<1>1. ASSUME UNCHANGED <<queue, dirty, idb, db, carried, kept, told, forgotten>> PROVE Saved(t)'
  BY <1>1 DEF Saved, Backed
<1>2. CASE Create(t) \/ \E f \in Fields : Update(t, f)
  BY <1>2, EditSaved DEF Create, Update
<1>3. CASE SavePending(t) \/ SaveCarried(t)
  BY <1>3, SaveSaved
<1>4. CASE Answer(t)
  BY <1>4, AnswerSaved
<1>5. CASE Reset(t) \/ Reopen(t)
  BY <1>5, ResetSaved
<1>6. CASE Reload(t)
  BY <1>6, ReloadSaved
<1>7. CASE LoseAnswer(t) \/ Pull(t) \/ FlushReturns(t) \/ Online(t) \/ \E k \in Slots : Flush(t, k)
  BY <1>1, <1>7 DEF LoseAnswer, Fail, Pull, FlushReturns, Online, Flush
<1>8. CASE \E k \in Slots :
        Lookup(k) \/ Apply(k) \/ Refuse(k) \/ Record(k) \/ RecordFails(k) \/ Crash(k) \/ Discard(k)
  BY <1>1, <1>8 DEF Lookup, Apply, Refuse, Record, RecordFails, Crash, Discard, tabVars
<1>9. CASE ExpireLedger \/ (\E f \in Fields : OtherEdit(f)) \/ UNCHANGED vars
  BY <1>1, <1>9 DEF ExpireLedger, OtherEdit, vars, tabVars
<1> QED
  BY <1>2, <1>3, <1>4, <1>5, <1>6, <1>7, <1>8, <1>9 DEF Next

\* With one tab, an edit that reached IndexedDB is answered, still queued or still
\* there, through reloads, lost answers, crashes, clear-and-refill and resets; the
\* only ones lost are those forgotten names: the tab closed before the queue was
\* in the database that replaced a destroyed one, or a start did not read it.
THEOREM SavedWorkIsKept ==
  ASSUME NEW t, Tabs = {t}
  PROVE  Spec => []SavedWorkSurvives
<1>1. Init => Saved(t)
  <2> SUFFICES ASSUME Init PROVE Saved(t)
    OBVIOUS
  <2>1. kept = {} /\ dirty[t] = FALSE /\ carried[t] = <<>>
    BY DEF Init
  <2> QED
    BY <2>1, EmptySet DEF Saved
<1>2. IInv /\ Saved(t) /\ [Next]_vars => Saved(t)'
  BY SavedKept
<1>3. Saved(t) => SavedWorkSurvives
  BY DEF Saved, SavedWorkSurvives
<1> QED
  BY <1>1, <1>2, <1>3, Inductive, PTL DEF Spec

-----------------------------------------------------------------------------
(* Queues in the order the edits were made. *)

\* A new edit comes last, and is stamped no earlier than the last one.
LEMMA EditStamp ==
  ASSUME IInv, Ordered, NEW t \in Tabs, NEW op, NEW f, NEW patched, Enqueue(t, op, f, patched)
  PROVE  /\ minted \in Nat /\ minted' = minted + 1 /\ minted + 1 \in Ids /\ 1..minted \subseteq Ids
         /\ \A m \in 1..minted : m # minted + 1 /\ mut'[m] = mut[m]
         /\ \A m, n \in 1..(minted + 1) : m < n => mut'[m].stamp <= mut'[n].stamp
<1>1. ClientTypes
  BY DEF IInv
<1>2. /\ minted \in Nat /\ minted' = minted + 1 /\ minted + 1 \in Ids /\ 1..minted \subseteq Ids
  BY <1>1, MutationQueueAssumption DEF ClientTypes, Enqueue, Ids
<1> DEFINE last == IF minted = 0 THEN 0 ELSE mut[minted].stamp
<1>3. PICK s \in Stamps :
        mut' = [mut EXCEPT ![minted + 1] = [op |-> op, field |-> f, stamp |-> s, inverse |-> store[t]]]
  BY DEF Enqueue
<1>4. \A m \in Ids : mut[m].stamp \in Nat
  BY <1>1 DEF ClientTypes, MutRow
<1>5. last \in Nat /\ (s = last \/ s = last + 1)
  <2>1. minted # 0 => minted \in Ids
    BY <1>2
  <2> QED
    BY <1>4, <2>1 DEF Stamps
<1>6. mut'[minted + 1].stamp = s /\ \A m \in 1..minted : m # minted + 1 /\ mut'[m] = mut[m]
  BY <1>1, <1>2, <1>3 DEF ClientTypes
<1>7. ASSUME NEW m \in 1..(minted + 1), NEW n \in 1..(minted + 1), m < n
      PROVE  mut'[m].stamp <= mut'[n].stamp
  <2>1. m \in 1..minted /\ mut'[m] = mut[m]
    BY <1>2, <1>6, <1>7
  <2>2. CASE n = minted + 1
    <3>1. minted # 0 /\ minted \in 1..minted
      BY <1>2, <2>1
    <3>2. mut[m].stamp <= mut[minted].stamp
      <4>1. CASE m = minted
        BY <1>2, <1>4, <2>1, <4>1
      <4>2. CASE m # minted
        <5>1. m < minted
          BY <1>2, <2>1, <4>2
        <5> QED
          BY <2>1, <3>1, <5>1 DEF Ordered
      <4> QED
        BY <4>1, <4>2
    <3>3. mut[m].stamp \in Nat /\ mut[minted].stamp \in Nat
      BY <1>2, <1>4, <2>1, <3>1
    <3> QED
      BY <1>5, <1>6, <2>1, <2>2, <3>1, <3>2, <3>3
  <2>3. CASE n # minted + 1
    <3>1. n \in 1..minted /\ mut'[n] = mut[n]
      BY <1>2, <1>6, <2>3
    <3> QED
      BY <1>7, <2>1, <3>1 DEF Ordered
  <2> QED
    BY <2>2, <2>3
<1> QED
  BY <1>2, <1>6, <1>7

\* The queue and what is carried over, with a new edit or without.
LEMMA EditQueue ==
  ASSUME IInv, NEW t \in Tabs, NEW op, NEW f, NEW patched, Enqueue(t, op, f, patched), minted + 1 \in Ids
  PROVE  /\ queue'[t] = Append(queue[t], minted + 1)
         /\ SeqSet(queue'[t]) = SeqSet(queue[t]) \union {minted + 1}
         /\ \A u \in Tabs : u # t => queue'[u] = queue[u]
         /\ \A u \in Tabs : \/ carried'[u] = carried[u]
                            \/ u = t /\ carried[t] = queue[t] /\ carried'[t] = queue'[t]
<1>1. ClientTypes /\ queue[t] \in Seq(Ids)
  BY DEF IInv, ClientTypes
<1>2. /\ queue' = [queue EXCEPT ![t] = Append(queue[t], minted + 1)]
      /\ carried' = [carried EXCEPT ![t] = IF db[t] = "wiped" /\ carried[t] = queue[t]
                                           THEN Append(carried[t], minted + 1) ELSE carried[t]]
  BY DEF Enqueue
<1>3. queue'[t] = Append(queue[t], minted + 1) /\ \A u \in Tabs : u # t => queue'[u] = queue[u]
  BY <1>1, <1>2 DEF ClientTypes
<1>4. \A u \in Tabs : \/ carried'[u] = carried[u]
                      \/ u = t /\ carried[t] = queue[t] /\ carried'[t] = Append(carried[t], minted + 1)
  BY <1>1, <1>2 DEF ClientTypes
<1> QED
  BY <1>1, <1>3, <1>4, AppendMembers

\* An edit.
LEMMA EditOrdered ==
  ASSUME IInv, Ordered, NEW t \in Tabs, NEW op, NEW f, NEW patched, Enqueue(t, op, f, patched)
  PROVE  Ordered'
<1>1. /\ minted \in Nat /\ minted' = minted + 1 /\ minted + 1 \in Ids /\ 1..minted \subseteq Ids
      /\ \A m \in 1..minted : m # minted + 1 /\ mut'[m] = mut[m]
      /\ \A m, n \in 1..(minted + 1) : m < n => mut'[m].stamp <= mut'[n].stamp
  BY EditStamp
<1>2. /\ queue'[t] = Append(queue[t], minted + 1)
      /\ SeqSet(queue'[t]) = SeqSet(queue[t]) \union {minted + 1}
      /\ \A u \in Tabs : u # t => queue'[u] = queue[u]
      /\ \A u \in Tabs : carried'[u] = carried[u] \/ carried'[u] = queue'[t]
  BY <1>1, EditQueue
<1>3. queue[t] \in Seq(Ids) /\ Len(queue[t]) \in Nat
  BY LenProperties DEF IInv, ClientTypes
<1>4. /\ Len(queue'[t]) = Len(queue[t]) + 1
      /\ queue'[t][Len(queue[t]) + 1] = minted + 1
      /\ \A i \in 1..Len(queue[t]) : queue'[t][i] = queue[t][i]
  BY <1>1, <1>2, <1>3, AppendProperties
<1>5. \A u \in Tabs : \A i \in 1..Len(queue[u]) : queue[u][i] \in 1..minted
  BY DEF Ordered, SeqSet
<1>6. \A m, n \in 1..minted : Tie(m, n) => mut'[m].stamp = mut'[n].stamp
  BY <1>1 DEF Tie
<1>7. ASSUME NEW u \in Tabs, NEW i \in 1..Len(queue[u]), NEW j \in 1..Len(queue[u]), i < j
      PROVE  queue[u][i] < queue[u][j] \/ mut'[queue[u][i]].stamp = mut'[queue[u][j]].stamp
  <2>1. queue[u][i] < queue[u][j] \/ Tie(queue[u][i], queue[u][j])
    BY <1>7 DEF Ordered, QueueKeepsOrder, InOrder
  <2>2. queue[u][i] \in 1..minted /\ queue[u][j] \in 1..minted
    BY <1>5
  <2> QED
    BY <1>6, <2>1, <2>2
<1>8. ASSUME NEW u \in Tabs, NEW i \in 1..Len(queue'[u]), NEW j \in 1..Len(queue'[u]), i < j
      PROVE  queue'[u][i] < queue'[u][j] \/ mut'[queue'[u][i]].stamp = mut'[queue'[u][j]].stamp
  <2>1. CASE u = t
    <3>1. i \in 1..Len(queue[t]) /\ queue'[t][i] = queue[t][i] /\ queue[t][i] \in 1..minted
      BY <1>3, <1>4, <1>5, <1>8, <2>1
    <3>2. CASE j = Len(queue[t]) + 1
      BY <1>1, <1>4, <2>1, <3>1, <3>2
    <3>3. CASE j # Len(queue[t]) + 1
      <4>1. j \in 1..Len(queue[t]) /\ queue'[t][j] = queue[t][j]
        BY <1>3, <1>4, <1>8, <2>1, <3>3
      <4>2. queue[t][i] < queue[t][j] \/ mut'[queue[t][i]].stamp = mut'[queue[t][j]].stamp
        BY <1>7, <1>8, <3>1, <4>1
      <4> QED
        BY <2>1, <3>1, <4>1, <4>2
    <3> QED
      BY <3>2, <3>3
  <2>2. CASE u # t
    <3>1. queue'[u] = queue[u]
      BY <1>2, <2>2
    <3>2. queue[u][i] < queue[u][j] \/ mut'[queue[u][i]].stamp = mut'[queue[u][j]].stamp
      BY <1>7, <1>8, <3>1
    <3> QED
      BY <3>1, <3>2
  <2> QED
    BY <2>1, <2>2
<1>9. QueueKeepsOrder'
  BY <1>8 DEF QueueKeepsOrder, InOrder, Tie
<1>10. ASSUME NEW u \in Tabs
       PROVE  SeqSet(queue'[u]) \subseteq 1..(minted + 1) /\ SeqSet(carried'[u]) \subseteq 1..(minted + 1)
  <2>1. /\ SeqSet(queue[u]) \subseteq 1..minted /\ SeqSet(carried[u]) \subseteq 1..minted
        /\ SeqSet(queue[t]) \subseteq 1..minted
    BY DEF Ordered
  <2>2. 1..minted \subseteq 1..(minted + 1) /\ minted + 1 \in 1..(minted + 1)
    BY <1>1
  <2>3. SeqSet(queue'[t]) \subseteq 1..(minted + 1)
    BY <1>2, <2>1, <2>2
  <2>4. SeqSet(queue'[u]) \subseteq 1..(minted + 1)
    BY <1>2, <2>1, <2>2, <2>3
  <2>5. SeqSet(carried'[u]) \subseteq 1..(minted + 1)
    BY <1>2, <2>1, <2>2, <2>3
  <2> QED
    BY <2>4, <2>5
<1>11. idb' \subseteq 1..(minted + 1)
  BY <1>1 DEF Enqueue, Ordered
<1> QED
  BY <1>1, <1>9, <1>10, <1>11 DEF Ordered

\* What a start replays is in order.
LEMMA ReplayInOrder ==
  ASSUME IInv, Ordered, NEW q \in ReplayOrders(idb)
  PROVE  InOrder(q) /\ SeqSet(q) \subseteq 1..minted
<1>1. ClientTypes
  BY DEF IInv
<1>2. /\ q \in Seq(Ids) /\ SeqSet(q) = idb
      /\ \A i, j \in 1..Len(q) : i < j => q[i] # q[j] /\ mut[q[i]].stamp <= mut[q[j]].stamp
  BY <1>1, ReplayOnce
<1>3. SeqSet(q) \subseteq 1..minted
  BY <1>2 DEF Ordered
<1>4. ASSUME NEW i \in 1..Len(q), NEW j \in 1..Len(q), i < j PROVE q[i] < q[j] \/ Tie(q[i], q[j])
  <2>1. q[i] \in 1..minted /\ q[j] \in 1..minted
    BY <1>3 DEF SeqSet
  <2>2. mut[q[i]].stamp \in Nat /\ mut[q[j]].stamp \in Nat
    <3>1. q[i] \in Ids /\ q[j] \in Ids
      BY <1>2, ElementOfSeq
    <3> QED
      BY <1>1, <3>1 DEF ClientTypes, MutRow
  <2>3. q[i] # q[j] /\ mut[q[i]].stamp <= mut[q[j]].stamp
    BY <1>2, <1>4
  <2>4. q[j] < q[i] => mut[q[j]].stamp <= mut[q[i]].stamp
    BY <2>1 DEF Ordered
  <2> QED
    BY <2>1, <2>2, <2>3, <2>4 DEF Tie
<1> QED
  BY <1>3, <1>4 DEF InOrder

\* No new edit: the queues are in order, and nothing else is new.
LEMMA StillOrdered ==
  ASSUME Ordered, UNCHANGED <<minted, mut>>, idb' \subseteq 1..minted,
         \A u \in Tabs : InOrder(queue'[u]) /\ SeqSet(queue'[u]) \subseteq 1..minted
                         /\ SeqSet(carried'[u]) \subseteq 1..minted
  PROVE  Ordered'
<1>1. ASSUME NEW u \in Tabs PROVE InOrder(queue[u])'
  <2>1. InOrder(queue'[u])
    OBVIOUS
  <2> QED
    BY <2>1 DEF InOrder, Tie
<1> QED
  BY <1>1 DEF Ordered, QueueKeepsOrder

\* The members of what is carried over after the destruction of a database.
LEMMA DestroyCarries ==
  ASSUME IInv, Ordered, NEW t \in Tabs, NEW handle, NEW q, SeqSet(q) \subseteq 1..minted, Destroy(t, handle, q)
  PROVE  idb' \subseteq 1..minted /\ \A u \in Tabs : SeqSet(carried'[u]) \subseteq 1..minted
<1>1. \A u \in Tabs : carried'[u] = q \/ carried'[u] = <<>> \/ carried'[u] = carried[u]
  BY DEF Destroy, IInv, ClientTypes
<1>2. idb' = {}
  BY DEF Destroy
<1> QED
  BY <1>1, <1>2, EmptySet DEF Ordered

\* Every step keeps the order.
LEMMA OrderKept ==
  ASSUME IInv, Ordered, [Next]_vars
  PROVE  Ordered'
<1>1. ClientTypes
  BY DEF IInv
<1>2. /\ idb \subseteq 1..minted
      /\ \A u \in Tabs : InOrder(queue[u]) /\ SeqSet(queue[u]) \subseteq 1..minted
                         /\ SeqSet(carried[u]) \subseteq 1..minted
  BY DEF Ordered, QueueKeepsOrder
<1>3. ASSUME UNCHANGED <<minted, mut, idb, queue, carried>> PROVE Ordered'
  BY <1>2, <1>3, StillOrdered
<1>4. ASSUME NEW t \in Tabs, Create(t) \/ \E f \in Fields : Update(t, f) PROVE Ordered'
  BY <1>4, EditOrdered DEF Create, Update
<1>5. ASSUME NEW t \in Tabs, SavePending(t) PROVE Ordered'
  <2>1. UNCHANGED <<minted, mut, queue, carried>> /\ idb' = SeqSet(queue[t])
    BY <1>5 DEF SavePending
  <2> QED
    BY <1>2, <2>1, StillOrdered
<1>6. ASSUME NEW t \in Tabs, SaveCarried(t) PROVE Ordered'
  <2>1. UNCHANGED <<minted, mut, queue>> /\ idb' = SeqSet(carried[t])
        /\ carried' = [carried EXCEPT ![t] = <<>>]
    BY <1>6 DEF SaveCarried
  <2>2. \A u \in Tabs : SeqSet(carried'[u]) \subseteq 1..minted
    BY <1>1, <1>2, <2>1, EmptySet DEF ClientTypes
  <2> QED
    BY <1>2, <2>1, <2>2, StillOrdered
<1>7. ASSUME NEW t \in Tabs, Answer(t) PROVE Ordered'
  <2> DEFINE B == SeqSet(exec[flight[t]].batch)
  <2> DEFINE q == Without(queue[t], B)
  <2>1. UNCHANGED <<minted, mut, idb, carried>> /\ queue' = [queue EXCEPT ![t] = q]
    BY <1>7 DEF Answer, AnswerLeaving
  <2> HIDE DEF B
  <2>2. queue[t] \in Seq(Ids)
    BY <1>1 DEF ClientTypes
  <2>3. q \in Seq(Ids) /\ SeqSet(q) = SeqSet(queue[t]) \ B /\ InOrder(q)
    BY <1>2, <2>2, WithoutIsFilter, WithoutInOrder
  <2> HIDE DEF q
  <2>4. \A u \in Tabs : queue'[u] = q \/ queue'[u] = queue[u]
    BY <1>1, <2>1 DEF ClientTypes
  <2>5. \A u \in Tabs : InOrder(queue'[u]) /\ SeqSet(queue'[u]) \subseteq 1..minted
    BY <1>2, <2>3, <2>4
  <2> QED
    BY <1>2, <2>1, <2>5, StillOrdered
<1>8. ASSUME NEW t \in Tabs, Reset(t) \/ Reopen(t) PROVE Ordered'
  <2>1. UNCHANGED <<minted, mut, queue>>
    BY <1>8 DEF Reset, Reopen
  <2>2. idb' \subseteq 1..minted /\ \A u \in Tabs : SeqSet(carried'[u]) \subseteq 1..minted
    <3>1. CASE Destroy(t, "wiped", queue[t])
      BY <1>2, <3>1, DestroyCarries
    <3>2. CASE Destroy(t, "closed", <<>>)
      <4>1. SeqSet(<<>>) \subseteq 1..minted
        BY EmptySet
      <4> QED
        BY <3>2, <4>1, DestroyCarries
    <3>3. CASE UNCHANGED <<idb, carried>>
      BY <1>2, <3>3
    <3> QED
      BY <1>8, <3>1, <3>2, <3>3 DEF Reset, Reopen
  <2> QED
    BY <1>2, <2>1, <2>2, StillOrdered
<1>9. ASSUME NEW t \in Tabs, Reload(t) PROVE Ordered'
  <2>1. UNCHANGED <<minted, mut>>
    BY <1>9 DEF Reload
  <2>2. PICK q \in ReplayOrders(idb) \union {<<>>} :
          /\ Loaded(t, q) \/ Poisoned(t, q) \/ Unreadable(t, q)
          /\ queue' = [queue EXCEPT ![t] = q]
    BY <1>9 DEF Reload
  <2>3. InOrder(<<>>) /\ SeqSet(<<>>) \subseteq 1..minted
    BY EmptySet, EmptySeq DEF InOrder
  <2>4. InOrder(q) /\ SeqSet(q) \subseteq 1..minted
    <3>1. CASE q \in ReplayOrders(idb)
      BY <3>1, ReplayInOrder
    <3>2. CASE q = <<>>
      BY <2>3, <3>2
    <3> QED
      BY <2>2, <3>1, <3>2
  <2>5. \A u \in Tabs : queue'[u] = q \/ queue'[u] = queue[u]
    BY <1>1, <2>2 DEF ClientTypes
  <2>6. idb' \subseteq 1..minted /\ \A u \in Tabs : SeqSet(carried'[u]) \subseteq 1..minted
    <3>1. CASE Destroy(t, "open", q) \/ Destroy(t, "closed", <<>>)
      BY <2>3, <2>4, <3>1, DestroyCarries
    <3>2. CASE idb' = idb /\ carried' = [carried EXCEPT ![t] = <<>>]
      <4>1. \A u \in Tabs : carried'[u] = <<>> \/ carried'[u] = carried[u]
        BY <1>1, <3>2 DEF ClientTypes
      <4> QED
        BY <1>2, <2>3, <3>2, <4>1
    <3> QED
      BY <2>2, <3>1, <3>2 DEF Loaded, Poisoned, Unreadable
  <2>7. \A u \in Tabs : InOrder(queue'[u]) /\ SeqSet(queue'[u]) \subseteq 1..minted
    BY <1>2, <2>4, <2>5
  <2> QED
    BY <2>1, <2>6, <2>7, StillOrdered
<1>10. ASSUME NEW t \in Tabs, LoseAnswer(t) \/ Pull(t) \/ FlushReturns(t) \/ Online(t) \/ \E k \in Slots : Flush(t, k)
       PROVE Ordered'
  BY <1>3, <1>10 DEF LoseAnswer, Fail, Pull, FlushReturns, Online, Flush
<1>11. CASE \E k \in Slots :
        Lookup(k) \/ Apply(k) \/ Refuse(k) \/ Record(k) \/ RecordFails(k) \/ Crash(k) \/ Discard(k)
  BY <1>3, <1>11 DEF Lookup, Apply, Refuse, Record, RecordFails, Crash, Discard, tabVars
<1>12. CASE ExpireLedger \/ (\E f \in Fields : OtherEdit(f)) \/ UNCHANGED vars
  BY <1>3, <1>12 DEF ExpireLedger, OtherEdit, vars, tabVars
<1> QED
  BY <1>4, <1>5, <1>6, <1>7, <1>8, <1>9, <1>10, <1>11, <1>12 DEF Next

\* No edit was made.
LEMMA InitOrdered == Init => Ordered
<1> SUFFICES ASSUME Init PROVE Ordered
  OBVIOUS
<1>1. minted = 0 /\ idb = {} /\ \A t \in Tabs : queue[t] = <<>> /\ carried[t] = <<>>
  BY DEF Init
<1>2. Len(<<>>) = 0 /\ SeqSet(<<>>) = {}
  BY EmptySeq, EmptySet
<1> QED
  BY <1>1, <1>2 DEF Ordered, QueueKeepsOrder, InOrder

\* Edits are stamped in the order they were made and stay in it.
THEOREM Ordering == Spec => []Ordered
<1>1. IInv /\ Ordered /\ [Next]_vars => Ordered'
  BY OrderKept
<1> QED
  BY <1>1, InitOrdered, Inductive, PTL DEF Spec

\* A queue holds its edits in the order they were made, after reloads and answers
\* too, but for edits of the same millisecond.
THEOREM QueuesAreInOrder == Spec => []QueueKeepsOrder
<1>1. Ordered => QueueKeepsOrder
  BY DEF Ordered
<1> QED
  BY <1>1, Ordering, PTL

-----------------------------------------------------------------------------
(* Edits land in the order they were made. *)

\* The edits a tab or IndexedDB keeps were made.
LEMMA CopiesMade ==
  ASSUME IInv, Ordered
  PROVE  \A A \in Copies : A \subseteq 1..minted /\ A \subseteq Ids
<1>1. 1..minted \subseteq Ids
  BY MutationQueueAssumption DEF IInv, ClientTypes, Ids
<1> QED
  BY <1>1 DEF Ordered, Copies

\* No edit is handled, no new copy is kept, and executions end or stay.
LEMMA LandStays ==
  ASSUME Landing, UNCHANGED <<minted, mut, ledger, times>>, Copies' \subseteq Copies \union {{}},
         \A k \in Slots : \/ exec'[k] = exec[k]
                          \/ exec'[k].batch = <<>> /\ exec'[k].phase \notin {"look", "apply", "applied", "refused"}
  PROVE  Landing'
<1>1. \A m : Handled(m)' <=> Handled(m)
  BY DEF Handled
<1>2. \A m, n : Before(m, n)' <=> Before(m, n)
  BY DEF Before, Handled, Tie
<1>3. ASSUME NEW k \in Slots
      PROVE  /\ SeqSet(exec'[k].batch) \in Batches \union {{}}
             /\ SeqSet(exec'[k].batch) \subseteq 1..minted /\ InOrder(exec[k].batch)' /\ Done(k)'
  <2>1. SeqSet(exec[k].batch) \subseteq 1..minted /\ InOrder(exec[k].batch) /\ Done(k)
    BY DEF Landing
  <2>2. CASE exec'[k] = exec[k]
    BY <2>1, <2>2 DEF Batches, InOrder, Tie, Done, AtWork, Handled
  <2>3. CASE exec'[k].batch = <<>> /\ exec'[k].phase \notin {"look", "apply", "applied", "refused"}
    <3>1. SeqSet(exec'[k].batch) = {} /\ Len(exec'[k].batch) = 0
      BY <2>3, EmptySet, EmptySeq
    <3> QED
      BY <2>3, <3>1 DEF InOrder, Done, AtWork
  <2> QED
    BY <2>2, <2>3
<1>4. Batches' \subseteq Batches \union {{}}
  BY <1>3 DEF Batches
<1>5. \A A \in Copies' : \A m, n \in A : Before(m, n)' => ~Handled(n)'
  BY <1>1, <1>2 DEF Landing
<1>6. \A A \in Copies', B \in (Copies \union Batches)' : \A m \in A, n \in A \intersect B : Before(m, n)' => m \in B
  BY <1>2, <1>4 DEF Landing
<1> QED
  BY <1>1, <1>3, <1>5, <1>6 DEF Landing

\* A new edit is the last of every copy that has it.
LEMMA EditLands ==
  ASSUME IInv, Ordered, Landing, NEW t \in Tabs, NEW op, NEW f, NEW patched, Enqueue(t, op, f, patched)
  PROVE  Landing'
<1> DEFINE new == minted + 1
<1>1. /\ minted \in Nat /\ minted' = minted + 1 /\ new \in Ids /\ 1..minted \subseteq Ids
      /\ \A m \in 1..minted : m # new /\ mut'[m] = mut[m]
  BY EditStamp
<1>2. /\ SeqSet(queue'[t]) = SeqSet(queue[t]) \union {new}
      /\ \A u \in Tabs : u # t => queue'[u] = queue[u]
      /\ \A u \in Tabs : carried'[u] = carried[u] \/ carried'[u] = queue'[t]
  BY <1>1, EditQueue
<1>3. UNCHANGED <<idb, exec, ledger, times>>
  BY DEF Enqueue
<1>4. \A m : Handled(m)' <=> Handled(m)
  BY <1>3 DEF Handled
<1>5. \A m \in Ids : Handled(m) => m \in 1..minted
  BY DEF Landing
<1>6. \A m, n \in 1..minted : Before(m, n)' <=> Before(m, n)
  BY <1>1, <1>4 DEF Before, Tie
<1>7. ~Handled(new) /\ new \notin 1..minted
  BY <1>1, <1>5
<1> DEFINE Old == SeqSet(queue[t])
<1> DEFINE New == SeqSet(queue'[t])
<1>9. Old \in Copies /\ New = Old \union {new}
  BY <1>2 DEF Copies
<1>10. \A A \in Copies' : A \in Copies \/ A = New
  BY <1>2, <1>3 DEF Copies
<1>11. Batches' = Batches
  BY <1>3 DEF Batches
<1>12. /\ \A A \in Copies : A \subseteq 1..minted
       /\ \A B \in Batches : B \subseteq 1..minted
  BY CopiesMade DEF Landing, Batches
<1>13. \A k \in Slots : SeqSet(exec'[k].batch) \subseteq 1..(minted + 1) /\ InOrder(exec[k].batch)' /\ Done(k)'
  <2> SUFFICES ASSUME NEW k \in Slots
               PROVE  SeqSet(exec[k].batch) \subseteq 1..(minted + 1) /\ InOrder(exec[k].batch)' /\ Done(k)'
    BY <1>3
  <2>1. SeqSet(exec[k].batch) \subseteq 1..minted /\ InOrder(exec[k].batch) /\ Done(k)
    BY DEF Landing
  <2>2. \A i \in 1..Len(exec[k].batch) : exec[k].batch[i] \in 1..minted
    BY <2>1 DEF SeqSet
  <2>3. ASSUME NEW i \in 1..Len(exec[k].batch), NEW j \in 1..Len(exec[k].batch), i < j
        PROVE  exec[k].batch[i] < exec[k].batch[j] \/ mut'[exec[k].batch[i]].stamp = mut'[exec[k].batch[j]].stamp
    <3>1. exec[k].batch[i] < exec[k].batch[j] \/ mut[exec[k].batch[i]].stamp = mut[exec[k].batch[j]].stamp
      BY <2>1, <2>3 DEF InOrder, Tie
    <3>2. /\ mut'[exec[k].batch[i]] = mut[exec[k].batch[i]]
          /\ mut'[exec[k].batch[j]] = mut[exec[k].batch[j]]
      BY <1>1, <2>2
    <3> QED
      BY <3>1, <3>2
  <2>6. InOrder(exec[k].batch)'
    BY <1>3, <2>3 DEF InOrder, Tie
  <2>4. Done(k)'
    BY <1>3, <2>1 DEF Done, AtWork, Handled
  <2>5. SeqSet(exec[k].batch) \subseteq 1..(minted + 1)
    BY <1>1, <2>1
  <2> QED
    BY <2>4, <2>5, <2>6
<1> HIDE DEF new, Old, New
<1>14. ASSUME NEW A \in Copies', NEW m \in A, NEW n \in A, Before(m, n)' PROVE ~Handled(n)'
  <2>1. CASE n = new
    BY <1>4, <1>7, <2>1
  <2>2. CASE n # new
    <3>1. PICK A0 \in Copies : A = A0 \/ A = A0 \union {new}
      BY <1>9, <1>10
    <3>2. n \in A0 /\ n \in 1..minted
      BY <1>12, <2>2, <3>1
    <3>3. m # new
      BY <1>1, <1>14, <3>2 DEF Before, new
    <3>4. m \in A0 /\ m \in 1..minted
      BY <1>12, <3>1, <3>3
    <3>5. Before(m, n)
      BY <1>6, <1>14, <3>2, <3>4
    <3>6. ~Handled(n)
      BY <3>2, <3>4, <3>5, Zenon DEF Landing
    <3> QED
      BY <1>4, <3>6
  <2> QED
    BY <2>1, <2>2
<1>15. ASSUME NEW A \in Copies', NEW B \in (Copies \union Batches)', NEW m \in A, NEW n \in A \intersect B, Before(m, n)'
       PROVE  m \in B
  <2>1. CASE n = new
    <3>1. A = New
      BY <1>7, <1>10, <1>12, <2>1
    <3>2. B = New
      BY <1>7, <1>10, <1>11, <1>12, <2>1
    <3> QED
      BY <3>1, <3>2
  <2>2. CASE n # new
    <3>1. PICK A0 \in Copies : A = A0 \/ A = A0 \union {new}
      BY <1>9, <1>10
    <3>2. PICK B0 \in Copies \union Batches : B = B0 \/ B = B0 \union {new}
      BY <1>9, <1>10, <1>11
    <3>3. n \in A0 /\ n \in B0 /\ n \in 1..minted
      BY <1>12, <2>2, <3>1, <3>2
    <3>4. m # new
      BY <1>1, <1>15, <3>3 DEF Before, new
    <3>5. m \in A0 /\ m \in 1..minted
      BY <1>12, <3>1, <3>4
    <3>6. Before(m, n)
      BY <1>6, <1>15, <3>3, <3>5
    <3>7. n \in A0 \intersect B0
      BY <3>3
    <3>8. m \in B0
      BY <3>5, <3>6, <3>7, Zenon DEF Landing
    <3> QED
      BY <3>2, <3>8
  <2> QED
    BY <2>1, <2>2
<1>16. \A m \in Ids : Handled(m)' => m \in 1..(minted + 1)
  BY <1>1, <1>4, <1>5
<1> QED
  BY <1>1, <1>13, <1>14, <1>15, <1>16 DEF Landing

\* What comes before an item of a batch in order comes earlier in it.
LEMMA EarlierItem ==
  ASSUME NEW q \in Seq(Ids), InOrder(q), NEW i \in 1..Len(q), NEW j \in 1..Len(q), Before(q[i], q[j])
  PROVE  i < j
<1>1. Len(q) \in Nat /\ q[i] \in Ids /\ q[j] \in Ids
  BY LenProperties, ElementOfSeq
<1>2. i # j
  BY <1>1 DEF Before, Ids
<1>3. ~(j < i)
  <2> SUFFICES ASSUME j < i PROVE FALSE
    OBVIOUS
  <2>1. q[j] < q[i] \/ Tie(q[j], q[i])
    BY DEF InOrder
  <2> QED
    BY <1>1, <2>1 DEF Before, Ids, Tie
<1> QED
  BY <1>1, <1>2, <1>3

\* A batch is the head of a queue.
LEMMA FlushLands ==
  ASSUME IInv, Ordered, Landing, NEW t \in Tabs, NEW k \in Slots, Flush(t, k)
  PROVE  Landing'
<1>1. ClientTypes /\ ServerTypes /\ queue[t] \in Seq(Ids) /\ Len(queue[t]) \in Nat
  BY LenProperties DEF IInv, ClientTypes
<1>2. PICK r \in ExecRow, n \in 1..Len(queue[t]) :
           /\ exec' = [exec EXCEPT ![k] = r]
           /\ r.phase = "look" /\ r.at = 1 /\ r.batch = SubSeq(queue[t], 1, n) /\ Len(r.batch) = n
           /\ \A m \in Ids : r.results[m].status = "none"
  BY <1>1, FlushRow
<1>3. exec'[k] = r /\ \A j \in Slots : j # k => exec'[j] = exec[j]
  BY <1>1, <1>2 DEF ServerTypes
<1>4. UNCHANGED <<minted, mut, queue, idb, carried, ledger, times>>
  BY DEF Flush
<1>5. \A m : Handled(m)' <=> Handled(m)
  BY <1>4 DEF Handled
<1>6. \A m, n1 : Before(m, n1)' <=> Before(m, n1)
  BY <1>4 DEF Before, Handled, Tie
<1>7. Copies' = Copies
  BY <1>4 DEF Copies
<1>8. \A i \in 1..n : i \in 1..Len(queue[t]) /\ r.batch[i] = queue[t][i]
  <2>1. \A i \in 1..n : queue[t][i] \in Ids
    BY <1>1, ElementOfSeq
  <2> QED
    BY <1>1, <1>2, <2>1, SubSeqProperties
<1> DEFINE Q == SeqSet(queue[t])
<1> DEFINE B == SeqSet(r.batch)
<1>9. B \subseteq Q /\ Q \in Copies
  BY <1>2, <1>8 DEF SeqSet, Copies
<1>10. InOrder(queue[t])
  BY DEF Ordered, QueueKeepsOrder
<1>11. InOrder(r.batch)
  <2> SUFFICES ASSUME NEW i \in 1..Len(r.batch), NEW j \in 1..Len(r.batch), i < j
               PROVE  r.batch[i] < r.batch[j] \/ Tie(r.batch[i], r.batch[j])
    BY DEF InOrder
  <2>1. i \in 1..n /\ j \in 1..n
    BY <1>2
  <2>2. /\ i \in 1..Len(queue[t]) /\ r.batch[i] = queue[t][i]
        /\ j \in 1..Len(queue[t]) /\ r.batch[j] = queue[t][j]
    BY <1>8, <2>1
  <2>3. queue[t][i] < queue[t][j] \/ Tie(queue[t][i], queue[t][j])
    BY <1>10, <2>2 DEF InOrder
  <2> QED
    BY <2>2, <2>3
<1>12. ASSUME NEW m \in Q, NEW n1 \in B, Before(m, n1) PROVE m \in B
  <2>1. PICK i \in 1..Len(queue[t]) : m = queue[t][i]
    BY DEF SeqSet
  <2>2. PICK j \in 1..n : n1 = queue[t][j]
    BY <1>2, <1>8 DEF SeqSet
  <2>3. j \in 1..Len(queue[t])
    BY <1>8
  <2>4. i < j
    BY <1>1, <1>10, <1>12, <2>1, <2>2, <2>3, EarlierItem
  <2>5. i \in 1..n
    BY <1>1, <2>1, <2>3, <2>4
  <2> QED
    BY <1>2, <1>8, <2>1, <2>5 DEF SeqSet
<1>13. \A j \in Slots : SeqSet(exec'[j].batch) \subseteq 1..minted /\ InOrder(exec[j].batch)' /\ Done(j)'
  <2> SUFFICES ASSUME NEW j \in Slots
               PROVE  SeqSet(exec'[j].batch) \subseteq 1..minted /\ InOrder(exec[j].batch)' /\ Done(j)'
    OBVIOUS
  <2>1. CASE j = k
    <3>1. B \subseteq 1..minted
      BY <1>9 DEF Ordered
    <3>2. InOrder(exec[k].batch)'
      BY <1>3, <1>4, <1>11 DEF InOrder, Tie
    <3>3. Done(k)'
      BY <1>2, <1>3 DEF Done
    <3> QED
      BY <1>3, <2>1, <3>1, <3>2, <3>3
  <2>2. CASE j # k
    <3>1. SeqSet(exec[j].batch) \subseteq 1..minted /\ InOrder(exec[j].batch) /\ Done(j)
      BY DEF Landing
    <3>2. exec'[j] = exec[j]
      BY <1>3, <2>2
    <3> QED
      BY <1>4, <3>1, <3>2 DEF InOrder, Tie, Done, AtWork, Handled
  <2> QED
    BY <2>1, <2>2
<1>14. Batches' \subseteq Batches \union {B}
  BY <1>3 DEF Batches
<1> HIDE DEF Q, B
<1>15. \A A \in Copies' : \A m, n1 \in A : Before(m, n1)' => ~Handled(n1)'
  BY <1>5, <1>6, <1>7 DEF Landing
<1>16. ASSUME NEW A \in Copies', NEW C \in (Copies \union Batches)', NEW m \in A, NEW n1 \in A \intersect C, Before(m, n1)'
       PROVE  m \in C
  <2>1. A \in Copies /\ Before(m, n1)
    BY <1>6, <1>7, <1>16
  <2>2. CASE C \in Copies \union Batches
    BY <2>1, <2>2 DEF Landing
  <2>3. CASE C = B
    <3>1. n1 \in A \intersect Q
      BY <1>9, <2>3
    <3>2. m \in Q
      BY <1>9, <2>1, <3>1 DEF Landing
    <3> QED
      BY <1>12, <2>1, <2>3, <3>2
  <2> QED
    BY <1>7, <1>14, <2>2, <2>3
<1>17. \A m \in Ids : Handled(m)' => m \in 1..minted
  BY <1>5 DEF Landing
<1> QED
  BY <1>4, <1>13, <1>15, <1>16, <1>17 DEF Landing

\* The answered edits, all handled, leave the queue.
LEMMA AnswerLands ==
  ASSUME IInv, Ordered, Landing, NEW t \in Tabs, Answer(t)
  PROVE  Landing'
<1> DEFINE k == flight[t]
<1>1. /\ ClientTypes /\ ServerTypes /\ queue[t] \in Seq(Ids)
      /\ k \in Slots /\ exec[k] \in ExecRow /\ exec[k].phase = "done"
  BY DEF IInv, ClientTypes, ServerTypes, Answer, AnswerLeaving
<1>2. /\ UNCHANGED <<minted, mut, idb, carried, ledger, times>>
      /\ queue' = [queue EXCEPT ![t] = Without(queue[t], SeqSet(exec[k].batch))]
      /\ exec' = [exec EXCEPT ![k] = Idle]
  BY <1>1 DEF Answer, AnswerLeaving
<1> DEFINE Q == SeqSet(queue[t])
<1> DEFINE B == SeqSet(exec[k].batch)
<1> DEFINE Rest == SeqSet(queue'[t])
<1>3. Rest = Q \ B
  BY <1>1, <1>2, WithoutIsFilter DEF ClientTypes
<1>4. \A u \in Tabs : u # t => queue'[u] = queue[u]
  BY <1>1, <1>2 DEF ClientTypes
<1>5. \A j \in Slots : exec'[j] = IF j = k THEN Idle ELSE exec[j]
  BY <1>1, <1>2 DEF ServerTypes
<1>6. \A m \in B : Handled(m)
  BY <1>1 DEF Landing, Done, SeqSet
<1>7. \A m : Handled(m)' <=> Handled(m)
  BY <1>2 DEF Handled
<1>8. \A m, n : Before(m, n)' <=> Before(m, n)
  BY <1>2 DEF Before, Handled, Tie
<1>9. Copies' \subseteq Copies \union {Rest} /\ Q \in Copies
  BY <1>2, <1>4 DEF Copies
<1>10. Idle.batch = <<>> /\ Idle.phase = "free"
  BY DEF Idle
<1>11. Batches' \subseteq Batches \union {{}}
  BY <1>5, <1>10, EmptySet DEF Batches
<1>12. \A j \in Slots : SeqSet(exec'[j].batch) \subseteq 1..minted /\ InOrder(exec[j].batch)' /\ Done(j)'
  <2> SUFFICES ASSUME NEW j \in Slots
               PROVE  SeqSet(exec'[j].batch) \subseteq 1..minted /\ InOrder(exec[j].batch)' /\ Done(j)'
    OBVIOUS
  <2>1. CASE j = k
    <3>1. exec'[j].batch = <<>> /\ exec'[j].phase = "free"
      BY <1>5, <1>10, <2>1
    <3>2. SeqSet(exec'[j].batch) = {} /\ Len(exec'[j].batch) = 0
      BY <3>1, EmptySet, EmptySeq
    <3> QED
      BY <3>1, <3>2 DEF InOrder, Done, AtWork
  <2>2. CASE j # k
    <3>1. SeqSet(exec[j].batch) \subseteq 1..minted /\ InOrder(exec[j].batch) /\ Done(j)
      BY DEF Landing
    <3>2. exec'[j] = exec[j]
      BY <1>5, <2>2
    <3> QED
      BY <1>2, <3>1, <3>2 DEF InOrder, Tie, Done, AtWork, Handled
  <2> QED
    BY <2>1, <2>2
<1> HIDE DEF Q, B, Rest
<1>13. ASSUME NEW A \in Copies', NEW m \in A, NEW n \in A, Before(m, n)' PROVE ~Handled(n)'
  <2>1. PICK A0 \in Copies : A \subseteq A0
    BY <1>3, <1>9
  <2> QED
    BY <1>7, <1>8, <1>13, <2>1 DEF Landing
<1>14. ASSUME NEW A \in Copies', NEW C \in (Copies \union Batches)', NEW m \in A, NEW n \in A \intersect C, Before(m, n)'
       PROVE  m \in C
  <2>1. PICK A0 \in Copies : A \subseteq A0
    BY <1>3, <1>9
  <2>2. m \in A0 /\ n \in A0 /\ Before(m, n)
    BY <1>8, <1>14, <2>1
  <2>3. CASE C \in Copies \union Batches
    BY <2>2, <2>3 DEF Landing
  <2>4. CASE C = Rest
    <3>1. n \in A0 \intersect Q
      BY <1>3, <2>2, <2>4
    <3>2. m \in Q
      BY <1>9, <2>2, <3>1 DEF Landing
    <3>3. m \notin B
      BY <1>6, <2>2 DEF Before
    <3> QED
      BY <1>3, <2>4, <3>2, <3>3
  <2> QED
    BY <1>9, <1>11, <2>3, <2>4
<1>15. \A m \in Ids : Handled(m)' => m \in 1..minted
  BY <1>7 DEF Landing
<1> QED
  BY <1>2, <1>12, <1>13, <1>14, <1>15 DEF Landing

\* An execution moves on, and handles at most the item it is at: what comes before
\* that item is in its batch, and handled.
LEMMA ItemLands ==
  ASSUME IInv, Ordered, Landing, NEW k \in Slots, AtWork(k), NEW r \in ExecRow,
         exec' = [exec EXCEPT ![k] = r], r.batch = exec[k].batch, Done(k)',
         UNCHANGED <<minted, mut, queue, idb, carried>>,
         \A m \in Ids : Handled(m) => Handled(m)',
         \A m \in Ids : Handled(m)' => Handled(m) \/ m = CurrentItem(k)
  PROVE  Landing'
<1>1. ServerTypes /\ ExecOK(k)
  BY DEF IInv
<1>2. /\ exec[k].at \in 1..Len(exec[k].batch) /\ CurrentItem(k) \in Ids
      /\ Len(exec[k].batch) \in Nat /\ exec[k].batch \in Seq(Ids)
  <2>1. exec[k].batch \in Seq(Ids)
    BY <1>1 DEF ServerTypes, ExecRow
  <2> QED
    BY <1>1, <2>1, ItemRow
<1>3. exec'[k] = r /\ \A j \in Slots : j # k => exec'[j] = exec[j]
  BY <1>1 DEF ServerTypes
<1>4. Copies' = Copies
  BY DEF Copies
<1>5. \A j \in Slots : exec'[j].batch = exec[j].batch
  BY <1>3
<1>6. Batches' = Batches
  BY <1>5 DEF Batches
<1>7. \A m, n \in Ids : Before(m, n)' => Before(m, n)
  <2> SUFFICES ASSUME NEW m \in Ids, NEW n \in Ids, m < n, ~Handled(m)', ~Tie(m, n)' PROVE Before(m, n)
    BY DEF Before
  <2> QED
    BY DEF Before, Tie
<1>8. \A A \in Copies : A \subseteq Ids
  BY CopiesMade
<1> DEFINE B == SeqSet(exec[k].batch)
<1>9. B \in Batches /\ CurrentItem(k) \in B
  BY <1>2 DEF Batches, SeqSet, CurrentItem
<1>10. ASSUME NEW m \in B, Before(m, CurrentItem(k)) PROVE FALSE
  <2>1. PICK i \in 1..Len(exec[k].batch) : m = exec[k].batch[i]
    BY DEF SeqSet
  <2>2. i < exec[k].at
    <3>1. InOrder(exec[k].batch)
      BY DEF Landing
    <3> QED
      BY <1>2, <1>10, <2>1, <3>1, EarlierItem DEF CurrentItem
  <2>3. i \in 1..(exec[k].at - 1)
    BY <1>2, <2>2
  <2>4. Handled(m)
    BY <2>1, <2>3 DEF Landing, Done
  <2> QED
    BY <1>10, <2>4 DEF Before
<1> HIDE DEF B
<1>11. ASSUME NEW A \in Copies', NEW m \in A, NEW n \in A, Before(m, n)', Handled(n)' PROVE FALSE
  <2>1. m \in Ids /\ n \in Ids /\ A \in Copies
    BY <1>4, <1>8
  <2>2. Before(m, n)
    BY <1>7, <1>11, <2>1
  <2>3. ~Handled(n)
    BY <2>1, <2>2 DEF Landing
  <2>4. n = CurrentItem(k)
    BY <1>11, <2>1, <2>3
  <2>5. n \in A \intersect B
    BY <1>9, <2>4
  <2>6. m \in B
    BY <1>9, <2>1, <2>2, <2>5 DEF Landing
  <2> QED
    BY <1>10, <2>2, <2>4, <2>6
<1>12. ASSUME NEW A \in Copies', NEW C \in (Copies \union Batches)', NEW m \in A, NEW n \in A \intersect C, Before(m, n)'
       PROVE  m \in C
  <2>1. m \in Ids /\ n \in Ids /\ A \in Copies /\ C \in Copies \union Batches
    BY <1>4, <1>6, <1>8
  <2>2. Before(m, n)
    BY <1>7, <1>12, <2>1
  <2> QED
    BY <2>1, <2>2 DEF Landing
<1>13. ASSUME NEW m \in Ids, Handled(m)' PROVE m \in 1..minted
  <2>1. B \subseteq 1..minted
    BY DEF Landing, B
  <2> QED
    BY <1>9, <1>13, <2>1 DEF Landing
<1>14. \A j \in Slots : SeqSet(exec'[j].batch) \subseteq 1..minted /\ InOrder(exec[j].batch)' /\ Done(j)'
  <2> SUFFICES ASSUME NEW j \in Slots
               PROVE  SeqSet(exec'[j].batch) \subseteq 1..minted /\ InOrder(exec[j].batch)' /\ Done(j)'
    OBVIOUS
  <2>1. SeqSet(exec[j].batch) \subseteq 1..minted /\ InOrder(exec[j].batch) /\ Done(j)
    BY DEF Landing
  <2>2. InOrder(exec[j].batch)'
    BY <1>5, <2>1 DEF InOrder, Tie
  <2>3. CASE j # k
    <3>1. exec'[j] = exec[j] /\ exec[j].batch \in Seq(Ids)
      BY <1>1, <1>3, <2>3 DEF ServerTypes, ExecRow
    <3>2. \A i \in 1..Len(exec[j].batch) : exec[j].batch[i] \in Ids
      BY <3>1, ElementOfSeq
    <3>3. AtWork(j) => exec[j].at \in 1..Len(exec[j].batch) /\ Len(exec[j].batch) \in Nat
      BY <3>1, LenProperties DEF IInv, ExecOK
    <3>4. ASSUME AtWork(j), NEW i \in 1..(exec[j].at - 1) PROVE Handled(exec[j].batch[i])'
      <4>1. i \in 1..Len(exec[j].batch) /\ Handled(exec[j].batch[i])
        BY <2>1, <3>3, <3>4 DEF Done
      <4> QED
        BY <3>1, <3>2, <4>1
    <3>5. ASSUME exec[j].phase = "done", NEW i \in 1..Len(exec[j].batch) PROVE Handled(exec[j].batch[i])'
      <4>1. Handled(exec[j].batch[i])
        BY <2>1, <3>5 DEF Done
      <4> QED
        BY <3>1, <3>2, <4>1
    <3>6. Done(j)'
      BY <3>1, <3>4, <3>5 DEF Done, AtWork
    <3> QED
      BY <1>5, <2>1, <2>2, <3>6
  <2> QED
    BY <1>5, <2>1, <2>2, <2>3
<1> QED
  BY <1>11, <1>12, <1>13, <1>14 DEF Landing

\* The item an execution finishes is handled.
LEMMA FinishLands ==
  ASSUME IInv, Ordered, Landing, NEW k \in Slots, AtWork(k),
         NEW result \in Result, result.status # "none", Finish(k, result),
         UNCHANGED <<minted, mut, queue, idb, carried>>,
         \A m \in Ids : Handled(m) => Handled(m)',
         \A m \in Ids : Handled(m)' => Handled(m) \/ m = CurrentItem(k),
         NEW i \in Ids, i = CurrentItem(k), Handled(i)'
  PROVE  Landing'
<1>1. ServerTypes /\ ExecOK(k) /\ Done(k)
  BY DEF IInv, Landing
<1>2. /\ exec[k].at \in 1..Len(exec[k].batch) /\ Len(exec[k].batch) \in Nat
      /\ \A j \in 1..Len(exec[k].batch) : exec[k].batch[j] \in Ids
  BY <1>1, ItemRow
<1>3. PICK r \in ExecRow :
           /\ exec' = [exec EXCEPT ![k] = r]
           /\ r.batch = exec[k].batch
           /\ r.phase = IF Ended(exec[k]) THEN "done" ELSE "look"
           /\ r.at = IF Ended(exec[k]) THEN exec[k].at ELSE exec[k].at + 1
  BY <1>1, FinishMove
<1>4. exec'[k] = r
  BY <1>1, <1>3 DEF ServerTypes
<1>5. ASSUME NEW j \in 1..exec[k].at PROVE Handled(exec[k].batch[j])'
  <2>0. exec'[k].batch = exec[k].batch /\ exec[k].batch[j] \in Ids
    BY <1>2, <1>3, <1>4
  <2>1. CASE j = exec[k].at
    <3>1. exec'[k].batch[j] = i
      BY <2>0, <2>1 DEF CurrentItem
    <3> QED
      BY <3>1 DEF Handled
  <2>2. CASE j # exec[k].at
    <3>1. j \in 1..(exec[k].at - 1)
      BY <1>2, <2>2
    <3>2. Handled(exec[k].batch[j])
      BY <1>1, <3>1 DEF Done
    <3> QED
      BY <2>0, <3>2
  <2> QED
    BY <2>1, <2>2
<1>6. Done(k)'
  <2>1. CASE Ended(exec[k])
    <3>1. exec'[k].phase = "done" /\ Len(exec'[k].batch) = exec[k].at
      BY <1>3, <1>4, <2>1 DEF Ended
    <3> QED
      BY <1>5, <3>1 DEF Done, AtWork
  <2>2. CASE ~Ended(exec[k])
    <3>1. exec'[k].phase = "look" /\ exec'[k].at - 1 = exec[k].at
      BY <1>2, <1>3, <1>4, <2>2
    <3> QED
      BY <1>5, <3>1 DEF Done, AtWork
  <2> QED
    BY <2>1, <2>2
<1> QED
  BY <1>3, <1>6, ItemLands

\* The steps of an execution.
LEMMA WorkLands ==
  ASSUME IInv, Ordered, Landing, NEW k \in Slots,
         Lookup(k) \/ Apply(k) \/ Refuse(k) \/ Record(k) \/ RecordFails(k)
  PROVE  Landing'
<1>1. ServerTypes /\ ExecOK(k) /\ AtWork(k) /\ Done(k)
  BY DEF IInv, Landing, Lookup, Apply, Refuse, Record, RecordFails, AtWork
<1>2. /\ exec[k] \in ExecRow /\ exec[k].at \in 1..Len(exec[k].batch) /\ Len(exec[k].batch) \in Nat
      /\ CurrentItem(k) \in Ids
      /\ \A j \in 1..Len(exec[k].batch) : exec[k].batch[j] \in Ids
  BY <1>1, ItemRow
<1>3. UNCHANGED <<minted, mut, queue, idb, carried>>
  BY DEF Lookup, Apply, Refuse, Record, RecordFails, tabVars
<1>4. \A m \in Ids : times[m] \in Nat
  BY <1>1 DEF ServerTypes
\* The item is not finished yet.
<1>5. ASSUME NEW r \in ExecRow, exec' = [exec EXCEPT ![k] = r], r.batch = exec[k].batch, r.at = exec[k].at,
             r.phase # "done",
             \A m \in Ids : Handled(m) => Handled(m)',
             \A m \in Ids : Handled(m)' => Handled(m) \/ m = CurrentItem(k)
      PROVE  Landing'
  <2>1. exec'[k] = r
    BY <1>1, <1>5 DEF ServerTypes
  <2>2. ASSUME NEW j \in 1..(exec[k].at - 1) PROVE Handled(exec[k].batch[j])'
    <3>1. Handled(exec[k].batch[j]) /\ exec[k].batch[j] \in Ids /\ exec'[k].batch = exec[k].batch
      BY <1>1, <1>2, <1>5, <2>1 DEF Done
    <3> QED
      BY <1>5, <3>1
  <2>3. Done(k)'
    BY <1>5, <2>1, <2>2 DEF Done
  <2> QED
    BY <1>1, <1>3, <1>5, <2>3, ItemLands
<1> DEFINE item == CurrentItem(k)
<1>6. \A s \in {"applied", "rejected"} : \A m \in Ids :
         /\ m # item => Recorded(item, s)[m] = ledger[m]
         /\ m = item => Recorded(item, s)[m] # "none"
         /\ ledger[m] # "none" => Recorded(item, s)[m] # "none"
  <2> HIDE DEF item
  <2> QED
    BY <1>1 DEF Recorded, ServerTypes
<1> DEFINE rejection == [NoResult EXCEPT !.status = "rejected"]
<1> DEFINE ok == [NoResult EXCEPT !.status = "ok"]
<1>7. rejection \in Result /\ rejection.status = "rejected" /\ ok \in Result /\ ok.status = "ok"
  BY NoResultRow DEF NoResult, Result, Statuses
<1> HIDE DEF rejection, ok
<1>8. CASE Lookup(k)
  <2>1. UNCHANGED <<ledger, times>>
    BY <1>8 DEF Lookup
  <2>2. \A m : Handled(m)' <=> Handled(m)
    BY <2>1 DEF Handled
  <2>3. CASE ledger[item] = "none"
    <3> DEFINE r == [exec[k] EXCEPT !.phase = "apply"]
    <3>1. exec' = [exec EXCEPT ![k] = r]
      BY <1>8, <2>3 DEF Lookup
    <3>2. r \in ExecRow /\ r.phase = "apply" /\ r.batch = exec[k].batch /\ r.at = exec[k].at
      BY <1>2 DEF ExecRow
    <3> HIDE DEF r
    <3> QED
      BY <1>5, <2>2, <3>1, <3>2
  <2>4. CASE ledger[item] # "none"
    <3>1. Finish(k, rejection) \/ Finish(k, ok)
      BY <1>8, <2>4 DEF Lookup, rejection, ok
    <3>3. PICK i \in Ids : i = item
      BY <1>2
    <3>4. Handled(i)'
      BY <2>1, <2>4, <3>3 DEF Handled
    <3> HIDE DEF item
    <3> QED
      BY <1>1, <1>3, <1>7, <2>2, <3>1, <3>3, <3>4, FinishLands DEF item
  <2> QED
    BY <2>3, <2>4
<1>9. CASE Apply(k)
  <2> DEFINE r == exec'[k]
  <2>1. /\ UNCHANGED ledger /\ times' = [times EXCEPT ![item] = times[item] + 1]
    BY <1>9 DEF Apply
  <2>2. \A m \in Ids : times'[m] = IF m = item THEN times[m] + 1 ELSE times[m]
    <3> HIDE DEF item
    <3> QED
      BY <1>1, <2>1 DEF ServerTypes
  <2>3. (\A m \in Ids : Handled(m) => Handled(m)') /\ (\A m \in Ids : Handled(m)' => Handled(m) \/ m = item)
    <3> HIDE DEF item
    <3> QED
      BY <1>4, <2>1, <2>2 DEF Handled
  <2>4. r \in ExecRow
    BY <1>9, ApplyKeeps DEF IInv, ServerTypes
  <2>5. \E x : exec' = [exec EXCEPT ![k] = [exec[k] EXCEPT !.phase = "applied", !.results = x]]
    <3>1. exec' = [exec EXCEPT ![k].phase = "applied",
                       ![k].results[item] = [status |-> "ok", hasRow |-> TRUE, row |-> RowOf(srv')]]
      BY <1>9 DEF Apply
    <3> HIDE DEF item
    <3>2. exec' = [exec EXCEPT ![k] = [exec[k] EXCEPT !.phase = "applied", !.results =
                      [exec[k].results EXCEPT ![item] = [status |-> "ok", hasRow |-> TRUE, row |-> RowOf(srv')]]]]
      BY <1>1, <1>2, <3>1 DEF ServerTypes, ExecRow
    <3> QED
      BY <3>2
  <2>6. /\ exec' = [exec EXCEPT ![k] = r] /\ r.phase = "applied"
        /\ r.batch = exec[k].batch /\ r.at = exec[k].at
    BY <1>1, <1>2, <2>5 DEF ServerTypes, ExecRow
  <2> HIDE DEF r
  <2> QED
    BY <1>5, <2>3, <2>4, <2>6
<1>10. CASE Refuse(k)
  <2> DEFINE r == [exec[k] EXCEPT !.phase = "refused"]
  <2>1. exec' = [exec EXCEPT ![k] = r] /\ UNCHANGED <<ledger, times>>
    BY <1>10 DEF Refuse
  <2>2. \A m : Handled(m)' <=> Handled(m)
    BY <2>1 DEF Handled
  <2>3. r \in ExecRow /\ r.phase = "refused" /\ r.batch = exec[k].batch /\ r.at = exec[k].at
    BY <1>2 DEF ExecRow
  <2> HIDE DEF r
  <2> QED
    BY <1>5, <2>1, <2>2, <2>3
<1>11. CASE Record(k) \/ RecordFails(k)
  <2>1. times' = times
    BY <1>11 DEF Record, RecordFails
  <2>2. \/ /\ Finish(k, exec[k].results[item]) /\ exec[k].phase = "applied"
           /\ ledger' = Recorded(item, "applied")
        \/ /\ Finish(k, rejection)
           /\ ledger' = Recorded(item, "rejected") \/ (exec[k].phase = "applied" /\ ledger' = ledger)
    BY <1>11 DEF Record, RecordFails, rejection
  <2>3. \A m \in Ids : Handled(m) => Handled(m)'
    BY <1>6, <2>1, <2>2 DEF Handled
  <2>4. \A m \in Ids : Handled(m)' => Handled(m) \/ m = item
    BY <1>6, <2>1, <2>2 DEF Handled
  <2>5. PICK i \in Ids : i = item
    BY <1>2
  <2>6. exec[k].phase = "applied" => times[i] > 0
    <3>1. ASSUME exec[k].phase = "applied", times[i] = 0 PROVE FALSE
      <4>1. exec[k].results[i].status = "ok"
        BY <1>1, <2>5, <3>1 DEF ExecOK
      <4> QED
        BY <3>1, <4>1 DEF IInv, Unapplied
    <3> QED
      BY <1>4, <3>1
  <2>7. Handled(i)'
    BY <1>6, <2>1, <2>2, <2>5, <2>6 DEF Handled
  <2>8. exec[k].phase = "applied" => exec[k].results[item] \in Result /\ exec[k].results[item].status = "ok"
    BY <1>1, <1>2 DEF ExecOK, ExecRow
  <2>9. PICK result \in Result : result.status # "none" /\ Finish(k, result)
    BY <1>7, <2>2, <2>8
  <2> QED
    BY <1>1, <1>3, <2>3, <2>4, <2>5, <2>7, <2>9, FinishLands
<1> QED
  BY <1>8, <1>9, <1>10, <1>11

\* Every step.
LEMMA LandKept ==
  ASSUME "expire" \notin Faults, IInv, Ordered, Landing, [Next]_vars
  PROVE  Landing'
<1>1. ClientTypes /\ ServerTypes
  BY DEF IInv
<1>2. ASSUME UNCHANGED <<minted, mut, queue, idb, carried, exec, ledger, times>> PROVE Landing'
  <2>1. Copies' = Copies
    BY <1>2 DEF Copies
  <2> QED
    BY <1>2, <2>1, LandStays
<1>3. Idle.batch = <<>> /\ Idle.phase = "free"
      /\ [Idle EXCEPT !.phase = "dead"].batch = <<>> /\ [Idle EXCEPT !.phase = "dead"].phase = "dead"
  BY DEF Idle
<1>4. ASSUME NEW t \in Tabs, Create(t) \/ \E f \in Fields : Update(t, f) PROVE Landing'
  BY <1>4, EditLands DEF Create, Update
<1>5. ASSUME NEW t \in Tabs, SavePending(t) \/ SaveCarried(t) PROVE Landing'
  <2>1. UNCHANGED <<minted, mut, queue, exec, ledger, times>>
    BY <1>5 DEF SavePending, SaveCarried
  <2>2. idb' \in Copies /\ \A u \in Tabs : carried'[u] = carried[u] \/ carried'[u] = <<>>
    BY <1>1, <1>5 DEF SavePending, SaveCarried, Copies, ClientTypes
  <2>3. Copies' \subseteq Copies \union {{}}
    BY <2>1, <2>2, EmptySet DEF Copies
  <2> QED
    BY <2>1, <2>3, LandStays
<1>6. ASSUME NEW t \in Tabs, Reset(t) \/ Reopen(t) PROVE Landing'
  <2>1. UNCHANGED <<minted, mut, queue, exec, ledger, times>>
    BY <1>6 DEF Reset, Reopen
  <2>2. idb' \in {{}, idb} /\ \A u \in Tabs : carried'[u] \in {carried[u], <<>>, queue[t]}
    BY <1>1, <1>6 DEF Reset, Reopen, Destroy, ClientTypes
  <2>3. Copies' \subseteq Copies \union {{}}
    BY <2>1, <2>2, EmptySet DEF Copies
  <2> QED
    BY <2>1, <2>3, LandStays
<1>7. ASSUME NEW t \in Tabs, Reload(t) PROVE Landing'
  <2>1. UNCHANGED <<minted, mut, ledger, times>>
    BY <1>7 DEF Reload
  <2>2. PICK q \in ReplayOrders(idb) \union {<<>>} :
          /\ Loaded(t, q) \/ Poisoned(t, q) \/ Unreadable(t, q)
          /\ queue' = [queue EXCEPT ![t] = q]
    BY <1>7 DEF Reload
  <2>3. SeqSet(q) \in Copies \union {{}}
    BY <1>1, <2>2, ReplayOnce, EmptySet DEF Copies
  <2>4. idb' \in {{}, idb} /\ \A u \in Tabs : carried'[u] \in {carried[u], <<>>, q}
    BY <1>1, <2>2 DEF Loaded, Poisoned, Unreadable, Destroy, ClientTypes
  <2>5. \A u \in Tabs : queue'[u] \in {queue[u], q}
    BY <1>1, <2>2 DEF ClientTypes
  <2>6. Copies' \subseteq Copies \union {{}}
    BY <2>3, <2>4, <2>5, EmptySet DEF Copies
  <2>7. \A k \in Slots : exec'[k] = exec[k] \/ exec'[k] = Idle
    BY <1>7 DEF Reload
  <2> QED
    BY <1>3, <2>1, <2>6, <2>7, LandStays
<1>8. ASSUME NEW t \in Tabs, LoseAnswer(t) PROVE Landing'
  <2>1. UNCHANGED <<minted, mut, queue, idb, carried, ledger, times>>
    BY <1>8 DEF LoseAnswer, Fail
  <2>2. \A k \in Slots : exec'[k] = exec[k] \/ exec'[k] = Idle
    BY <1>1, <1>8 DEF LoseAnswer, Fail, ServerTypes
  <2>3. Copies' = Copies
    BY <2>1 DEF Copies
  <2> QED
    BY <1>3, <2>1, <2>2, <2>3, LandStays
<1>9. ASSUME NEW k \in Slots, Crash(k) \/ Discard(k) PROVE Landing'
  <2>1. UNCHANGED <<minted, mut, queue, idb, carried, ledger, times>>
    BY <1>9 DEF Crash, Discard, tabVars
  <2>2. \A j \in Slots : exec'[j] = exec[j] \/ exec'[j] = Idle \/ exec'[j] = [Idle EXCEPT !.phase = "dead"]
    BY <1>1, <1>9 DEF Crash, Discard, ServerTypes
  <2>3. Copies' = Copies
    BY <2>1 DEF Copies
  <2> QED
    BY <1>3, <2>1, <2>2, <2>3, LandStays
<1>10. ASSUME NEW t \in Tabs, Answer(t) PROVE Landing'
  BY <1>10, AnswerLands
<1>11. ASSUME NEW t \in Tabs, NEW k \in Slots, Flush(t, k) PROVE Landing'
  BY <1>11, FlushLands
<1>12. ASSUME NEW k \in Slots, Lookup(k) \/ Apply(k) \/ Refuse(k) \/ Record(k) \/ RecordFails(k) PROVE Landing'
  BY <1>12, WorkLands
<1>13. ASSUME NEW t \in Tabs, Pull(t) \/ FlushReturns(t) \/ Online(t) PROVE Landing'
  BY <1>2, <1>13 DEF Pull, FlushReturns, Online
<1>14. CASE (\E f \in Fields : OtherEdit(f)) \/ UNCHANGED vars
  BY <1>2, <1>14 DEF OtherEdit, vars, tabVars
<1>15. ~ExpireLedger
  BY DEF ExpireLedger
<1> QED
  BY <1>4, <1>5, <1>6, <1>7, <1>8, <1>9, <1>10, <1>11, <1>12, <1>13, <1>14, <1>15 DEF Next

\* Where the ledger outlives the queues, the server handles no edit ahead of an
\* earlier one that waits in the same queue, whatever is lost, sent again, reset
\* or read back in the order of the stamps; edits of one millisecond excepted.
THEOREM EditsAreInOrder ==
  ASSUME "expire" \notin Faults
  PROVE  Spec => []EditsLandInOrder
<1>1. Init => Landing
  <2> SUFFICES ASSUME Init PROVE Landing
    OBVIOUS
  <2>1. /\ \A A \in Copies : A = {}
        /\ \A k \in Slots : exec[k].batch = <<>> /\ exec[k].phase = "free"
    BY EmptySet DEF Init, Copies, Idle
  <2>2. \A m \in Ids : ~Handled(m)
    BY DEF Init, Handled
  <2>3. Len(<<>>) = 0 /\ SeqSet(<<>>) = {}
    BY EmptySet, EmptySeq
  <2>4. ASSUME NEW k \in Slots
        PROVE  SeqSet(exec[k].batch) \subseteq 1..minted /\ InOrder(exec[k].batch) /\ Done(k)
    BY <2>1, <2>3 DEF InOrder, Done, AtWork
  <2> QED
    BY <2>1, <2>2, <2>4 DEF Landing
<1>2. IInv /\ Ordered /\ Landing /\ [Next]_vars => Landing'
  BY LandKept
<1>3. IInv /\ Ordered /\ Landing => EditsLandInOrder
  <2> SUFFICES ASSUME IInv, Ordered, Landing, NEW t \in Tabs, NEW m \in SeqSet(queue[t]), NEW n \in SeqSet(queue[t]),
                      m < n, Handled(n)
               PROVE  Handled(m) \/ mut[m].stamp = mut[n].stamp
    BY DEF EditsLandInOrder
  <2>1. SeqSet(queue[t]) \in Copies
    BY DEF Copies
  <2>2. ~Before(m, n)
    BY <2>1 DEF Landing
  <2> QED
    BY <2>2 DEF Before, Tie
<1> QED
  BY <1>1, <1>2, <1>3, Inductive, Ordering, PTL DEF Spec

-----------------------------------------------------------------------------
(* Nothing between the steps of an execution: edits are applied as told. *)

\* While an execution is under way no other is.
LEMMA Alone ==
  ASSUME IInv, OneExec, NEW k \in Slots, exec[k].phase # "free"
  PROVE  \A j \in Slots : exec[j].phase # "free" => j = k
<1>1. PICK t \in Tabs : flight[t] = k
  BY DEF OneExec
<1>2. ASSUME NEW j \in Slots, exec[j].phase # "free" PROVE j = k
  <2>1. PICK u \in Tabs : flight[u] = j
    BY <1>2 DEF OneExec
  <2>2. flight[t] # 0 /\ flight[u] # 0
    BY <1>1, <2>1, MutationQueueAssumption
  <2>3. t = u
    BY <2>2 DEF OneExec
  <2> QED
    BY <1>1, <2>1, <2>3
<1> QED
  BY <1>2

\* An item that is not about to be recorded is in the ledger if it was applied.
LEMMA NotPending ==
  ASSUME IInv, AsTold, NEW k \in Slots, exec[k].phase \notin {"free", "applied"}
  PROVE  \A m \in Ids : ~Pending(m)
<1>1. \A j \in Slots : exec[j].phase # "free" => j = k
  BY Alone DEF AsTold
<1> QED
  BY <1>1 DEF Pending

\* The one execution takes a step.
LEMMA ExecTold ==
  ASSUME IInv, AsTold, NEW k \in Slots, exec[k].phase # "free", NEW r \in ExecRow,
         exec' = [exec EXCEPT ![k] = r], UNCHANGED <<flight, told>>, Fresh(k)',
         \A m \in Ids :
            /\ times'[m] <= 1
            /\ times'[m] = 1 => ledger'[m] = "applied" \/ (r.phase = "applied" /\ r.batch[r.at] = m)
            /\ ledger'[m] = "rejected" => times'[m] = 0
            /\ ledger[m] = "rejected" => ledger'[m] = "rejected"
            /\ r.results[m].status = "rejected" =>
                 exec[k].results[m].status = "rejected" \/ ledger'[m] = "rejected"
  PROVE  AsTold'
<1>1. exec'[k] = r /\ \A j \in Slots : j # k => exec'[j] = exec[j]
  BY DEF IInv, ServerTypes
<1>2. \A j \in Slots : j # k => exec[j].phase = "free"
  BY Alone DEF AsTold
<1>3. OneExec'
  <2>1. OneExec
    BY DEF AsTold
  <2>2. ASSUME NEW j \in Slots, exec'[j].phase # "free" PROVE \E t \in Tabs : flight'[t] = j
    <3>1. exec[j].phase # "free"
      BY <1>1, <2>2
    <3> QED
      BY <2>1, <3>1 DEF OneExec
  <2> QED
    BY <2>1, <2>2 DEF OneExec
<1>4. ASSUME NEW m \in Ids PROVE Told(m)'
  <2>1. times'[m] = 1 => ledger'[m] = "applied" \/ Pending(m)'
    BY <1>1 DEF Pending, CurrentItem
  <2>2. Told(m)
    BY DEF AsTold
  <2>3. told'[m] = "rejected" => ledger'[m] = "rejected"
    BY <2>2 DEF Told
  <2>4. ASSUME NEW j \in Slots, exec'[j].results[m].status = "rejected" PROVE ledger'[m] = "rejected"
    <3>1. exec[j].results[m].status = "rejected" \/ ledger'[m] = "rejected"
      BY <1>1, <2>4
    <3> QED
      BY <2>2, <3>1 DEF Told
  <2> QED
    BY <2>1, <2>3, <2>4 DEF Told
<1>5. ASSUME NEW j \in Slots PROVE Fresh(j)'
  <2>1. CASE j = k
    BY <2>1
  <2>2. CASE j # k
    <3>1. exec'[j].phase = "free"
      BY <1>1, <1>2, <2>2
    <3> QED
      BY <3>1 DEF Fresh
  <2> QED
    BY <2>1, <2>2
<1> QED
  BY <1>3, <1>4, <1>5 DEF AsTold

\* A tab stops waiting: its execution was over.
LEMMA WaitEndsTold ==
  ASSUME IInv, AsTold, NEW t \in Tabs, UNCHANGED <<ledger, times>>,
         flight' = [flight EXCEPT ![t] = 0],
         flight[t] # 0 => exec[flight[t]].phase \in {"done", "dead"},
         \A k \in Slots : exec'[k] = IF k = flight[t] THEN Idle ELSE exec[k],
         \A m \in Ids : told'[m] = "rejected" =>
            told[m] = "rejected" \/ \E k \in Slots : exec[k].results[m].status = "rejected"
  PROVE  AsTold'
<1>0. flight \in [Tabs -> Slots \union {0}] /\ 0 \notin Slots
  BY MutationQueueAssumption DEF IInv, ClientTypes
<1>1. flight'[t] = 0 /\ \A u \in Tabs : u # t => flight'[u] = flight[u]
  BY <1>0
<1>2. Idle.phase = "free" /\ \A m \in Ids : Idle.results[m].status = "none"
  BY DEF Idle, NoResult
<1>3. OneExec'
  <2>1. \A u, v \in Tabs : flight'[u] # 0 /\ flight'[v] # 0 => u = v
    BY <1>1 DEF AsTold, OneExec
  <2>2. ASSUME NEW k \in Slots, exec'[k].phase # "free" PROVE \E u \in Tabs : flight'[u] = k
    <3>1. k # flight[t] /\ exec[k].phase # "free"
      BY <1>2, <2>2
    <3>2. PICK u \in Tabs : flight[u] = k
      BY <3>1 DEF AsTold, OneExec
    <3>3. u # t
      BY <3>1, <3>2
    <3> QED
      BY <1>1, <3>2, <3>3
  <2> QED
    BY <2>1, <2>2 DEF OneExec
<1>4. \A k \in Slots : exec[k].phase = "applied" => exec'[k] = exec[k]
  BY <1>0
<1>5. ASSUME NEW m \in Ids PROVE Told(m)'
  <2>1. Told(m)
    BY DEF AsTold
  <2>2. Pending(m) => Pending(m)'
    BY <1>4 DEF Pending, CurrentItem
  <2>3. \A k \in Slots : exec'[k].results[m].status = "rejected" => exec[k].results[m].status = "rejected"
    BY <1>2
  <2> QED
    BY <2>1, <2>2, <2>3 DEF Told
<1>6. ASSUME NEW k \in Slots PROVE Fresh(k)'
  <2>1. Fresh(k)
    BY DEF AsTold
  <2>2. CASE exec'[k] = exec[k]
    BY <2>1, <2>2 DEF Fresh, CurrentItem
  <2>3. CASE exec'[k] = Idle
    BY <1>2, <2>3 DEF Fresh
  <2> QED
    BY <2>2, <2>3
<1> QED
  BY <1>3, <1>5, <1>6 DEF AsTold

\* A flush starts the one execution.
LEMMA FlushTold ==
  ASSUME IInv, AsTold, NEW t \in Tabs, NEW k \in Slots, Flush(t, k)
  PROVE  AsTold'
<1>1. ClientTypes /\ ServerTypes
  BY DEF IInv
<1>2. PICK r \in ExecRow : /\ exec' = [exec EXCEPT ![k] = r] /\ r.phase = "look"
                           /\ \A m \in Ids : r.results[m].status = "none"
  BY <1>1, FlushRow
<1>3. exec'[k] = r /\ \A j \in Slots : j # k => exec'[j] = exec[j]
  BY <1>1, <1>2 DEF ServerTypes
<1>4. /\ \A u \in Tabs : flight[u] = 0
      /\ UNCHANGED <<ledger, times, told>>
      /\ flight' = [flight EXCEPT ![t] = k]
  BY DEF Flush
<1>5. flight'[t] = k /\ \A u \in Tabs : u # t => flight'[u] = 0
  BY <1>1, <1>4 DEF ClientTypes
<1>6. \A j \in Slots : exec[j].phase = "free"
  BY <1>4, MutationQueueAssumption DEF AsTold, OneExec
<1>7. OneExec'
  BY <1>3, <1>5, <1>6 DEF OneExec
<1>8. ASSUME NEW m \in Ids PROVE Told(m)'
  <2>1. Told(m) /\ ~Pending(m)
    BY <1>6 DEF AsTold, Pending
  <2>2. \A j \in Slots : exec'[j].results[m].status = "rejected" => exec[j].results[m].status = "rejected"
    BY <1>2, <1>3
  <2> QED
    BY <1>4, <2>1, <2>2 DEF Told
<1>9. ASSUME NEW j \in Slots PROVE Fresh(j)'
  BY <1>2, <1>3, <1>6 DEF Fresh
<1> QED
  BY <1>7, <1>8, <1>9 DEF AsTold

\* The lookup answers from the ledger, or finds the item new.
LEMMA LookupTold ==
  ASSUME IInv, AsTold, NEW k \in Slots, Lookup(k)
  PROVE  AsTold'
<1>1. ClientTypes /\ ServerTypes /\ ExecOK(k) /\ AtWork(k) /\ exec[k].phase = "look"
  BY DEF IInv, Lookup, AtWork
<1>2. /\ exec[k] \in ExecRow /\ exec[k].at \in 1..Len(exec[k].batch)
      /\ Len(exec[k].batch) \in Nat /\ CurrentItem(k) \in Ids
  BY <1>1, ItemRow
<1>3. UNCHANGED <<flight, told, ledger, times>>
  BY DEF Lookup, tabVars
<1>4. ASSUME NEW m \in Ids
      PROVE  /\ times[m] <= 1 /\ (times[m] = 1 => ledger[m] = "applied")
             /\ (ledger[m] = "rejected" => times[m] = 0)
  <2>1. ~Pending(m) /\ Told(m)
    BY <1>1, NotPending DEF AsTold
  <2> QED
    BY <2>1 DEF Told
<1>5. CASE ledger[CurrentItem(k)] = "none"
  <2> DEFINE r == [exec[k] EXCEPT !.phase = "apply"]
  <2>1. exec' = [exec EXCEPT ![k] = r]
    BY <1>5 DEF Lookup
  <2>2. r \in ExecRow /\ r.phase = "apply" /\ r.results = exec[k].results /\ r.batch = exec[k].batch /\ r.at = exec[k].at
    BY <1>2 DEF ExecRow
  <2> HIDE DEF r
  <2>3. exec'[k] = r
    BY <1>1, <2>1 DEF ServerTypes
  <2>4. times[CurrentItem(k)] = 0
    <3>1. times[CurrentItem(k)] \in Nat
      BY <1>1, <1>2 DEF ServerTypes
    <3> QED
      BY <1>2, <1>4, <1>5, <3>1
  <2>5. Fresh(k)'
    BY <1>3, <1>5, <2>2, <2>3, <2>4 DEF Fresh, CurrentItem
  <2> QED
    BY <1>1, <1>3, <1>4, <2>1, <2>2, <2>5, ExecTold
<1>6. CASE ledger[CurrentItem(k)] # "none"
  <2> DEFINE result == [NoResult EXCEPT !.status = IF ledger[CurrentItem(k)] = "rejected" THEN "rejected" ELSE "ok"]
  <2>1. Finish(k, result)
    BY <1>6 DEF Lookup
  <2>2. result \in Result /\ result.status = IF ledger[CurrentItem(k)] = "rejected" THEN "rejected" ELSE "ok"
    BY NoResultRow DEF NoResult, Result, Statuses
  <2> HIDE DEF result
  <2>3. PICK r \in ExecRow :
           /\ exec' = [exec EXCEPT ![k] = r]
           /\ r.results = [exec[k].results EXCEPT ![CurrentItem(k)] = result]
           /\ r.phase = IF Ended(exec[k]) THEN "done" ELSE "look"
    BY <1>1, <2>1, <2>2, FinishMove
  <2>4. exec'[k] = r
    BY <1>1, <2>3 DEF ServerTypes
  <2>5. Fresh(k)'
    BY <2>3, <2>4 DEF Fresh
  <2>6. ASSUME NEW m \in Ids, r.results[m].status = "rejected"
        PROVE  exec[k].results[m].status = "rejected" \/ ledger[m] = "rejected"
    <3>1. CASE m = CurrentItem(k)
      <4>1. result.status = "rejected"
        BY <1>2, <2>3, <2>6, <3>1 DEF ExecRow
      <4> QED
        BY <2>2, <3>1, <4>1
    <3>2. CASE m # CurrentItem(k)
      BY <1>2, <2>3, <2>6, <3>2 DEF ExecRow
    <3> QED
      BY <3>1, <3>2
  <2> QED
    BY <1>1, <1>3, <1>4, <2>3, <2>5, <2>6, ExecTold
<1> QED
  BY <1>5, <1>6

\* The item is applied once: it was new.
LEMMA ApplyTold ==
  ASSUME IInv, AsTold, NEW k \in Slots, Apply(k)
  PROVE  AsTold'
<1>1. ClientTypes /\ ServerTypes /\ ExecOK(k) /\ AtWork(k) /\ exec[k].phase = "apply" /\ IInv'
  BY ApplyKeeps DEF IInv, Apply, AtWork
<1>2. exec[k] \in ExecRow /\ CurrentItem(k) \in Ids
  BY <1>1, ItemRow
<1>3. UNCHANGED <<flight, told, ledger>>
  BY DEF Apply, tabVars
<1> DEFINE item == CurrentItem(k)
<1> DEFINE result == [status |-> "ok", hasRow |-> TRUE, row |-> RowOf(srv')]
<1> DEFINE r == exec'[k]
<1>4. exec' = [exec EXCEPT ![k] = [exec[k] EXCEPT !.phase = "applied", !.results = [exec[k].results EXCEPT ![item] = result]]]
  BY <1>1, <1>2 DEF Apply, ServerTypes, ExecRow
<1>5. /\ r.phase = "applied" /\ r.batch = exec[k].batch /\ r.at = exec[k].at
      /\ r.results = [exec[k].results EXCEPT ![item] = result]
  <2> HIDE DEF item, result
  <2> QED
    BY <1>1, <1>2, <1>4 DEF ServerTypes, ExecRow
<1>6. exec' = [exec EXCEPT ![k] = r] /\ r \in ExecRow
  <2>1. r \in ExecRow
    BY <1>1 DEF IInv, ServerTypes
  <2> HIDE DEF item, result
  <2> QED
    BY <1>1, <1>4, <2>1 DEF ServerTypes
<1>7. result.status = "ok"
  OBVIOUS
<1>8. \A m \in Ids : times'[m] = IF m = item THEN times[m] + 1 ELSE times[m]
  <2>1. times' = [times EXCEPT ![item] = times[item] + 1]
    BY DEF Apply
  <2> HIDE DEF item
  <2> QED
    BY <1>1, <2>1 DEF ServerTypes
<1>9. ledger[item] = "none" /\ times[item] = 0
  BY <1>1 DEF AsTold, Fresh
<1>10. Fresh(k)'
  BY <1>3, <1>5, <1>9 DEF Fresh, CurrentItem
<1>11. r.batch[r.at] = item
  BY <1>5 DEF CurrentItem
<1> HIDE DEF r, result, item
<1>12. ASSUME NEW m \in Ids
       PROVE  /\ times'[m] <= 1
              /\ times'[m] = 1 => ledger'[m] = "applied" \/ (r.phase = "applied" /\ r.batch[r.at] = m)
              /\ ledger'[m] = "rejected" => times'[m] = 0
              /\ ledger[m] = "rejected" => ledger'[m] = "rejected"
              /\ r.results[m].status = "rejected" =>
                   exec[k].results[m].status = "rejected" \/ ledger'[m] = "rejected"
  <2>1. ~Pending(m) /\ Told(m)
    BY <1>1, NotPending DEF AsTold
  <2>2. CASE m = item
    <3>1. r.results[m].status = "ok"
      BY <1>2, <1>5, <1>7, <2>2 DEF ExecRow
    <3> QED
      BY <1>3, <1>5, <1>8, <1>9, <1>11, <2>2, <3>1
  <2>3. CASE m # item
    <3>1. r.results[m] = exec[k].results[m]
      BY <1>2, <1>5, <2>3 DEF ExecRow
    <3> QED
      BY <1>3, <1>8, <2>1, <2>3, <3>1 DEF Told
  <2> QED
    BY <2>2, <2>3
<1> QED
  BY <1>1, <1>3, <1>6, <1>10, <1>12, ExecTold

\* The item is refused.
LEMMA RefuseTold ==
  ASSUME IInv, AsTold, NEW k \in Slots, Refuse(k)
  PROVE  AsTold'
<1>1. ClientTypes /\ ServerTypes /\ exec[k].phase = "apply" /\ exec[k] \in ExecRow
  BY DEF IInv, Refuse, ServerTypes
<1>2. UNCHANGED <<flight, told, ledger, times>>
  BY DEF Refuse, tabVars
<1> DEFINE r == [exec[k] EXCEPT !.phase = "refused"]
<1>3. exec' = [exec EXCEPT ![k] = r]
  BY DEF Refuse
<1>4. r \in ExecRow /\ r.phase = "refused" /\ r.results = exec[k].results /\ r.batch = exec[k].batch /\ r.at = exec[k].at
  BY <1>1 DEF ExecRow
<1> HIDE DEF r
<1>5. exec'[k] = r
  BY <1>1, <1>3 DEF ServerTypes
<1>6. Fresh(k)'
  BY <1>1, <1>2, <1>4, <1>5 DEF AsTold, Fresh, CurrentItem
<1>7. ASSUME NEW m \in Ids
      PROVE  /\ times[m] <= 1 /\ (times[m] = 1 => ledger[m] = "applied")
             /\ (ledger[m] = "rejected" => times[m] = 0)
  <2>1. ~Pending(m) /\ Told(m)
    BY <1>1, NotPending DEF AsTold
  <2> QED
    BY <2>1 DEF Told
<1> QED
  BY <1>1, <1>2, <1>3, <1>4, <1>6, <1>7, ExecTold

\* What was done with the item is recorded.
LEMMA RecordTold ==
  ASSUME IInv, AsTold, NEW k \in Slots, Record(k)
  PROVE  AsTold'
<1>1. ClientTypes /\ ServerTypes /\ ExecOK(k) /\ AtWork(k)
  BY DEF IInv, Record, AtWork
<1>2. exec[k] \in ExecRow /\ CurrentItem(k) \in Ids
  BY <1>1, ItemRow
<1>3. UNCHANGED <<flight, told, times>>
  BY DEF Record, tabVars
<1> DEFINE item == CurrentItem(k)
<1> DEFINE rejection == [NoResult EXCEPT !.status = "rejected"]
<1>4. rejection \in Result /\ rejection.status = "rejected"
  BY NoResultRow DEF NoResult, Result, Statuses
<1>5. ASSUME NEW m \in Ids PROVE Told(m) /\ (Pending(m) => m = item /\ exec[k].phase = "applied")
  <2>1. exec[k].phase # "free"
    BY <1>1 DEF AtWork
  <2>2. \A j \in Slots : exec[j].phase # "free" => j = k
    BY <2>1, Alone DEF AsTold
  <2> QED
    BY <2>2 DEF AsTold, Pending
<1>6. ASSUME exec[k].phase \in {"applied", "refused"} PROVE ledger[item] = "none" /\ (exec[k].phase = "refused" => times[item] = 0)
  BY <1>6 DEF AsTold, Fresh
<1>7. \A s : \A m \in Ids : ledger[item] = "none" =>
         Recorded(item, s)[m] = IF m = item THEN s ELSE ledger[m]
  <2> HIDE DEF item
  <2> QED
    BY <1>1 DEF Recorded, ServerTypes
<1> HIDE DEF rejection
<1>8. CASE exec[k].phase = "applied" /\ ledger' = Recorded(item, "applied") /\ Finish(k, exec[k].results[item])
  <2>1. exec[k].results[item] \in Result /\ exec[k].results[item].status = "ok"
    BY <1>1, <1>2, <1>8 DEF ExecOK, ExecRow
  <2>2. PICK r \in ExecRow :
           /\ exec' = [exec EXCEPT ![k] = r]
           /\ r.results = [exec[k].results EXCEPT ![item] = exec[k].results[item]]
           /\ r.phase = IF Ended(exec[k]) THEN "done" ELSE "look"
    BY <1>1, <1>8, <2>1, FinishMove
  <2>3. r.results = exec[k].results
    BY <1>2, <2>2 DEF ExecRow
  <2>4. exec'[k] = r
    BY <1>1, <2>2 DEF ServerTypes
  <2>5. Fresh(k)'
    BY <2>2, <2>4 DEF Fresh
  <2>6. \A m \in Ids : ledger'[m] = IF m = item THEN "applied" ELSE ledger[m]
    BY <1>6, <1>7, <1>8
  <2> HIDE DEF item
  <2>7. ASSUME NEW m \in Ids
        PROVE  /\ times'[m] <= 1 /\ (times'[m] = 1 => ledger'[m] = "applied")
               /\ (ledger'[m] = "rejected" => times'[m] = 0)
               /\ (ledger[m] = "rejected" => ledger'[m] = "rejected")
    BY <1>3, <1>5, <1>6, <1>8, <2>6 DEF Told
  <2> QED
    BY <1>3, <1>8, <2>2, <2>3, <2>5, <2>7, ExecTold
<1>9. CASE exec[k].phase = "refused" /\ ledger' = Recorded(item, "rejected") /\ Finish(k, rejection)
  <2>1. PICK r \in ExecRow :
           /\ exec' = [exec EXCEPT ![k] = r]
           /\ r.results = [exec[k].results EXCEPT ![item] = rejection]
           /\ r.phase = IF Ended(exec[k]) THEN "done" ELSE "look"
    BY <1>1, <1>4, <1>9, FinishMove
  <2>2. exec'[k] = r
    BY <1>1, <2>1 DEF ServerTypes
  <2>3. Fresh(k)'
    BY <2>1, <2>2 DEF Fresh
  <2>4. \A m \in Ids : ledger'[m] = IF m = item THEN "rejected" ELSE ledger[m]
    BY <1>6, <1>7, <1>9
  <2> HIDE DEF item
  <2>5. ASSUME NEW m \in Ids
        PROVE  /\ times'[m] <= 1 /\ (times'[m] = 1 => ledger'[m] = "applied")
               /\ (ledger'[m] = "rejected" => times'[m] = 0)
               /\ (ledger[m] = "rejected" => ledger'[m] = "rejected")
    BY <1>3, <1>5, <1>6, <1>9, <2>4 DEF Told
  <2>6. ASSUME NEW m \in Ids, r.results[m].status = "rejected"
        PROVE  exec[k].results[m].status = "rejected" \/ ledger'[m] = "rejected"
    <3>1. CASE m = item
      BY <2>4, <3>1
    <3>2. CASE m # item
      BY <1>2, <2>1, <2>6, <3>2 DEF ExecRow
    <3> QED
      BY <3>1, <3>2
  <2> QED
    BY <1>3, <1>9, <2>1, <2>3, <2>5, <2>6, ExecTold
<1> QED
  BY <1>8, <1>9 DEF Record, rejection

\* Every step.
LEMMA ToldKept ==
  ASSUME Gaps \cap Faults = {}, IInv, AsTold, [Next]_vars
  PROVE  AsTold'
<1>0. "overlap" \notin Faults /\ "crash" \notin Faults /\ "ledger" \notin Faults /\ "expire" \notin Faults
  BY DEF Gaps
<1>1. ClientTypes /\ ServerTypes
  BY DEF IInv
<1>2. ASSUME UNCHANGED <<flight, exec, ledger, times, told>> PROVE AsTold'
  <2>1. OneExec'
    BY <1>2 DEF AsTold, OneExec
  <2>2. ASSUME NEW m \in Ids PROVE Told(m)'
    BY <1>2 DEF AsTold, Told, Pending, CurrentItem
  <2>3. ASSUME NEW k \in Slots PROVE Fresh(k)'
    BY <1>2 DEF AsTold, Fresh, CurrentItem
  <2> QED
    BY <2>1, <2>2, <2>3 DEF AsTold
<1>3. ASSUME NEW t \in Tabs, Answer(t) PROVE AsTold'
  <2>1. flight[t] \in Slots /\ exec[flight[t]] \in ExecRow /\ exec[flight[t]].phase = "done"
    BY <1>1, <1>3 DEF ClientTypes, ServerTypes, Answer, AnswerLeaving
  <2>2. /\ UNCHANGED <<ledger, times>> /\ flight' = [flight EXCEPT ![t] = 0]
        /\ exec' = [exec EXCEPT ![flight[t]] = Idle]
        /\ told' = [m \in Ids |-> IF m \in SeqSet(exec[flight[t]].batch)
                                  THEN exec[flight[t]].results[m].status ELSE told[m]]
    BY <1>1, <1>3 DEF Answer, AnswerLeaving, ClientTypes
  <2>3. \A k \in Slots : exec'[k] = IF k = flight[t] THEN Idle ELSE exec[k]
    BY <1>1, <2>1, <2>2 DEF ServerTypes
  <2>4. \A m \in Ids : told'[m] = "rejected" =>
            told[m] = "rejected" \/ \E k \in Slots : exec[k].results[m].status = "rejected"
    BY <2>1, <2>2
  <2> QED
    BY <2>1, <2>2, <2>3, <2>4, WaitEndsTold
<1>4. ASSUME NEW t \in Tabs, LoseAnswer(t) PROVE AsTold'
  <2>1. flight[t] \in Slots /\ exec[flight[t]].phase \in {"done", "dead"}
    BY <1>0, <1>1, <1>4 DEF ClientTypes, LoseAnswer, Fail
  <2>2. /\ UNCHANGED <<ledger, times, told>> /\ flight' = [flight EXCEPT ![t] = 0]
        /\ exec' = [exec EXCEPT ![flight[t]] = Idle]
    BY <1>4, <2>1 DEF LoseAnswer, Fail
  <2>3. \A k \in Slots : exec'[k] = IF k = flight[t] THEN Idle ELSE exec[k]
    BY <1>1, <2>1, <2>2 DEF ServerTypes
  <2> QED
    BY <2>1, <2>2, <2>3, WaitEndsTold
<1>5. ASSUME NEW t \in Tabs, Reload(t) PROVE AsTold'
  <2>1. flight[t] # 0 => exec[flight[t]].phase \in {"done", "dead"}
    BY <1>0, <1>5 DEF Reload
  <2>2. /\ UNCHANGED <<ledger, times, told>> /\ flight' = [flight EXCEPT ![t] = 0]
        /\ exec' = [k \in Slots |-> IF k = flight[t] /\ exec[k].phase \in {"done", "dead"} THEN Idle ELSE exec[k]]
    BY <1>5 DEF Reload
  <2>3. \A k \in Slots : exec'[k] = IF k = flight[t] THEN Idle ELSE exec[k]
    BY <2>1, <2>2, MutationQueueAssumption
  <2> QED
    BY <2>1, <2>2, <2>3, WaitEndsTold
<1>6. ASSUME NEW t \in Tabs, NEW k \in Slots, Flush(t, k) PROVE AsTold'
  BY <1>6, FlushTold
<1>7. ASSUME NEW t \in Tabs, Create(t) \/ (\E f \in Fields : Update(t, f)) \/ SavePending(t) \/ SaveCarried(t)
                             \/ Pull(t) \/ FlushReturns(t) \/ Online(t) \/ Reset(t) \/ Reopen(t)
      PROVE  AsTold'
  BY <1>2, <1>7 DEF Create, Update, Enqueue, SavePending, SaveCarried, Pull, FlushReturns, Online, Reset, Reopen
<1>8. ASSUME NEW k \in Slots, Lookup(k) \/ Apply(k) \/ Refuse(k) \/ Record(k) PROVE AsTold'
  BY <1>8, LookupTold, ApplyTold, RefuseTold, RecordTold
<1>9. ASSUME NEW k \in Slots, RecordFails(k) \/ Crash(k) PROVE FALSE
  BY <1>0, <1>9 DEF RecordFails, Crash
<1>10. ASSUME NEW k \in Slots, Discard(k) PROVE FALSE
  BY <1>10 DEF Discard, AsTold, OneExec
<1>11. ~ExpireLedger
  BY <1>0 DEF ExpireLedger
<1>12. CASE (\E f \in Fields : OtherEdit(f)) \/ UNCHANGED vars
  BY <1>2, <1>12 DEF OtherEdit, vars, tabVars
<1> QED
  BY <1>3, <1>4, <1>5, <1>6, <1>7, <1>8, <1>9, <1>10, <1>11, <1>12 DEF Next

\* Where no failure comes between the steps of an execution and the ledger
\* outlives the queues, an edit is applied at most once, however often its batch
\* is sent, and one reported as rejected was not applied.
THEOREM EditsAreAppliedAsTold ==
  ASSUME Gaps \cap Faults = {}
  PROVE  Spec => []AppliedAsTold
<1>1. Init => AsTold
  <2> SUFFICES ASSUME Init PROVE AsTold
    OBVIOUS
  <2>1. OneExec
    BY DEF Init, OneExec, Idle
  <2>2. \A m \in Ids : Told(m)
    BY DEF Init, Told, Idle, NoResult
  <2>3. \A k \in Slots : Fresh(k)
    BY DEF Init, Fresh, Idle
  <2> QED
    BY <2>1, <2>2, <2>3 DEF AsTold
<1>2. IInv /\ AsTold /\ [Next]_vars => AsTold'
  BY ToldKept
<1>3. AsTold => AppliedAsTold
  BY DEF AsTold, Told, AppliedAsTold
<1> QED
  BY <1>1, <1>2, <1>3, Inductive, PTL DEF Spec

=============================================================================
