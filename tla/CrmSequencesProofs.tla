------------------------- MODULE CrmSequencesProofs -------------------------
(***************************************************************************)
(* Proofs about CrmSequences, for any enrollments, processes, steps and    *)
(* faults: types, steps that go out in order, repeats that are explained,  *)
(* and mail that stops when the enrollment is over.                        *)
(***************************************************************************)
EXTENDS CrmSequences, FiniteSetTheorems, TLAPS

-----------------------------------------------------------------------------
(* The inductive invariant. *)

EnrRow == [status : {"none", "active", "exited", "completed"}, step : StepIndex,
           next : {"never", "due", "leased", "waiting"}]
ContactRow == [dnc : BOOLEAN, deal : {"open", "decided", "deleted"}]
WorkRow == [phase : Phases, batch : SUBSET Rows, now : Rows]

Types ==
    /\ enr \in [Enrollments -> EnrRow]
    /\ contact \in ContactRow
    /\ worker \in [Workers -> {Free} \union WorkRow]
    /\ mailed \in [Enrollments -> [StepIndex -> Nat]]
    /\ after \in [Enrollments -> [Workers -> Nat]]
    /\ strayed \in [Enrollments -> Nat]

\* Every step before this one has gone out.
SentBefore(e, step) == \A n \in StepIndex : n < step => mailed[e][n] > 0

\* A tick at work is at one of its rows, which are of enrollments that were
\* begun, one of each; what came before a row has gone out, and so has its own
\* step when it is to be moved on.
BatchOK(w) ==
    /\ worker[w].phase = "free" => worker[w].batch = {}
    /\ worker[w].phase # "free" => worker[w].now \in worker[w].batch
    /\ \A x, y \in worker[w].batch : x.e = y.e => x = y
    /\ \A x \in worker[w].batch : enr[x.e].status # "none" /\ SentBefore(x.e, x.step)
    /\ worker[w].phase = "move" => mailed[worker[w].now.e][worker[w].now.step] > 0

\* What has gone out of an enrollment; while it is active it has a time.
SentOK(e) ==
    /\ enr[e].status = "active" => enr[e].next # "never"
    /\ enr[e].status = "none" => \A n \in StepIndex : mailed[e][n] = 0
    /\ enr[e].status = "completed" => SentBefore(e, Steps)
    /\ SentBefore(e, enr[e].step)
    /\ \A n \in StepIndex \ {0} : mailed[e][n] > 0 => mailed[e][n - 1] > 0

\* This process may still mail the step from the row it claimed.
MayMail(w, e, n) ==
    \E x \in worker[w].batch :
        /\ x.e = e /\ x.step <= n
        /\ ~(worker[w].phase = "move" /\ worker[w].now = x /\ x.step = n)

Mailers(e, n) == {w \in Workers : MayMail(w, e, n)}

\* A process holds a row that is not ahead of the enrollment.
Covered(e) == \E w \in Workers : \E x \in worker[w].batch : x.e = e /\ x.step <= enr[e].step

\* The enrollment itself can lead to another mail of the step: it is or will
\* be due, or its lease covers no row.
MayReturn(e, n) ==
    /\ enr[e].status = "active" /\ enr[e].step <= n
    /\ enr[e].next \in {"due", "waiting"} \/ (enr[e].next = "leased" /\ ~Covered(e))

One(b) == IF b THEN 1 ELSE 0

\* The mails of a step that were sent and that may still come are paid for.
Paid(e, n) ==
    /\ IsFiniteSet(Mailers(e, n))
    /\ mailed[e][n] + Cardinality(Mailers(e, n)) + One(MayReturn(e, n)) <= 1 + strayed[e]

\* A process that has mailed an enrollment that was over is not about to do it
\* again: it will find the contact or the deal so, email.send will find the deal
\* deleted, or it has no row of it.
Stopped(e, w) ==
    /\ after[e][w] <= 1
    /\ after[e][w] = 1 =>
        \/ /\ Barred
           /\ worker[w].phase = "post" => Now(w) # e
           /\ worker[w].phase = "send" /\ Now(w) = e => contact.deal = "deleted"
        \/ /\ enr[e].status \in {"exited", "completed"}
           /\ \A x \in worker[w].batch : x.e = e => worker[w].phase = "move" /\ x = worker[w].now

IInv ==
    /\ Types
    /\ \A w \in Workers : BatchOK(w)
    /\ \A e \in Enrollments : SentOK(e)
    /\ \A e \in Enrollments, n \in StepIndex : Paid(e, n)
    /\ \A e \in Enrollments, w \in Workers : Stopped(e, w)

-----------------------------------------------------------------------------
(* Lemmas about the operators of the model. *)

\* What a process holds.
LEMMA WorkerRow ==
  ASSUME Types, NEW w \in Workers
  PROVE  /\ worker[w].batch \subseteq Rows /\ worker[w].phase \in Phases
         /\ worker[w].phase # "free" => worker[w] \in WorkRow
<1>1. Free.phase = "free" /\ Free.batch = {}
  BY DEF Free
<1> QED
  BY <1>1 DEF Types, WorkRow, Phases

\* The row a process is at is one of a known enrollment and step.
LEMMA NowRow ==
  ASSUME Types, NEW w \in Workers, worker[w].phase # "free"
  PROVE  /\ worker[w] \in WorkRow /\ worker[w].now \in Rows
         /\ Now(w) \in Enrollments /\ worker[w].now.step \in StepIndex
BY WorkerRow DEF WorkRow, Rows, Now

\* What is counted in Paid when one process moves.
LEMMA MailersMove ==
  ASSUME Types, NEW w \in Workers, NEW r, worker' = [worker EXCEPT ![w] = r], NEW e, NEW n,
         IsFiniteSet(Mailers(e, n))
  PROVE  /\ IsFiniteSet(Mailers(e, n)')
         /\ Cardinality(Mailers(e, n)) \in Nat
         /\ Cardinality(Mailers(e, n)') = Cardinality(Mailers(e, n)) - One(MayMail(w, e, n)) + One(MayMail(w, e, n)')
<1>0. \A v \in Workers : v # w => worker'[v] = worker[v]
  BY DEF Types
<1>1. \A v \in Workers : v # w => (MayMail(v, e, n)' <=> MayMail(v, e, n))
  BY <1>0 DEF MayMail
<1>2. w \in Mailers(e, n) <=> MayMail(w, e, n)
  BY DEF Mailers
<1>3. Cardinality(Mailers(e, n)) \in Nat
  BY FS_CardinalityType
<1>4. CASE MayMail(w, e, n)'
  <2>1. Mailers(e, n)' = Mailers(e, n) \cup {w}
    BY <1>1, <1>4 DEF Mailers
  <2>2. /\ IsFiniteSet(Mailers(e, n) \cup {w})
        /\ Cardinality(Mailers(e, n) \cup {w}) =
             IF w \in Mailers(e, n) THEN Cardinality(Mailers(e, n)) ELSE Cardinality(Mailers(e, n)) + 1
    BY FS_AddElement
  <2>3. One(MayMail(w, e, n)') = 1 /\ One(MayMail(w, e, n)) = IF w \in Mailers(e, n) THEN 1 ELSE 0
    BY <1>2, <1>4 DEF One
  <2> QED
    BY <1>3, <2>1, <2>2, <2>3
<1>5. CASE ~MayMail(w, e, n)'
  <2>1. Mailers(e, n)' = Mailers(e, n) \ {w}
    BY <1>1, <1>5 DEF Mailers
  <2>2. /\ IsFiniteSet(Mailers(e, n) \ {w})
        /\ Cardinality(Mailers(e, n) \ {w}) =
             IF w \in Mailers(e, n) THEN Cardinality(Mailers(e, n)) - 1 ELSE Cardinality(Mailers(e, n))
    BY FS_RemoveElement
  <2>3. One(MayMail(w, e, n)') = 0 /\ One(MayMail(w, e, n)) = IF w \in Mailers(e, n) THEN 1 ELSE 0
    BY <1>2, <1>5 DEF One
  <2> QED
    BY <1>3, <2>1, <2>2, <2>3
<1> QED
  BY <1>4, <1>5

\* A step of one process that costs no more than it pays.
LEMMA PaidMove ==
  ASSUME Types, NEW w \in Workers, NEW r, worker' = [worker EXCEPT ![w] = r],
         NEW e \in Enrollments, NEW n \in StepIndex, Paid(e, n),
         mailed'[e][n] \in Nat, strayed'[e] \in Nat,
         mailed'[e][n] + One(MayMail(w, e, n)') + One(MayReturn(e, n)') + strayed[e]
            <= mailed[e][n] + One(MayMail(w, e, n)) + One(MayReturn(e, n)) + strayed'[e]
  PROVE  Paid(e, n)'
<1>1. /\ IsFiniteSet(Mailers(e, n))
      /\ mailed[e][n] + Cardinality(Mailers(e, n)) + One(MayReturn(e, n)) <= 1 + strayed[e]
  BY DEF Paid
<1>2. /\ IsFiniteSet(Mailers(e, n)')
      /\ Cardinality(Mailers(e, n)) \in Nat
      /\ Cardinality(Mailers(e, n)') = Cardinality(Mailers(e, n)) - One(MayMail(w, e, n)) + One(MayMail(w, e, n)')
  BY <1>1, MailersMove
<1>3. /\ One(MayMail(w, e, n)) \in Nat /\ One(MayMail(w, e, n)') \in Nat
      /\ One(MayReturn(e, n)) \in Nat /\ One(MayReturn(e, n)') \in Nat
  BY DEF One
<1>4. mailed[e][n] \in Nat /\ strayed[e] \in Nat
  BY DEF Types
<1>5. mailed'[e][n] + Cardinality(Mailers(e, n)') + One(MayReturn(e, n)') <= 1 + strayed'[e]
  BY <1>1, <1>2, <1>3, <1>4
<1> QED
  BY <1>2, <1>5 DEF Paid

\* So is a step that moves no process.
LEMMA PaidStays ==
  ASSUME Types, UNCHANGED <<worker, mailed>>, NEW e \in Enrollments, NEW n \in StepIndex, Paid(e, n),
         strayed'[e] \in Nat,
         One(MayReturn(e, n)') + strayed[e] <= One(MayReturn(e, n)) + strayed'[e]
  PROVE  Paid(e, n)'
<1>1. Mailers(e, n)' = Mailers(e, n)
  BY DEF Mailers, MayMail
<1>2. Cardinality(Mailers(e, n)) \in Nat
  BY FS_CardinalityType DEF Paid
<1>3. One(MayReturn(e, n)) \in Nat /\ One(MayReturn(e, n)') \in Nat
  BY DEF One
<1>4. mailed[e][n] \in Nat /\ strayed[e] \in Nat
  BY DEF Types
<1>5. IsFiniteSet(Mailers(e, n)) /\ mailed[e][n] + Cardinality(Mailers(e, n)) + One(MayReturn(e, n)) <= 1 + strayed[e]
  BY DEF Paid
<1>6. mailed[e][n] + Cardinality(Mailers(e, n)) + One(MayReturn(e, n)') <= 1 + strayed'[e]
  BY <1>2, <1>3, <1>4, <1>5
<1> QED
  BY <1>1, <1>5, <1>6 DEF Paid

\* A process that drops rows it has not mailed costs nothing: what returns to
\* the enrollment was its own to mail.
LEMMA DropPays ==
  ASSUME Types, NEW w \in Workers, BatchOK(w), NEW r, worker' = [worker EXCEPT ![w] = r],
         r.batch \subseteq worker[w].batch, r.phase # "move",
         NEW e \in Enrollments, NEW n \in StepIndex,
         enr'[e] = enr[e] \/ enr'[e].status # "active",
         worker[w].phase = "move" => Now(w) # e
  PROVE  One(MayMail(w, e, n)') + One(MayReturn(e, n)') <= One(MayMail(w, e, n)) + One(MayReturn(e, n))
<1>0. worker'[w] = r /\ \A v \in Workers : v # w => worker'[v] = worker[v]
  BY DEF Types
<1>1. MayMail(w, e, n)' => MayMail(w, e, n)
  BY <1>0 DEF MayMail, Now
<1>2. ASSUME MayReturn(e, n)', ~MayReturn(e, n)
      PROVE  MayMail(w, e, n) /\ ~MayMail(w, e, n)'
  <2>1. enr'[e] = enr[e] /\ enr[e].next = "leased" /\ Covered(e) /\ ~Covered(e)' /\ enr[e].step <= n
    BY <1>2 DEF MayReturn
  <2>2. PICK v \in Workers : \E x \in worker[v].batch : x.e = e /\ x.step <= enr[e].step
    BY <2>1 DEF Covered
  <2>3. v = w
    BY <1>0, <2>1, <2>2 DEF Covered
  <2>4. PICK x \in worker[w].batch : x.e = e /\ x.step <= enr[e].step
    BY <2>2, <2>3
  <2>5. x.step \in Int /\ enr[e].step \in Int /\ n \in Int
    <3>1. StepIndex \subseteq Int
      BY SequencesAssumption DEF StepIndex
    <3>2. x \in Rows
      BY WorkerRow
    <3>3. enr[e] \in EnrRow
      BY DEF Types
    <3> QED
      BY <3>1, <3>2, <3>3 DEF Rows, EnrRow
  <2>6. MayMail(w, e, n)
    <3>1. x.step <= n
      BY <2>1, <2>4, <2>5
    <3>2. ~(worker[w].phase = "move" /\ worker[w].now = x)
      BY <2>4 DEF Now
    <3> QED
      BY <2>4, <3>1, <3>2 DEF MayMail
  <2>7. ASSUME NEW y \in r.batch, y.e = e PROVE FALSE
    <3>1. y = x
      BY <2>4, <2>7 DEF BatchOK
    <3>2. Covered(e)'
      BY <1>0, <2>1, <2>4, <2>7, <3>1 DEF Covered
    <3> QED
      BY <2>1, <3>2
  <2>8. ~MayMail(w, e, n)'
    BY <1>0, <2>7 DEF MayMail
  <2> QED
    BY <2>6, <2>8
<1> QED
  BY <1>1, <1>2 DEF One

\* A process takes up the rows that are left to it.
LEMMA TakeUpMove ==
  ASSUME NEW w \in Workers, NEW batch \in SUBSET Rows, TakeUp(w, batch)
  PROVE  \E r \in {Free} \union WorkRow :
           /\ worker' = [worker EXCEPT ![w] = r]
           /\ r.batch = batch
           /\ r.phase = IF batch = {} THEN "free" ELSE "check"
           /\ r.phase # "free" => r.now \in batch
<1>1. CASE batch = {}
  <2>1. Free.batch = {} /\ Free.phase = "free"
    BY DEF Free
  <2>2. worker' = [worker EXCEPT ![w] = Free]
    BY <1>1 DEF TakeUp
  <2> QED
    BY <1>1, <2>1, <2>2
<1>2. CASE batch # {}
  <2>1. PICK x \in batch : worker' = [worker EXCEPT ![w] = [phase |-> "check", batch |-> batch, now |-> x]]
    BY <1>2 DEF TakeUp
  <2> DEFINE r == [phase |-> "check", batch |-> batch, now |-> x]
  <2>2. r \in WorkRow /\ r.batch = batch /\ r.phase = "check" /\ r.now = x
    BY DEF WorkRow, Phases
  <2>3. worker' = [worker EXCEPT ![w] = r]
    BY <2>1
  <2> HIDE DEF r
  <2> QED
    BY <1>2, <2>2, <2>3
<1> QED
  BY <1>1, <1>2

\* What every step keeps of the enrollments and of the mail.
Kept ==
    /\ \A e \in Enrollments :
        /\ enr'[e].status = "none" => enr[e].status = "none"
        /\ enr[e].status \in {"exited", "completed"} => enr'[e].status \in {"exited", "completed"}
    /\ \A e \in Enrollments, n \in StepIndex : mailed[e][n] > 0 => mailed'[e][n] > 0

\* The rows of the processes when one of them moves.
LEMMA BatchesMove ==
  ASSUME Types, \A v \in Workers : BatchOK(v), NEW w \in Workers, NEW r,
         worker' = [worker EXCEPT ![w] = r], Kept, BatchOK(w)'
  PROVE  \A v \in Workers : BatchOK(v)'
<1> SUFFICES ASSUME NEW v \in Workers, v # w PROVE BatchOK(v)'
  OBVIOUS
<1>1. worker'[v] = worker[v] /\ BatchOK(v)
  BY DEF Types
<1>2. \A x \in worker[v].batch : x.e \in Enrollments
  BY WorkerRow DEF Rows
<1>3. worker[v].phase # "free" => worker[v].now.e \in Enrollments /\ worker[v].now.step \in StepIndex
  BY NowRow DEF Now
<1>4. worker[v].phase = "move" => mailed'[worker[v].now.e][worker[v].now.step] > 0
  BY <1>1, <1>3 DEF BatchOK, Kept
<1>5. \A x \in worker[v].batch : enr'[x.e].status # "none" /\ SentBefore(x.e, x.step)'
  BY <1>1, <1>2 DEF BatchOK, Kept, SentBefore
<1> QED
  BY <1>1, <1>4, <1>5 DEF BatchOK

\* ... and when none does.
LEMMA BatchesStay ==
  ASSUME Types, \A v \in Workers : BatchOK(v), UNCHANGED worker, Kept
  PROVE  \A v \in Workers : BatchOK(v)'
<1> SUFFICES ASSUME NEW v \in Workers PROVE BatchOK(v)'
  OBVIOUS
<1>1. worker'[v] = worker[v] /\ BatchOK(v)
  OBVIOUS
<1>2. \A x \in worker[v].batch : x.e \in Enrollments
  BY WorkerRow DEF Rows
<1>3. worker[v].phase # "free" => worker[v].now.e \in Enrollments /\ worker[v].now.step \in StepIndex
  BY NowRow DEF Now
<1>4. worker[v].phase = "move" => mailed'[worker[v].now.e][worker[v].now.step] > 0
  BY <1>1, <1>3 DEF BatchOK, Kept
<1>5. \A x \in worker[v].batch : enr'[x.e].status # "none" /\ SentBefore(x.e, x.step)'
  BY <1>1, <1>2 DEF BatchOK, Kept, SentBefore
<1> QED
  BY <1>1, <1>4, <1>5 DEF BatchOK

\* Enrollments that kept their step and their mail.
LEMMA SentStays ==
  ASSUME NEW e \in Enrollments, SentOK(e), mailed' = mailed, enr'[e].step = enr[e].step,
         \/ enr'[e].status = enr[e].status /\ (enr'[e].next = "never" => enr[e].next = "never")
         \/ enr'[e].status = "exited"
  PROVE  SentOK(e)'
<1>1. SentBefore(e, Steps)' <=> SentBefore(e, Steps)
  BY DEF SentBefore
<1>2. SentBefore(e, enr[e].step)'
  BY DEF SentOK, SentBefore
<1> QED
  BY <1>1, <1>2 DEF SentOK

\* What a process may still do when it moves.
LEMMA StoppedMove ==
  ASSUME Types, \A e \in Enrollments, v \in Workers : Stopped(e, v), NEW w \in Workers, NEW r,
         worker' = [worker EXCEPT ![w] = r], Kept, UNCHANGED contact,
         \A e \in Enrollments, v \in Workers : v # w => after'[e][v] = after[e][v],
         \A e \in Enrollments : Stopped(e, w)'
  PROVE  \A e \in Enrollments, v \in Workers : Stopped(e, v)'
<1> SUFFICES ASSUME NEW e \in Enrollments, NEW v \in Workers, v # w PROVE Stopped(e, v)'
  OBVIOUS
<1>1. worker'[v] = worker[v] /\ Stopped(e, v) /\ after'[e][v] = after[e][v]
  BY DEF Types
<1> QED
  BY <1>1 DEF Stopped, Barred, Kept, Now

\* A process that drops the row it is at, or all of them.
LEMMA StoppedDrop ==
  ASSUME Types, NEW w \in Workers, NEW e \in Enrollments, Stopped(e, w), NEW r,
         worker' = [worker EXCEPT ![w] = r], r.batch \subseteq worker[w].batch, r.phase \in {"free", "check"},
         worker[w].phase = "move" => worker[w].now \notin r.batch, Kept, UNCHANGED <<contact, after>>
  PROVE  Stopped(e, w)'
<1>1. worker'[w] = r
  BY DEF Types
<1>2. CASE after[e][w] = 1
  <2>1. CASE Barred
    BY <1>1, <1>2, <2>1 DEF Stopped, Barred
  <2>2. CASE /\ enr[e].status \in {"exited", "completed"}
             /\ \A x \in worker[w].batch : x.e = e => worker[w].phase = "move" /\ x = worker[w].now
    <3>1. \A x \in r.batch : x.e # e
      BY <2>2
    <3> QED
      BY <1>1, <1>2, <2>2, <3>1 DEF Stopped, Kept
  <2> QED
    BY <1>2, <2>1, <2>2 DEF Stopped
<1>3. CASE after[e][w] # 1
  BY <1>3 DEF Stopped
<1> QED
  BY <1>2, <1>3

\* The rows that are left to a process that drops some.
LEMMA BatchDrop ==
  ASSUME Types, NEW w \in Workers, BatchOK(w), NEW r, worker' = [worker EXCEPT ![w] = r],
         r.batch \subseteq worker[w].batch, r.phase = IF r.batch = {} THEN "free" ELSE "check",
         r.phase # "free" => r.now \in r.batch, Kept
  PROVE  BatchOK(w)'
<1>1. worker'[w] = r
  BY DEF Types
<1>2. \A x \in r.batch : x.e \in Enrollments
  BY WorkerRow DEF Rows
<1>3. \A x \in r.batch : enr'[x.e].status # "none" /\ SentBefore(x.e, x.step)'
  BY <1>2 DEF BatchOK, Kept, SentBefore
<1> QED
  BY <1>1, <1>3 DEF BatchOK

\* The parts of the invariant when one process moves.
LEMMA WorkerStep ==
  ASSUME IInv, NEW w \in Workers, NEW r \in {Free} \union WorkRow, worker' = [worker EXCEPT ![w] = r],
         Kept, UNCHANGED contact,
         enr' \in [Enrollments -> EnrRow], mailed' \in [Enrollments -> [StepIndex -> Nat]],
         after' \in [Enrollments -> [Workers -> Nat]], strayed' \in [Enrollments -> Nat],
         BatchOK(w)', \A e \in Enrollments : SentOK(e)',
         \A e \in Enrollments, n \in StepIndex :
            mailed'[e][n] + One(MayMail(w, e, n)') + One(MayReturn(e, n)') + strayed[e]
               <= mailed[e][n] + One(MayMail(w, e, n)) + One(MayReturn(e, n)) + strayed'[e],
         \A e \in Enrollments, v \in Workers : v # w => after'[e][v] = after[e][v],
         \A e \in Enrollments : Stopped(e, w)'
  PROVE  IInv'
<1>0. Types
  BY DEF IInv
<1>1. Types'
  BY <1>0 DEF Types
<1>2. \A v \in Workers : BatchOK(v)'
  BY <1>0, BatchesMove DEF IInv
<1>3. ASSUME NEW e \in Enrollments, NEW n \in StepIndex PROVE Paid(e, n)'
  <2>1. Paid(e, n) /\ mailed'[e][n] \in Nat /\ strayed'[e] \in Nat
    BY DEF IInv
  <2> QED
    BY <1>0, <2>1, PaidMove
<1>4. \A e \in Enrollments, v \in Workers : Stopped(e, v)'
  BY <1>0, StoppedMove DEF IInv
<1> QED
  BY <1>1, <1>2, <1>3, <1>4 DEF IInv

\* A process that goes on to another statement of its row, short of mailing it.
LEMMA GoStep ==
  ASSUME IInv, NEW w \in Workers, worker[w].phase \in {"check", "send"}, NEW phase \in {"quit", "send", "post"},
         Go(w, phase), UNCHANGED <<enr, contact, mailed, after, strayed>>,
         phase = "send" => ~contact.dnc /\ contact.deal # "decided",
         phase = "post" => worker[w].phase = "send" /\ contact.deal # "deleted"
  PROVE  IInv'
<1> DEFINE r == [worker[w] EXCEPT !.phase = phase]
<1>1. Types /\ BatchOK(w) /\ worker[w] \in WorkRow
  BY NowRow DEF IInv
<1>2. worker' = [worker EXCEPT ![w] = r]
  BY DEF Go
<1>3. r \in WorkRow /\ r.phase = phase /\ r.batch = worker[w].batch /\ r.now = worker[w].now
  BY <1>1 DEF WorkRow, Phases
<1> HIDE DEF r
<1>4. worker'[w] = r /\ \A v \in Workers : worker'[v].batch = worker[v].batch
  BY <1>1, <1>2, <1>3 DEF Types
<1>5. Kept
  BY DEF Kept
<1>6. BatchOK(w)'
  BY <1>1, <1>3, <1>4 DEF BatchOK, SentBefore
<1>7. ASSUME NEW e \in Enrollments PROVE SentOK(e)'
  BY <1>7, SentStays DEF IInv
<1>8. ASSUME NEW e \in Enrollments, NEW n \in StepIndex
      PROVE  mailed'[e][n] + One(MayMail(w, e, n)') + One(MayReturn(e, n)') + strayed[e]
               <= mailed[e][n] + One(MayMail(w, e, n)) + One(MayReturn(e, n)) + strayed'[e]
  <2>1. MayMail(w, e, n)' <=> MayMail(w, e, n)
    BY <1>3, <1>4 DEF MayMail
  <2>2. MayReturn(e, n)' <=> MayReturn(e, n)
    BY <1>4 DEF MayReturn, Covered
  <2>3. One(MayMail(w, e, n)') = One(MayMail(w, e, n)) /\ One(MayReturn(e, n)') = One(MayReturn(e, n))
    BY <2>1, <2>2 DEF One
  <2>4. One(MayMail(w, e, n)) \in Nat /\ One(MayReturn(e, n)) \in Nat /\ mailed[e][n] \in Nat /\ strayed[e] \in Nat
    BY <1>1 DEF One, Types
  <2> QED
    BY <2>3, <2>4
<1>9. ASSUME NEW e \in Enrollments PROVE Stopped(e, w)'
  <2>1. Stopped(e, w)
    BY DEF IInv
  <2>2. worker[w].now \in worker[w].batch /\ worker[w].now.e = Now(w)
    BY <1>1 DEF BatchOK, Now
  <2>3. CASE after[e][w] = 1 /\ Now(w) = e
    <3>1. Barred /\ (worker[w].phase = "send" => contact.deal = "deleted")
      BY <2>1, <2>2, <2>3 DEF Stopped
    <3>2. phase # "post"
      BY <2>3, <3>1
    <3>3. phase = "send" => contact.deal = "deleted"
      <4>1. contact \in ContactRow
        BY <1>1 DEF Types
      <4> QED
        BY <3>1, <4>1 DEF Barred, ContactRow
    <3> QED
      BY <1>3, <1>4, <2>1, <2>3, <3>1, <3>2, <3>3 DEF Stopped, Barred
  <2>4. CASE ~(after[e][w] = 1 /\ Now(w) = e)
    BY <1>3, <1>4, <2>1, <2>4 DEF Stopped, Barred, Now
  <2> QED
    BY <2>3, <2>4
<1>10. \A e \in Enrollments, v \in Workers : v # w => after'[e][v] = after[e][v]
  OBVIOUS
<1>11. /\ enr' \in [Enrollments -> EnrRow] /\ mailed' \in [Enrollments -> [StepIndex -> Nat]]
       /\ after' \in [Enrollments -> [Workers -> Nat]] /\ strayed' \in [Enrollments -> Nat]
  BY <1>1 DEF Types
<1> QED
  BY <1>2, <1>3, <1>5, <1>6, <1>7, <1>8, <1>9, <1>10, <1>11, WorkerStep

\* A process that drops rows.
LEMMA DropStep ==
  ASSUME IInv, NEW w \in Workers, NEW r \in {Free} \union WorkRow, worker' = [worker EXCEPT ![w] = r],
         r.batch \subseteq worker[w].batch, r.phase = IF r.batch = {} THEN "free" ELSE "check",
         r.phase # "free" => r.now \in r.batch,
         worker[w].phase = "move" => worker[w].now \notin r.batch,
         Kept, UNCHANGED <<contact, mailed, after>>,
         enr' \in [Enrollments -> EnrRow], strayed' \in [Enrollments -> Nat],
         \A e \in Enrollments : SentOK(e)',
         \A e \in Enrollments, n \in StepIndex :
            One(MayMail(w, e, n)') + One(MayReturn(e, n)') + strayed[e]
               <= One(MayMail(w, e, n)) + One(MayReturn(e, n)) + strayed'[e]
  PROVE  IInv'
<1>1. Types /\ BatchOK(w)
  BY DEF IInv
<1>2. BatchOK(w)'
  BY <1>1, BatchDrop
<1>3. ASSUME NEW e \in Enrollments PROVE Stopped(e, w)'
  <2>1. Stopped(e, w) /\ r.phase \in {"free", "check"}
    BY DEF IInv
  <2> QED
    BY <1>1, <2>1, StoppedDrop
<1>4. ASSUME NEW e \in Enrollments, NEW n \in StepIndex
      PROVE  mailed'[e][n] + One(MayMail(w, e, n)') + One(MayReturn(e, n)') + strayed[e]
               <= mailed[e][n] + One(MayMail(w, e, n)) + One(MayReturn(e, n)) + strayed'[e]
  <2>1. /\ One(MayMail(w, e, n)) \in Nat /\ One(MayReturn(e, n)) \in Nat /\ One(MayMail(w, e, n)') \in Nat
        /\ One(MayReturn(e, n)') \in Nat /\ mailed[e][n] \in Nat /\ strayed[e] \in Nat /\ strayed'[e] \in Nat
    BY <1>1 DEF One, Types
  <2>2. mailed'[e][n] = mailed[e][n]
    OBVIOUS
  <2> QED
    BY <2>1, <2>2
<1>5. mailed' \in [Enrollments -> [StepIndex -> Nat]] /\ after' \in [Enrollments -> [Workers -> Nat]]
  BY <1>1 DEF Types
<1>6. \A e \in Enrollments, v \in Workers : v # w => after'[e][v] = after[e][v]
  OBVIOUS
<1> QED
  BY <1>2, <1>3, <1>4, <1>5, <1>6, WorkerStep

\* The row that a process is done with, and the others.
LEMMA ProceedMove ==
  ASSUME IInv, NEW w \in Workers, worker[w].phase # "free", Proceed(w)
  PROVE  \E r \in {Free} \union WorkRow :
           /\ worker' = [worker EXCEPT ![w] = r]
           /\ r.batch = worker[w].batch \ {worker[w].now}
           /\ r.phase = IF r.batch = {} THEN "free" ELSE "check"
           /\ r.phase # "free" => r.now \in r.batch
           /\ \A e, n : e = Now(w) => ~MayMail(w, e, n)'
<1>1. Types /\ BatchOK(w)
  BY DEF IInv
<1>2. worker[w].batch \ {worker[w].now} \in SUBSET Rows
  BY <1>1, WorkerRow
<1>3. PICK r \in {Free} \union WorkRow :
           /\ worker' = [worker EXCEPT ![w] = r]
           /\ r.batch = worker[w].batch \ {worker[w].now}
           /\ r.phase = IF worker[w].batch \ {worker[w].now} = {} THEN "free" ELSE "check"
           /\ r.phase # "free" => r.now \in worker[w].batch \ {worker[w].now}
  BY <1>2, TakeUpMove DEF Proceed
<1>4. worker'[w] = r
  BY <1>1, <1>3 DEF Types
<1>5. \A x \in r.batch : x.e # worker[w].now.e
  BY <1>1, <1>3 DEF BatchOK
<1>6. \A e, n : e = worker[w].now.e => ~MayMail(w, e, n)'
  BY <1>4, <1>5 DEF MayMail
<1> QED
  BY <1>3, <1>6 DEF Now

\* The contact and the deal do not come back.
Worse == (Barred => Barred') /\ (contact.deal = "deleted" => contact'.deal = "deleted")

\* The parts of the invariant when no process moves.
LEMMA QuietStep ==
  ASSUME IInv, UNCHANGED <<worker, mailed, after>>, Kept,
         enr' \in [Enrollments -> EnrRow], contact' \in ContactRow,
         strayed' \in [Enrollments -> Nat],
         contact' = contact \/ Worse,
         \A e \in Enrollments : SentOK(e)',
         \A e \in Enrollments, n \in StepIndex : Paid(e, n)'
  PROVE  IInv'
<1>1. Types /\ Types'
  BY DEF IInv, Types
<1>2. \A v \in Workers : BatchOK(v)'
  BY <1>1, BatchesStay DEF IInv
<1>3. ASSUME NEW e \in Enrollments, NEW w \in Workers PROVE Stopped(e, w)'
  <2>1. Stopped(e, w)
    BY DEF IInv
  <2>2. (Barred => Barred') /\ (contact.deal = "deleted" => contact'.deal = "deleted")
    BY DEF Worse, Barred
  <2> QED
    BY <2>1, <2>2 DEF Stopped, Kept, Now
<1> QED
  BY <1>1, <1>2, <1>3 DEF IInv

\* Steps of which the mail that may still come is what it was, or less.
LEMMA NoReturn ==
  ASSUME IInv, UNCHANGED <<worker, mailed>>, NEW e \in Enrollments, NEW n \in StepIndex,
         strayed'[e] = strayed[e], MayReturn(e, n)' => MayReturn(e, n)
  PROVE  Paid(e, n)'
<1>1. Types /\ Paid(e, n)
  BY DEF IInv
<1>2. strayed[e] \in Nat /\ One(MayReturn(e, n)) \in Nat /\ One(MayReturn(e, n)') \in Nat
      /\ One(MayReturn(e, n)') <= One(MayReturn(e, n))
  BY <1>1 DEF Types, One
<1>3. strayed'[e] \in Nat /\ One(MayReturn(e, n)') + strayed[e] <= One(MayReturn(e, n)) + strayed'[e]
  BY <1>2
<1> QED
  BY <1>1, <1>3, PaidStays

\* Enrollments that end, or keep what they have.
LEMMA EndStep ==
  ASSUME IInv, UNCHANGED <<worker, mailed, after, strayed>>,
         enr' \in [Enrollments -> EnrRow], contact' \in ContactRow,
         contact' = contact \/ Worse,
         \A e \in Enrollments :
            \/ enr'[e] = enr[e]
            \/ enr[e].status = "active" /\ enr'[e] = [enr[e] EXCEPT !.status = "exited"]
  PROVE  IInv'
<1>1. Types
  BY DEF IInv
<1>2. \A e \in Enrollments :
        /\ enr'[e].step = enr[e].step /\ enr'[e].next = enr[e].next
        /\ \/ enr'[e].status = enr[e].status
           \/ enr[e].status = "active" /\ enr'[e].status = "exited"
  <2> SUFFICES ASSUME NEW e \in Enrollments, enr'[e] # enr[e]
               PROVE  /\ enr'[e].step = enr[e].step /\ enr'[e].next = enr[e].next
                      /\ enr[e].status = "active" /\ enr'[e].status = "exited"
    OBVIOUS
  <2>1. enr[e] \in EnrRow
    BY <1>1 DEF Types
  <2> QED
    BY <2>1 DEF EnrRow
<1>3. Kept
  BY <1>2 DEF Kept
<1>4. ASSUME NEW e \in Enrollments PROVE SentOK(e)'
  <2>1. SentOK(e)
    BY DEF IInv
  <2> QED
    BY <1>2, <2>1, SentStays
<1>5. ASSUME NEW e \in Enrollments, NEW n \in StepIndex PROVE Paid(e, n)'
  <2>1. MayReturn(e, n)' => MayReturn(e, n)
    BY <1>2 DEF MayReturn, Covered
  <2> QED
    BY <2>1, NoReturn
<1>6. strayed' \in [Enrollments -> Nat]
  BY <1>1 DEF Types
<1> QED
  BY <1>3, <1>4, <1>5, <1>6, QuietStep

\* The statements that end enrollments keep the types.
LEMMA ExitedRows ==
  ASSUME Types, NEW S, enr' = Exited(S)
  PROVE  /\ enr' \in [Enrollments -> EnrRow]
         /\ \A e \in Enrollments :
              \/ enr'[e] = enr[e]
              \/ enr[e].status = "active" /\ enr'[e] = [enr[e] EXCEPT !.status = "exited"]
<1>1. \A e \in Enrollments : enr[e] \in EnrRow
  BY DEF Types
<1>2. \A e \in Enrollments : [enr[e] EXCEPT !.status = "exited"] \in EnrRow
  BY <1>1 DEF EnrRow
<1>3. \A e \in Enrollments : enr'[e] = IF e \in S /\ Active(e) THEN [enr[e] EXCEPT !.status = "exited"] ELSE enr[e]
  BY DEF Exited
<1>4. enr' \in [Enrollments -> EnrRow]
  BY <1>1, <1>2 DEF Exited
<1> QED
  BY <1>3, <1>4 DEF Active

-----------------------------------------------------------------------------
(* Every step keeps the invariant. *)

\* Staff, the contact and the deal.
LEMMA EndsKeep ==
  ASSUME IInv, (\E e \in Enrollments : Exit(e)) \/ Reply \/ OptOut \/ CloseDeal \/ DeleteDeal \/ ExitAll \/ UNCHANGED vars
  PROVE  IInv'
<1>1. Types
  BY DEF IInv
<1>2. CASE (\E e \in Enrollments : Exit(e)) \/ Reply \/ ExitAll
  <2>1. PICK S : enr' = Exited(S)
    BY <1>2 DEF Exit, Reply, ExitAll
  <2>2. UNCHANGED <<worker, mailed, after, strayed, contact>>
    BY <1>2 DEF Exit, Reply, ExitAll, hist
  <2>3. contact' \in ContactRow
    BY <1>1, <2>2 DEF Types
  <2> QED
    BY <1>1, <2>1, <2>2, <2>3, ExitedRows, EndStep
<1>3. CASE OptOut \/ CloseDeal \/ DeleteDeal
  <2>1. UNCHANGED <<worker, mailed, after, strayed, enr>>
    BY <1>3 DEF OptOut, CloseDeal, DeleteDeal, hist
  <2>2. /\ contact' \in ContactRow
        /\ Worse
    <3>1. contact \in ContactRow
      BY <1>1 DEF Types
    <3>2. CASE OptOut
      BY <3>1, <3>2 DEF OptOut, Worse, Barred, ContactRow
    <3>3. CASE CloseDeal
      BY <3>1, <3>3 DEF CloseDeal, Worse, Barred, ContactRow
    <3>4. CASE DeleteDeal
      BY <3>1, <3>4 DEF DeleteDeal, Worse, Barred, ContactRow
    <3> QED
      BY <1>3, <3>2, <3>3, <3>4
  <2>3. enr' \in [Enrollments -> EnrRow]
    BY <1>1, <2>1 DEF Types
  <2> QED
    BY <2>1, <2>2, <2>3, EndStep
<1>4. CASE UNCHANGED vars
  <2>1. UNCHANGED <<worker, mailed, after, strayed, enr, contact>>
    BY <1>4 DEF vars, hist
  <2>2. enr' \in [Enrollments -> EnrRow] /\ contact' \in ContactRow
    BY <1>1, <2>1 DEF Types
  <2> QED
    BY <2>1, <2>2, EndStep
<1> QED
  BY <1>2, <1>3, <1>4

\* enroll.
LEMMA EnrollKeeps ==
  ASSUME IInv, NEW f \in Enrollments, Enroll(f)
  PROVE  IInv'
<1>1. Types /\ SentOK(f)
  BY DEF IInv
<1>2. PICK next \in {"due", "waiting"} : enr' = [enr EXCEPT ![f] = [status |-> "active", step |-> 0, next |-> next]]
  BY DEF Enroll
<1>3. enr[f].status = "none" /\ UNCHANGED <<contact, worker, mailed, after, strayed>>
  BY DEF Enroll, hist
<1>4. 0 \in StepIndex
  BY SequencesAssumption DEF StepIndex
<1>5. /\ enr'[f].status = "active" /\ enr'[f].step = 0 /\ enr'[f].next = next
      /\ \A e \in Enrollments : e # f => enr'[e] = enr[e]
  BY <1>1, <1>2 DEF Types
<1>6. enr' \in [Enrollments -> EnrRow]
  BY <1>1, <1>2, <1>4 DEF Types, EnrRow
<1>7. Kept
  BY <1>3, <1>5 DEF Kept
<1>8. \A n \in StepIndex : mailed[f][n] = 0
  BY <1>1, <1>3 DEF SentOK
<1>9. ASSUME NEW e \in Enrollments PROVE SentOK(e)'
  <2>1. CASE e = f
    <3>1. \A n \in StepIndex : ~(n < 0)
      BY DEF StepIndex
    <3>2. SentBefore(f, enr[f].step)'
      BY <1>5, <3>1 DEF SentBefore
    <3>3. \A n \in StepIndex \ {0} : mailed'[f][n] > 0 => mailed'[f][n - 1] > 0
      BY <1>3, <1>8
    <3> QED
      BY <1>5, <2>1, <3>2, <3>3 DEF SentOK
  <2>2. CASE e # f
    <3>1. enr'[e] = enr[e] /\ SentOK(e)
      BY <1>5, <2>2 DEF IInv
    <3> QED
      BY <1>3, <3>1, SentStays
  <2> QED
    BY <2>1, <2>2
<1>10. ASSUME NEW e \in Enrollments, NEW n \in StepIndex PROVE Paid(e, n)'
  <2>1. CASE e = f
    <3>1. \A w \in Workers : ~MayMail(w, f, n)'
      BY <1>3 DEF IInv, BatchOK, MayMail
    <3>2. Mailers(f, n)' = {}
      BY <3>1 DEF Mailers
    <3>3. IsFiniteSet(Mailers(f, n)') /\ Cardinality(Mailers(f, n)') = 0
      BY <3>2, FS_EmptySet
    <3>4. mailed'[f][n] = 0 /\ strayed'[f] \in Nat /\ One(MayReturn(f, n)') \in 0..1
      BY <1>1, <1>3, <1>8 DEF Types, One
    <3>5. mailed'[f][n] + Cardinality(Mailers(f, n)') + One(MayReturn(f, n)') <= 1 + strayed'[f]
      BY <3>3, <3>4
    <3> QED
      BY <2>1, <3>3, <3>5 DEF Paid
  <2>2. CASE e # f
    <3>1. MayReturn(e, n)' => MayReturn(e, n)
      BY <1>3, <1>5, <2>2 DEF MayReturn, Covered
    <3> QED
      BY <1>3, <3>1, NoReturn
  <2> QED
    BY <2>1, <2>2
<1>11. contact' \in ContactRow /\ strayed' \in [Enrollments -> Nat]
  BY <1>1, <1>3 DEF Types
<1> QED
  BY <1>3, <1>6, <1>7, <1>9, <1>10, <1>11, QuietStep

\* A lease or a wait comes to an end.
LEMMA EndOfTimeKeeps ==
  ASSUME IInv, NEW f \in Enrollments, LeaseEnds(f) \/ WaitEnds(f)
  PROVE  IInv'
<1>1. Types /\ UNCHANGED <<contact, worker, mailed, after>> /\ enr[f].next # "never"
  BY DEF IInv, LeaseEnds, WaitEnds, hist
<1>2. enr' = [enr EXCEPT ![f] = [enr[f] EXCEPT !.next = "due"]]
  BY DEF LeaseEnds, WaitEnds
<1>3. enr[f] \in EnrRow
  BY <1>1 DEF Types
<1>4. /\ enr'[f].status = enr[f].status /\ enr'[f].step = enr[f].step /\ enr'[f].next = "due"
      /\ \A e \in Enrollments : e # f => enr'[e] = enr[e]
  BY <1>1, <1>2, <1>3 DEF Types, EnrRow
<1>5. [enr[f] EXCEPT !.next = "due"] \in EnrRow
  BY <1>3 DEF EnrRow
<1>6. enr' \in [Enrollments -> EnrRow]
  BY <1>1, <1>2, <1>5 DEF Types
<1>7. Kept
  BY <1>1, <1>4 DEF Kept
<1>8. ASSUME NEW e \in Enrollments PROVE SentOK(e)'
  <2>1. SentOK(e)
    BY DEF IInv
  <2>2. enr'[e].step = enr[e].step /\ enr'[e].status = enr[e].status /\ (enr'[e].next = "never" => enr[e].next = "never")
    BY <1>4
  <2> QED
    BY <1>1, <2>1, <2>2, SentStays
<1>9. CASE LeaseEnds(f) /\ Held(f)
  <2>1. strayed' = [strayed EXCEPT ![f] = strayed[f] + 1]
    BY <1>9 DEF LeaseEnds
  <2>2. strayed' \in [Enrollments -> Nat] /\ strayed'[f] = strayed[f] + 1
        /\ \A e \in Enrollments : e # f => strayed'[e] = strayed[e]
    BY <1>1, <2>1 DEF Types
  <2>3. ASSUME NEW e \in Enrollments, NEW n \in StepIndex PROVE Paid(e, n)'
    <3>1. CASE e = f
      <4>1. Paid(f, n) /\ strayed[f] \in Nat /\ One(MayReturn(f, n)) \in 0..1 /\ One(MayReturn(f, n)') \in 0..1
        BY <1>1 DEF IInv, Types, One
      <4>2. strayed'[f] \in Nat /\ One(MayReturn(f, n)') + strayed[f] <= One(MayReturn(f, n)) + strayed'[f]
        BY <2>2, <4>1
      <4> QED
        BY <1>1, <3>1, <4>1, <4>2, PaidStays
    <3>2. CASE e # f
      <4>1. MayReturn(e, n)' => MayReturn(e, n)
        BY <1>1, <1>4, <3>2 DEF MayReturn, Covered
      <4> QED
        BY <1>1, <2>2, <3>2, <4>1, NoReturn
    <3> QED
      BY <3>1, <3>2
  <2>4. contact' \in ContactRow
    BY <1>1 DEF Types
  <2> QED
    BY <1>1, <1>6, <1>7, <1>8, <2>2, <2>3, <2>4, QuietStep
<1>10. CASE WaitEnds(f) \/ (LeaseEnds(f) /\ ~Held(f))
  <2>1. UNCHANGED strayed
    BY <1>10 DEF LeaseEnds, WaitEnds, hist
  <2>2. enr[f].next = "waiting" \/ (enr[f].next = "leased" /\ ~Covered(f))
    BY <1>10 DEF LeaseEnds, WaitEnds, Held, Has, Covered
  <2>3. ASSUME NEW e \in Enrollments, NEW n \in StepIndex PROVE Paid(e, n)'
    <3>1. MayReturn(e, n)' => MayReturn(e, n)
      <4>1. CASE e = f
        BY <1>4, <2>2, <4>1 DEF MayReturn
      <4>2. CASE e # f
        BY <1>1, <1>4, <4>2 DEF MayReturn, Covered
      <4> QED
        BY <4>1, <4>2
    <3> QED
      BY <1>1, <2>1, <3>1, NoReturn
  <2>4. contact' \in ContactRow /\ strayed' \in [Enrollments -> Nat]
    BY <1>1, <2>1 DEF Types
  <2> QED
    BY <1>1, <1>6, <1>7, <1>8, <2>3, <2>4, QuietStep
<1> QED
  BY <1>9, <1>10

\* tick: the claim.
LEMMA ClaimKeeps ==
  ASSUME IInv, NEW w \in Workers, Claim(w)
  PROVE  IInv'
<1>1. Types /\ UNCHANGED <<contact, mailed, after, strayed>> /\ worker[w].batch = {}
  BY DEF IInv, Claim, hist, Free
<1>2. \A e \in Enrollments : enr[e] \in EnrRow
  BY <1>1 DEF Types
<1>3. \A x \in Snapshot(Due) : x \in Rows /\ x.e \in Due /\ x.step = enr[x.e].step
  BY <1>2 DEF Snapshot, Due, Rows, EnrRow
<1>4. PICK r \in {Free} \union WorkRow :
        /\ worker' = [worker EXCEPT ![w] = r]
        /\ r.batch = Snapshot(Due)
        /\ r.phase = IF Snapshot(Due) = {} THEN "free" ELSE "check"
        /\ r.phase # "free" => r.now \in Snapshot(Due)
  <2>1. Snapshot(Due) \in SUBSET Rows /\ TakeUp(w, Snapshot(Due))
    BY <1>3 DEF Claim
  <2> QED
    BY <2>1, TakeUpMove
<1>5. worker'[w] = r /\ \A v \in Workers : v # w => worker'[v] = worker[v]
  BY <1>1, <1>4 DEF Types
<1>6. \A e \in Enrollments :
        /\ enr'[e].status = enr[e].status /\ enr'[e].step = enr[e].step
        /\ e \notin Due => enr'[e] = enr[e]
        /\ e \in Due => enr'[e].next = "leased" /\ enr[e].next = "due" /\ enr[e].status = "active"
        /\ enr'[e] \in EnrRow
  <2> SUFFICES ASSUME NEW e \in Enrollments
               PROVE  /\ enr'[e].status = enr[e].status /\ enr'[e].step = enr[e].step
                      /\ e \notin Due => enr'[e] = enr[e]
                      /\ e \in Due => enr'[e].next = "leased" /\ enr[e].next = "due" /\ enr[e].status = "active"
                      /\ enr'[e] \in EnrRow
    OBVIOUS
  <2>1. enr'[e] = IF e \in Due THEN [enr[e] EXCEPT !.next = "leased"] ELSE enr[e]
    BY DEF Claim
  <2>2. CASE e \in Due
    BY <1>2, <2>1, <2>2 DEF Due, Active, EnrRow
  <2>3. CASE e \notin Due
    BY <1>2, <2>1, <2>3
  <2> QED
    BY <2>2, <2>3
<1>7. enr' \in [Enrollments -> EnrRow]
  <2>1. enr' = [e \in Enrollments |-> IF e \in Due THEN [enr[e] EXCEPT !.next = "leased"] ELSE enr[e]]
    BY DEF Claim
  <2> QED
    BY <1>6, <2>1
<1>8. Kept
  BY <1>1, <1>6 DEF Kept
<1>9. BatchOK(w)'
  <2>1. \A x, y \in Snapshot(Due) : x.e = y.e => x = y
    BY DEF Snapshot
  <2>2. ASSUME NEW x \in Snapshot(Due) PROVE enr'[x.e].status # "none" /\ SentBefore(x.e, x.step)'
    <3>1. x.e \in Enrollments /\ x.e \in Due /\ x.step = enr[x.e].step
      BY <1>3, <2>2 DEF Due
    <3>2. SentBefore(x.e, x.step)
      BY <3>1 DEF IInv, SentOK
    <3>3. SentBefore(x.e, x.step)'
      BY <1>1, <3>2 DEF SentBefore
    <3> QED
      BY <1>6, <3>1, <3>3
  <2>3. r.phase \in {"free", "check"} /\ (r.phase = "free" => Snapshot(Due) = {})
    BY <1>4
  <2> QED
    BY <1>4, <1>5, <2>1, <2>2, <2>3 DEF BatchOK
<1>10. ASSUME NEW e \in Enrollments PROVE SentOK(e)'
  <2>1. SentOK(e)
    BY DEF IInv
  <2>2. enr'[e].next = "never" => enr[e].next = "never"
    BY <1>6
  <2> QED
    BY <1>1, <1>6, <2>1, <2>2, SentStays
<1>11. ASSUME NEW e \in Enrollments, NEW n \in StepIndex
       PROVE  mailed'[e][n] + One(MayMail(w, e, n)') + One(MayReturn(e, n)') + strayed[e]
                <= mailed[e][n] + One(MayMail(w, e, n)) + One(MayReturn(e, n)) + strayed'[e]
  <2>1. ~MayMail(w, e, n)
    BY <1>1 DEF MayMail
  <2>2. CASE e \in Due
    <3>1. [e |-> e, step |-> enr[e].step] \in Snapshot(Due)
      BY <2>2 DEF Snapshot
    <3>2. enr[e].step \in Int
      <4>1. enr[e].step \in StepIndex
        BY <1>2 DEF EnrRow
      <4> QED
        BY <4>1, SequencesAssumption DEF StepIndex
    <3>3. Covered(e)'
      BY <1>4, <1>5, <1>6, <3>1, <3>2 DEF Covered
    <3>4. ~MayReturn(e, n)'
      BY <1>6, <2>2, <3>3 DEF MayReturn
    <3>5. MayMail(w, e, n)' => enr[e].step <= n
      BY <1>3, <1>4, <1>5 DEF MayMail
    <3>6. enr[e].step <= n => MayReturn(e, n)
      BY <1>6, <2>2 DEF MayReturn
    <3>7. One(MayMail(w, e, n)') <= One(MayReturn(e, n)) /\ One(MayReturn(e, n)') = 0 /\ One(MayMail(w, e, n)) = 0
      BY <2>1, <3>4, <3>5, <3>6 DEF One
    <3>8. One(MayMail(w, e, n)') \in Nat /\ One(MayReturn(e, n)) \in Nat /\ mailed[e][n] \in Nat /\ strayed[e] \in Nat
      BY <1>1 DEF One, Types
    <3>9. mailed'[e][n] = mailed[e][n] /\ strayed'[e] = strayed[e]
      BY <1>1
    <3> QED
      BY <3>7, <3>8, <3>9
  <2>3. CASE e \notin Due
    <3>1. \A x \in r.batch : x.e # e
      BY <1>3, <1>4, <2>3
    <3>2. ~MayMail(w, e, n)'
      BY <1>5, <3>1 DEF MayMail
    <3>3. Covered(e) => Covered(e)'
      BY <1>1, <1>5, <1>6 DEF Covered
    <3>4. MayReturn(e, n)' => MayReturn(e, n)
      BY <1>6, <2>3, <3>3 DEF MayReturn
    <3>5. One(MayReturn(e, n)') <= One(MayReturn(e, n)) /\ One(MayMail(w, e, n)') = 0 /\ One(MayMail(w, e, n)) = 0
      BY <2>1, <3>2, <3>4 DEF One
    <3>6. One(MayReturn(e, n)') \in Nat /\ One(MayReturn(e, n)) \in Nat /\ mailed[e][n] \in Nat /\ strayed[e] \in Nat
      BY <1>1 DEF One, Types
    <3>7. mailed'[e][n] = mailed[e][n] /\ strayed'[e] = strayed[e]
      BY <1>1
    <3> QED
      BY <3>5, <3>6, <3>7
  <2> QED
    BY <2>2, <2>3
<1>12. ASSUME NEW e \in Enrollments PROVE Stopped(e, w)'
  <2>1. Stopped(e, w)
    BY DEF IInv
  <2>2. worker'[w].phase \in {"free", "check"}
    BY <1>4, <1>5
  <2>3. enr[e].status # "active" => \A x \in worker'[w].batch : x.e # e
    BY <1>3, <1>4, <1>5, <1>6
  <2> QED
    BY <1>1, <1>6, <2>1, <2>2, <2>3 DEF Stopped, Barred
<1>13. \A e \in Enrollments, v \in Workers : v # w => after'[e][v] = after[e][v]
  BY <1>1
<1>14. /\ mailed' \in [Enrollments -> [StepIndex -> Nat]]
       /\ after' \in [Enrollments -> [Workers -> Nat]] /\ strayed' \in [Enrollments -> Nat]
  BY <1>1 DEF Types
<1> QED
  BY <1>1, <1>4, <1>7, <1>8, <1>9, <1>10, <1>11, <1>12, <1>13, <1>14, WorkerStep

\* A process that leaves a row it has not mailed, or all of them, and changes
\* nothing else.
LEMMA LeaveStep ==
  ASSUME IInv, NEW w \in Workers, worker[w].phase \notin {"free", "move"},
         Proceed(w) \/ worker' = [worker EXCEPT ![w] = Free],
         UNCHANGED <<enr, contact, mailed, after, strayed>>
  PROVE  IInv'
<1>1. Types /\ BatchOK(w)
  BY DEF IInv
<1>2. PICK r \in {Free} \union WorkRow :
        /\ worker' = [worker EXCEPT ![w] = r]
        /\ r.batch \subseteq worker[w].batch
        /\ r.phase = IF r.batch = {} THEN "free" ELSE "check"
        /\ r.phase # "free" => r.now \in r.batch
  <2>1. CASE Proceed(w)
    BY <2>1, ProceedMove
  <2>2. CASE worker' = [worker EXCEPT ![w] = Free]
    <3>1. Free.batch = {} /\ Free.phase = "free"
      BY DEF Free
    <3> QED
      BY <2>2, <3>1
  <2> QED
    BY <2>1, <2>2
<1>3. Kept
  BY DEF Kept
<1>4. ASSUME NEW e \in Enrollments PROVE SentOK(e)'
  <2>1. SentOK(e)
    BY DEF IInv
  <2> QED
    BY <2>1, SentStays
<1>5. ASSUME NEW e \in Enrollments, NEW n \in StepIndex
      PROVE  One(MayMail(w, e, n)') + One(MayReturn(e, n)') + strayed[e]
               <= One(MayMail(w, e, n)) + One(MayReturn(e, n)) + strayed'[e]
  <2>1. r.phase # "move" /\ enr'[e] = enr[e]
    BY <1>2
  <2>2. One(MayMail(w, e, n)') + One(MayReturn(e, n)') <= One(MayMail(w, e, n)) + One(MayReturn(e, n))
    BY <1>1, <1>2, <2>1, DropPays
  <2>3. One(MayMail(w, e, n)') \in Nat /\ One(MayReturn(e, n)') \in Nat
        /\ One(MayMail(w, e, n)) \in Nat /\ One(MayReturn(e, n)) \in Nat
        /\ strayed[e] \in Nat /\ strayed'[e] = strayed[e]
    BY <1>1 DEF One, Types
  <2> QED
    BY <2>2, <2>3
<1>6. enr' \in [Enrollments -> EnrRow] /\ strayed' \in [Enrollments -> Nat]
  BY <1>1 DEF Types
<1> QED
  BY <1>2, <1>3, <1>4, <1>5, <1>6, DropStep

\* The contact and the deal are read again; the mail is put together.
LEMMA RecheckComposeKeeps ==
  ASSUME IInv, NEW w \in Workers, Recheck(w) \/ Compose(w)
  PROVE  IInv'
<1>1. UNCHANGED <<enr, contact, mailed, after, strayed>>
  BY DEF Recheck, Compose, hist
<1>2. CASE Recheck(w)
  <2>1. PICK phase \in {"quit", "send"} : Go(w, phase) /\ (phase = "send" => ~contact.dnc /\ contact.deal # "decided")
    BY <1>2 DEF Recheck
  <2>2. worker[w].phase = "check"
    BY <1>2 DEF Recheck, At
  <2> QED
    BY <1>1, <2>1, <2>2, GoStep
<1>3. CASE Compose(w)
  <2>1. worker[w].phase = "send"
    BY <1>3 DEF Compose, At
  <2>2. CASE contact.dnc \/ contact.deal = "deleted"
    <3>1. Proceed(w)
      BY <1>3, <2>2 DEF Compose
    <3> QED
      BY <1>1, <2>1, <3>1, LeaveStep
  <2>3. CASE ~(contact.dnc \/ contact.deal = "deleted")
    <3>1. Go(w, "post")
      BY <1>3, <2>3 DEF Compose
    <3> QED
      BY <1>1, <2>1, <2>3, <3>1, GoStep
  <2> QED
    BY <2>2, <2>3
<1> QED
  BY <1>2, <1>3

\* A process writes the row it is at and goes on to the next one: what it
\* wrote may return only what it has given up, or what strays.
LEMMA WriteStep ==
  ASSUME IInv, NEW w \in Workers, worker[w].phase # "free", Proceed(w),
         NEW row \in EnrRow, enr' = [enr EXCEPT ![Now(w)] = row],
         row.status # "none",
         enr[Now(w)].status \in {"exited", "completed"} => row.status \in {"exited", "completed"},
         UNCHANGED <<contact, mailed, after>>, strayed' \in [Enrollments -> Nat],
         \A e \in Enrollments : e # Now(w) => strayed'[e] = strayed[e],
         \A e : e = Now(w) => SentOK(e)',
         \A e \in Enrollments, n \in StepIndex :
            e = Now(w) => One(MayReturn(e, n)') + strayed[e] <= One(MayMail(w, e, n)) + One(MayReturn(e, n)) + strayed'[e]
  PROVE  IInv'
<1>1. Types /\ BatchOK(w) /\ Now(w) \in Enrollments
  BY NowRow DEF IInv
<1>2. PICK r \in {Free} \union WorkRow :
        /\ worker' = [worker EXCEPT ![w] = r]
        /\ r.batch = worker[w].batch \ {worker[w].now}
        /\ r.phase = IF r.batch = {} THEN "free" ELSE "check"
        /\ r.phase # "free" => r.now \in r.batch
        /\ \A e, n : e = Now(w) => ~MayMail(w, e, n)'
  BY ProceedMove
<1>3. enr'[Now(w)] = row /\ \A e \in Enrollments : e # Now(w) => enr'[e] = enr[e]
  BY <1>1 DEF Types
<1>4. enr' \in [Enrollments -> EnrRow]
  BY <1>1 DEF Types
<1>5. Kept
  <2>1. ASSUME NEW e \in Enrollments
        PROVE  /\ enr'[e].status = "none" => enr[e].status = "none"
               /\ enr[e].status \in {"exited", "completed"} => enr'[e].status \in {"exited", "completed"}
    BY <1>3
  <2> QED
    BY <2>1 DEF Kept
<1>6. ASSUME NEW e \in Enrollments PROVE SentOK(e)'
  <2>1. CASE e = Now(w)
    BY <2>1
  <2>2. CASE e # Now(w)
    <3>1. SentOK(e) /\ enr'[e] = enr[e]
      BY <1>3, <2>2 DEF IInv
    <3> QED
      BY <3>1, SentStays
  <2> QED
    BY <2>1, <2>2
<1>7. ASSUME NEW e \in Enrollments, NEW n \in StepIndex
      PROVE  One(MayMail(w, e, n)') + One(MayReturn(e, n)') + strayed[e]
               <= One(MayMail(w, e, n)) + One(MayReturn(e, n)) + strayed'[e]
  <2>1. /\ One(MayMail(w, e, n)') \in Nat /\ One(MayReturn(e, n)') \in Nat
        /\ One(MayMail(w, e, n)) \in Nat /\ One(MayReturn(e, n)) \in Nat
        /\ strayed[e] \in Nat /\ strayed'[e] \in Nat
    BY <1>1 DEF One, Types
  <2>2. CASE e = Now(w)
    <3>1. One(MayMail(w, e, n)') = 0
      BY <1>2, <2>2 DEF One
    <3>2. One(MayReturn(e, n)') + strayed[e] <= One(MayMail(w, e, n)) + One(MayReturn(e, n)) + strayed'[e]
      BY <2>2
    <3> QED
      BY <2>1, <3>1, <3>2
  <2>3. CASE e # Now(w)
    <3>1. r.batch \subseteq worker[w].batch /\ r.phase # "move" /\ enr'[e] = enr[e]
      BY <1>2, <1>3, <2>3
    <3>2. worker[w].phase = "move" => Now(w) # e
      BY <2>3
    <3>3. One(MayMail(w, e, n)') + One(MayReturn(e, n)') <= One(MayMail(w, e, n)) + One(MayReturn(e, n))
      BY <1>1, <1>2, <3>1, <3>2, DropPays
    <3>4. strayed'[e] = strayed[e]
      BY <2>3
    <3> QED
      BY <2>1, <3>3, <3>4
  <2> QED
    BY <2>2, <2>3
<1>8. r.batch \subseteq worker[w].batch /\ (worker[w].phase = "move" => worker[w].now \notin r.batch)
  BY <1>2
<1> QED
  BY <1>2, <1>4, <1>5, <1>6, <1>7, <1>8, DropStep

\* finish("exited").
LEMMA QuitKeeps ==
  ASSUME IInv, NEW w \in Workers, Quit(w)
  PROVE  IInv'
<1>1. Types /\ BatchOK(w) /\ worker[w].phase = "quit" /\ Now(w) \in Enrollments
  BY NowRow DEF IInv, Quit, At
<1>2. UNCHANGED <<contact, mailed, after, strayed>> /\ Proceed(w)
  BY DEF Quit, hist
<1>3. enr[Now(w)] \in EnrRow
  BY <1>1 DEF Types
<1> DEFINE row == [enr[Now(w)] EXCEPT !.status = "exited", !.next = "never"]
<1>4. enr' = [enr EXCEPT ![Now(w)] = row]
  BY <1>1 DEF Quit, Types
<1>5. row \in EnrRow /\ row.status = "exited" /\ row.step = enr[Now(w)].step
  BY <1>3 DEF EnrRow
<1> HIDE DEF row
<1>6. enr'[Now(w)] = row
  BY <1>1, <1>4 DEF Types
<1>7. ASSUME NEW e, e = Now(w) PROVE SentOK(e)'
  <2>1. e \in Enrollments /\ SentOK(e) /\ enr'[e].step = enr[e].step /\ enr'[e].status = "exited"
    BY <1>1, <1>5, <1>6, <1>7 DEF IInv
  <2> QED
    BY <1>2, <2>1, SentStays
<1>8. ASSUME NEW e \in Enrollments, NEW n \in StepIndex, e = Now(w)
      PROVE  One(MayReturn(e, n)') + strayed[e] <= One(MayMail(w, e, n)) + One(MayReturn(e, n)) + strayed'[e]
  <2>1. ~MayReturn(e, n)'
    BY <1>5, <1>6, <1>8 DEF MayReturn
  <2>2. One(MayReturn(e, n)') = 0 /\ One(MayMail(w, e, n)) \in Nat /\ One(MayReturn(e, n)) \in Nat
        /\ strayed[e] \in Nat /\ strayed'[e] = strayed[e]
    BY <1>1, <1>2, <2>1 DEF One, Types
  <2> QED
    BY <2>2
<1>9. strayed' \in [Enrollments -> Nat] /\ (\A e \in Enrollments : e # Now(w) => strayed'[e] = strayed[e])
  BY <1>1, <1>2 DEF Types
<1>10. worker[w].phase # "free" /\ row.status # "none"
       /\ (enr[Now(w)].status \in {"exited", "completed"} => row.status \in {"exited", "completed"})
  BY <1>1, <1>5
<1> QED
  BY <1>2, <1>4, <1>5, <1>7, <1>8, <1>9, <1>10, WriteStep

\* Outside the send window, or at the daily cap.
LEMMA DeferKeeps ==
  ASSUME IInv, NEW w \in Workers, Defer(w)
  PROVE  IInv'
<1>1. Types /\ BatchOK(w) /\ worker[w].phase = "send" /\ Now(w) \in Enrollments
  BY NowRow DEF IInv, Defer, At
<1>2. UNCHANGED <<contact, mailed, after>> /\ Proceed(w)
  BY DEF Defer
<1>3. enr[Now(w)] \in EnrRow
  BY <1>1 DEF Types
<1> DEFINE row == [enr[Now(w)] EXCEPT !.next = "waiting"]
<1>4. enr' = [enr EXCEPT ![Now(w)] = row]
  BY <1>1 DEF Defer, Types
<1>5. row \in EnrRow /\ row.status = enr[Now(w)].status /\ row.step = enr[Now(w)].step /\ row.next = "waiting"
  BY <1>3 DEF EnrRow
<1> HIDE DEF row
<1>6. enr'[Now(w)] = row
  BY <1>1, <1>4 DEF Types
<1>7. worker[w].now \in worker[w].batch /\ worker[w].now.e = Now(w)
  BY <1>1 DEF BatchOK, Now
<1>8. row.status # "none"
  BY <1>1, <1>5, <1>7 DEF BatchOK
<1>9. ASSUME NEW e, e = Now(w) PROVE SentOK(e)'
  <2>1. e \in Enrollments /\ SentOK(e)
    BY <1>1, <1>9 DEF IInv
  <2>2. enr'[e].step = enr[e].step /\ enr'[e].status = enr[e].status /\ enr'[e].next # "never"
    BY <1>5, <1>6, <1>9
  <2> QED
    BY <1>2, <2>1, <2>2, SentStays
<1>10. strayed' \in [Enrollments -> Nat] /\ (\A e \in Enrollments : e # Now(w) => strayed'[e] = strayed[e])
  <2>1. CASE \E v \in Workers \ {w} : Has(v, Now(w))
    <3>1. strayed' = [strayed EXCEPT ![Now(w)] = strayed[Now(w)] + 1]
      BY <2>1 DEF Defer
    <3> QED
      BY <1>1, <3>1 DEF Types
  <2>2. CASE ~\E v \in Workers \ {w} : Has(v, Now(w))
    <3>1. strayed' = strayed
      BY <2>2 DEF Defer
    <3> QED
      BY <1>1, <3>1 DEF Types
  <2> QED
    BY <2>1, <2>2
<1>11. ASSUME NEW e \in Enrollments, NEW n \in StepIndex, e = Now(w)
       PROVE  One(MayReturn(e, n)') + strayed[e] <= One(MayMail(w, e, n)) + One(MayReturn(e, n)) + strayed'[e]
  <2>1. One(MayReturn(e, n)') \in 0..1 /\ One(MayMail(w, e, n)) \in 0..1 /\ One(MayReturn(e, n)) \in 0..1
        /\ strayed[e] \in Nat
    BY <1>1 DEF One, Types
  <2>2. CASE \E v \in Workers \ {w} : Has(v, e)
    <3>1. strayed' = [strayed EXCEPT ![e] = strayed[e] + 1]
      BY <1>11, <2>2 DEF Defer
    <3>2. strayed'[e] = strayed[e] + 1
      BY <1>1, <3>1 DEF Types
    <3> QED
      BY <2>1, <3>2
  <2>3. CASE ~\E v \in Workers \ {w} : Has(v, e)
    <3>1. strayed'[e] = strayed[e]
      BY <1>11, <2>3 DEF Defer
    <3>2. ASSUME MayReturn(e, n)', ~MayReturn(e, n) PROVE MayMail(w, e, n)
      <4>1. enr[e].status = "active" /\ enr[e].step <= n
        BY <1>5, <1>6, <1>11, <3>2 DEF MayReturn
      <4>2. enr[e].next \in {"due", "leased", "waiting"}
        <5>1. SentOK(e) /\ enr[e] \in EnrRow
          BY <1>1 DEF IInv, Types
        <5> QED
          BY <4>1, <5>1 DEF SentOK, EnrRow
      <4>3. Covered(e)
        BY <3>2, <4>1, <4>2 DEF MayReturn
      <4>4. PICK x \in worker[w].batch : x.e = e /\ x.step <= enr[e].step
        BY <2>3, <4>3 DEF Covered, Has
      <4>5. x.step \in Int /\ enr[e].step \in Int /\ n \in Int
        <5>1. StepIndex \subseteq Int
          BY SequencesAssumption DEF StepIndex
        <5>2. x \in Rows /\ enr[e] \in EnrRow
          BY <1>1, WorkerRow DEF Types
        <5> QED
          BY <5>1, <5>2 DEF Rows, EnrRow
      <4>6. x.step <= n
        BY <4>1, <4>4, <4>5
      <4> QED
        BY <1>1, <4>4, <4>6 DEF MayMail
    <3>3. One(MayReturn(e, n)') <= One(MayMail(w, e, n)) + One(MayReturn(e, n))
      BY <3>2 DEF One
    <3> QED
      BY <2>1, <3>1, <3>3
  <2> QED
    BY <2>2, <2>3
<1>12. worker[w].phase # "free" /\ (enr[Now(w)].status \in {"exited", "completed"} => row.status \in {"exited", "completed"})
  BY <1>1, <1>5
<1> QED
  BY <1>2, <1>4, <1>5, <1>8, <1>9, <1>10, <1>11, <1>12, WriteStep

\* The next step and its time, or "completed".
LEMMA MoveKeeps ==
  ASSUME IInv, NEW w \in Workers, Move(w)
  PROVE  IInv'
<1>1. Types /\ BatchOK(w) /\ worker[w].phase = "move" /\ Now(w) \in Enrollments /\ worker[w].now.step \in StepIndex
  BY NowRow DEF IInv, Move, At
<1>2. UNCHANGED <<contact, mailed, after, strayed>> /\ Proceed(w)
  BY DEF Move, hist
<1>3. enr[Now(w)] \in EnrRow
  BY <1>1 DEF Types
<1> DEFINE step == worker[w].now.step + 1
<1>4. PICK next \in {"due", "waiting"} :
        enr' = [enr EXCEPT ![Now(w)] = IF step = Steps
                                       THEN [enr[Now(w)] EXCEPT !.status = "completed", !.next = "never"]
                                       ELSE [enr[Now(w)] EXCEPT !.step = step, !.next = next]]
  BY DEF Move, Moved
<1> DEFINE row == IF step = Steps
                  THEN [enr[Now(w)] EXCEPT !.status = "completed", !.next = "never"]
                  ELSE [enr[Now(w)] EXCEPT !.step = step, !.next = next]
<1>5. enr' = [enr EXCEPT ![Now(w)] = row]
  BY <1>4
<1>6. worker[w].now \in worker[w].batch /\ worker[w].now.e = Now(w)
  BY <1>1 DEF BatchOK, Now
<1>7. enr[Now(w)].status # "none"
  BY <1>1, <1>6 DEF BatchOK
<1>8. CASE step = Steps
  <2>1. row \in EnrRow /\ row.status = "completed" /\ row.step = enr[Now(w)].step
    BY <1>3, <1>8 DEF EnrRow
  <2> HIDE DEF row
  <2>2. enr'[Now(w)] = row
    BY <1>1, <1>5 DEF Types
  <2>3. ASSUME NEW e, e = Now(w) PROVE SentOK(e)'
    <3>1. e \in Enrollments /\ SentOK(e)
      BY <1>1, <2>3 DEF IInv
    <3>2. enr'[e].status = "completed" /\ enr'[e].step = enr[e].step
      BY <2>1, <2>2, <2>3
    <3>3. SentBefore(e, Steps)'
      <4>1. ASSUME NEW n \in StepIndex, n < Steps PROVE mailed[e][n] > 0
        <5>1. n < worker[w].now.step \/ n = worker[w].now.step
          BY <1>1, <1>8, <4>1, SequencesAssumption DEF StepIndex
        <5>2. SentBefore(e, worker[w].now.step) /\ mailed[e][worker[w].now.step] > 0
          BY <1>1, <1>6, <2>3 DEF BatchOK
        <5> QED
          BY <5>1, <5>2 DEF SentBefore
      <4> QED
        BY <1>2, <4>1 DEF SentBefore
    <3>4. SentBefore(e, enr[e].step)'
      BY <1>2, <3>1, <3>2 DEF SentOK, SentBefore
    <3> QED
      BY <1>2, <3>1, <3>2, <3>3, <3>4 DEF SentOK
  <2>4. ASSUME NEW e \in Enrollments, NEW n \in StepIndex, e = Now(w)
        PROVE  One(MayReturn(e, n)') + strayed[e] <= One(MayMail(w, e, n)) + One(MayReturn(e, n)) + strayed'[e]
    <3>1. ~MayReturn(e, n)'
      BY <2>1, <2>2, <2>4 DEF MayReturn
    <3>2. One(MayReturn(e, n)') = 0 /\ One(MayMail(w, e, n)) \in Nat /\ One(MayReturn(e, n)) \in Nat
          /\ strayed[e] \in Nat /\ strayed'[e] = strayed[e]
      BY <1>1, <1>2, <3>1 DEF One, Types
    <3> QED
      BY <3>2
  <2>5. strayed' \in [Enrollments -> Nat] /\ (\A e \in Enrollments : e # Now(w) => strayed'[e] = strayed[e])
    BY <1>1, <1>2 DEF Types
  <2>6. worker[w].phase # "free" /\ row.status # "none"
        /\ (enr[Now(w)].status \in {"exited", "completed"} => row.status \in {"exited", "completed"})
    BY <1>1, <2>1
  <2> QED
    BY <1>2, <1>5, <2>1, <2>3, <2>4, <2>5, <2>6, WriteStep
<1>9. CASE step # Steps
  <2>1. step \in StepIndex
    BY <1>1, <1>9, SequencesAssumption DEF StepIndex
  <2>2. row \in EnrRow /\ row.status = enr[Now(w)].status /\ row.step = step /\ row.next = next
    BY <1>3, <1>9, <2>1 DEF EnrRow
  <2> HIDE DEF row
  <2>3. enr'[Now(w)] = row
    BY <1>1, <1>5 DEF Types
  <2>4. ASSUME NEW e, e = Now(w) PROVE SentOK(e)'
    <3>1. e \in Enrollments /\ SentOK(e)
      BY <1>1, <2>4 DEF IInv
    <3>2. enr'[e].status = enr[e].status /\ enr'[e].step = step /\ enr'[e].next # "never" /\ enr[e].status # "none"
      BY <1>7, <2>2, <2>3, <2>4
    <3>3. \A n \in StepIndex : n < step => mailed'[e][n] > 0
      <4>1. ASSUME NEW n \in StepIndex, n < step PROVE mailed[e][n] > 0
        <5>1. n < worker[w].now.step \/ n = worker[w].now.step
          BY <1>1, <4>1, SequencesAssumption DEF StepIndex
        <5>2. SentBefore(e, worker[w].now.step) /\ mailed[e][worker[w].now.step] > 0
          BY <1>1, <1>6, <2>4 DEF BatchOK
        <5> QED
          BY <5>1, <5>2 DEF SentBefore
      <4> QED
        BY <1>2, <4>1
    <3>4. SentBefore(e, Steps)' <=> SentBefore(e, Steps)
      BY <1>2 DEF SentBefore
    <3>5. SentBefore(e, enr[e].step)'
      BY <3>2, <3>3 DEF SentBefore
    <3> QED
      BY <1>2, <3>1, <3>2, <3>4, <3>5 DEF SentOK
  <2>5. ASSUME NEW e \in Enrollments, NEW n \in StepIndex, e = Now(w)
        PROVE  One(MayReturn(e, n)') + strayed[e] <= One(MayMail(w, e, n)) + One(MayReturn(e, n)) + strayed'[e]
    <3>1. MayReturn(e, n)' => MayMail(w, e, n)
      <4>1. MayReturn(e, n)' => step <= n
        BY <2>2, <2>3, <2>5 DEF MayReturn
      <4>2. step <= n => worker[w].now.step <= n /\ worker[w].now.step # n
        BY <1>1, SequencesAssumption DEF StepIndex
      <4> QED
        BY <1>6, <2>5, <4>1, <4>2 DEF MayMail
    <3>2. One(MayReturn(e, n)') <= One(MayMail(w, e, n)) /\ One(MayReturn(e, n)') \in Nat
          /\ One(MayMail(w, e, n)) \in Nat /\ One(MayReturn(e, n)) \in Nat
          /\ strayed[e] \in Nat /\ strayed'[e] = strayed[e]
      BY <1>1, <1>2, <3>1 DEF One, Types
    <3> QED
      BY <3>2
  <2>6. strayed' \in [Enrollments -> Nat] /\ (\A e \in Enrollments : e # Now(w) => strayed'[e] = strayed[e])
    BY <1>1, <1>2 DEF Types
  <2>7. worker[w].phase # "free" /\ row.status # "none"
        /\ (enr[Now(w)].status \in {"exited", "completed"} => row.status \in {"exited", "completed"})
    BY <1>1, <1>7, <2>2
  <2> QED
    BY <1>2, <1>5, <2>2, <2>4, <2>5, <2>6, <2>7, WriteStep
<1> QED
  BY <1>8, <1>9

\* The provider takes the mail, or it does not.
LEMMA PostKeeps ==
  ASSUME IInv, NEW w \in Workers, Post(w)
  PROVE  IInv'
<1>1. Types /\ BatchOK(w) /\ worker[w].phase = "post" /\ worker[w] \in WorkRow
      /\ Now(w) \in Enrollments /\ worker[w].now.step \in StepIndex
  BY NowRow DEF IInv, Post, At
<1>2. UNCHANGED <<enr, contact, strayed>>
  BY DEF Post
<1>3. CASE Proceed(w) /\ UNCHANGED <<mailed, after>>
  BY <1>1, <1>2, <1>3, LeaveStep
<1>4. CASE /\ mailed' = [mailed EXCEPT ![Now(w)][worker[w].now.step] = @ + 1]
           /\ after' = IF Over(Now(w)) THEN [after EXCEPT ![Now(w)][w] = @ + 1] ELSE after
           /\ Go(w, "move")
  <2>1. worker[w].now \in worker[w].batch /\ worker[w].now.e = Now(w)
        /\ \A x \in worker[w].batch : x.e = Now(w) => x = worker[w].now
    BY <1>1 DEF BatchOK, Now
  <2> DEFINE r == [worker[w] EXCEPT !.phase = "move"]
  <2>2. worker' = [worker EXCEPT ![w] = r]
    BY <1>4 DEF Go
  <2>3. r \in WorkRow /\ r.phase = "move" /\ r.batch = worker[w].batch /\ r.now = worker[w].now
    BY <1>1 DEF WorkRow, Phases
  <2> HIDE DEF r
  <2>4. worker'[w] = r /\ \A v \in Workers : worker'[v].batch = worker[v].batch
    BY <1>1, <2>2, <2>3 DEF Types
  <2>5. /\ mailed' \in [Enrollments -> [StepIndex -> Nat]]
        /\ \A e \in Enrollments, n \in StepIndex :
             mailed'[e][n] = IF e = Now(w) /\ n = worker[w].now.step THEN mailed[e][n] + 1 ELSE mailed[e][n]
    <3>1. mailed' = [mailed EXCEPT ![Now(w)] = [mailed[Now(w)] EXCEPT ![worker[w].now.step] = mailed[Now(w)][worker[w].now.step] + 1]]
      BY <1>1, <1>4 DEF Types
    <3>2. \A e \in Enrollments : mailed[e] \in [StepIndex -> Nat]
      BY <1>1 DEF Types
    <3> QED
      BY <1>1, <3>1, <3>2 DEF Types
  <2>6. /\ after' \in [Enrollments -> [Workers -> Nat]]
        /\ \A e \in Enrollments, v \in Workers :
             after'[e][v] = IF e = Now(w) /\ v = w /\ Over(Now(w)) THEN after[e][v] + 1 ELSE after[e][v]
    <3>1. \A e \in Enrollments : after[e] \in [Workers -> Nat]
      BY <1>1 DEF Types
    <3>2. CASE Over(Now(w))
      <4>1. after' = [after EXCEPT ![Now(w)] = [after[Now(w)] EXCEPT ![w] = after[Now(w)][w] + 1]]
        BY <1>1, <1>4, <3>1, <3>2 DEF Types
      <4> QED
        BY <1>1, <3>1, <3>2, <4>1 DEF Types
    <3>3. CASE ~Over(Now(w))
      BY <1>1, <1>4, <3>3 DEF Types
    <3> QED
      BY <3>2, <3>3
  <2>7. \A e \in Enrollments, n \in StepIndex : mailed[e][n] \in Nat /\ mailed'[e][n] \in Nat /\ mailed[e][n] <= mailed'[e][n]
    <3>1. \A e \in Enrollments, n \in StepIndex : mailed[e][n] \in Nat
      BY <1>1 DEF Types
    <3> QED
      BY <2>5, <3>1
  <2>8. Kept
    BY <1>2, <2>7 DEF Kept
  <2>9. \A e \in Enrollments : \A step : SentBefore(e, step) => SentBefore(e, step)'
    BY <2>8 DEF SentBefore, Kept
  <2>10. BatchOK(w)'
    <3>1. mailed'[worker[w].now.e][worker[w].now.step] > 0
      BY <1>1, <2>1, <2>5, <2>7
    <3>2. \A x \in worker[w].batch : enr'[x.e].status # "none" /\ SentBefore(x.e, x.step)'
      <4>1. \A x \in worker[w].batch : x.e \in Enrollments /\ enr[x.e].status # "none" /\ SentBefore(x.e, x.step)
        BY <1>1, WorkerRow DEF BatchOK, Rows
      <4> QED
        BY <1>2, <2>9, <4>1
    <3> QED
      BY <1>1, <2>3, <2>4, <3>1, <3>2 DEF BatchOK
  <2>11. ASSUME NEW e \in Enrollments PROVE SentOK(e)'
    <3>1. SentOK(e) /\ enr'[e] = enr[e]
      BY <1>2 DEF IInv
    <3>2. enr[e].status = "none" => e # Now(w)
      BY <1>1, <2>1 DEF BatchOK
    <3>3. ASSUME NEW n \in StepIndex \ {0}, mailed'[e][n] > 0 PROVE mailed'[e][n - 1] > 0
      <4>1. n - 1 \in StepIndex /\ n - 1 < n
        BY SequencesAssumption DEF StepIndex
      <4>2. mailed[e][n - 1] > 0
        <5>1. CASE e = Now(w) /\ n = worker[w].now.step
          <6>1. SentBefore(e, n)
            BY <1>1, <2>1, <5>1 DEF BatchOK
          <6> QED
            BY <4>1, <6>1 DEF SentBefore
        <5>2. CASE ~(e = Now(w) /\ n = worker[w].now.step)
          <6>1. mailed[e][n] > 0
            BY <2>5, <3>3, <5>2
          <6> QED
            BY <3>1, <6>1 DEF SentOK
        <5> QED
          BY <5>1, <5>2
      <4> QED
        BY <2>8, <4>1, <4>2 DEF Kept
    <3>4. SentBefore(e, enr[e].step)'
      BY <2>9, <3>1 DEF SentOK, SentBefore
    <3>5. enr[e].status = "completed" => SentBefore(e, Steps)'
      BY <2>9, <3>1 DEF SentOK
    <3>6. enr[e].status = "none" => \A n \in StepIndex : mailed'[e][n] = 0
      BY <2>5, <3>1, <3>2 DEF SentOK
    <3> QED
      BY <3>1, <3>3, <3>4, <3>5, <3>6 DEF SentOK
  <2>12. ASSUME NEW e \in Enrollments, NEW n \in StepIndex
         PROVE  mailed'[e][n] + One(MayMail(w, e, n)') + One(MayReturn(e, n)') + strayed[e]
                  <= mailed[e][n] + One(MayMail(w, e, n)) + One(MayReturn(e, n)) + strayed'[e]
    <3>1. MayReturn(e, n)' <=> MayReturn(e, n)
      BY <1>2, <2>4 DEF MayReturn, Covered
    <3>2. One(MayReturn(e, n)') = One(MayReturn(e, n)) /\ One(MayReturn(e, n)) \in Nat
      BY <3>1 DEF One
    <3>3. strayed'[e] = strayed[e] /\ strayed[e] \in Nat /\ mailed[e][n] \in Nat /\ One(MayMail(w, e, n)) \in Nat
      BY <1>1, <1>2 DEF Types, One
    <3>4. CASE e = Now(w) /\ n = worker[w].now.step
      <4>1. MayMail(w, e, n)
        <5>1. worker[w].now.step <= n
          BY <1>1, <3>4, SequencesAssumption DEF StepIndex
        <5> QED
          BY <1>1, <2>1, <3>4, <5>1 DEF MayMail
      <4>2. ~MayMail(w, e, n)'
        BY <2>1, <2>3, <2>4, <3>4 DEF MayMail
      <4>3. One(MayMail(w, e, n)) = 1 /\ One(MayMail(w, e, n)') = 0
        BY <4>1, <4>2 DEF One
      <4>4. mailed'[e][n] = mailed[e][n] + 1
        BY <2>5, <3>4
      <4> QED
        BY <3>2, <3>3, <4>3, <4>4
    <3>5. CASE ~(e = Now(w) /\ n = worker[w].now.step)
      <4>1. MayMail(w, e, n)' => MayMail(w, e, n)
        BY <1>1, <2>3, <2>4 DEF MayMail
      <4>2. One(MayMail(w, e, n)') <= One(MayMail(w, e, n)) /\ One(MayMail(w, e, n)') \in Nat
        BY <4>1 DEF One
      <4>3. mailed'[e][n] = mailed[e][n]
        BY <2>5, <3>5
      <4> QED
        BY <3>2, <3>3, <4>2, <4>3
    <3> QED
      BY <3>4, <3>5
  <2>13. ASSUME NEW e \in Enrollments PROVE Stopped(e, w)'
    <3>1. Stopped(e, w) /\ after[e][w] \in Nat
      BY <1>1 DEF IInv, Types
    <3>2. worker'[w].phase = "move" /\ worker'[w].batch = worker[w].batch /\ worker'[w].now = worker[w].now
      BY <2>3, <2>4
    <3>3. CASE e = Now(w)
      <4>1. after[e][w] = 0
        BY <1>1, <2>1, <3>1, <3>3 DEF Stopped
      <4>2. CASE ~Over(e)
        <5>1. after'[e][w] = 0
          BY <2>6, <3>3, <4>1, <4>2
        <5> QED
          BY <5>1 DEF Stopped
      <4>3. CASE Over(e)
        <5>1. after'[e][w] = 1
          BY <2>6, <3>3, <4>1, <4>3
        <5>2. Barred \/ enr[e].status \in {"exited", "completed"}
          <6>1. enr[e] \in EnrRow /\ enr[e].status # "none"
            BY <1>1, <2>1, <3>3 DEF Types, BatchOK
          <6> QED
            BY <4>3, <6>1 DEF Over, Active, EnrRow
        <5>3. \A x \in worker[w].batch : x.e = e => x = worker[w].now
          BY <2>1, <3>3
        <5> QED
          BY <1>2, <3>2, <5>1, <5>2, <5>3 DEF Stopped, Barred
      <4> QED
        BY <4>2, <4>3
    <3>4. CASE e # Now(w)
      <4>1. after'[e][w] = after[e][w]
        BY <2>6, <3>4
      <4>2. worker[w].phase # "move"
        BY <1>1
      <4> QED
        BY <1>2, <3>1, <3>2, <4>1, <4>2 DEF Stopped, Barred, Now
    <3> QED
      BY <3>3, <3>4
  <2>14. \A e \in Enrollments, v \in Workers : v # w => after'[e][v] = after[e][v]
    BY <2>6
  <2>15. enr' \in [Enrollments -> EnrRow] /\ strayed' \in [Enrollments -> Nat] /\ UNCHANGED contact
    BY <1>1, <1>2 DEF Types
  <2> QED
    BY <2>2, <2>3, <2>5, <2>6, <2>8, <2>10, <2>11, <2>12, <2>13, <2>14, <2>15, WorkerStep
<1> QED
  BY <1>3, <1>4 DEF Post

\* A statement throws, or the process dies.
LEMMA FailsKeeps ==
  ASSUME IInv, NEW w \in Workers, Fails(w)
  PROVE  IInv'
<1>1. Types /\ BatchOK(w) /\ worker[w].phase # "free" /\ Now(w) \in Enrollments
  BY NowRow DEF IInv, Fails, At
<1>2. UNCHANGED <<enr, contact, mailed, after>> /\ (Proceed(w) \/ worker' = [worker EXCEPT ![w] = Free])
  BY DEF Fails
<1>3. CASE worker[w].phase # "move"
  <2>1. UNCHANGED strayed
    BY <1>3 DEF Fails, At
  <2> QED
    BY <1>1, <1>2, <1>3, <2>1, LeaveStep
<1>4. CASE worker[w].phase = "move"
  <2>1. PICK r \in {Free} \union WorkRow :
          /\ worker' = [worker EXCEPT ![w] = r]
          /\ r.batch \subseteq worker[w].batch \ {worker[w].now}
          /\ r.phase = IF r.batch = {} THEN "free" ELSE "check"
          /\ r.phase # "free" => r.now \in r.batch
    <3>1. CASE Proceed(w)
      BY <1>1, <3>1, ProceedMove
    <3>2. CASE worker' = [worker EXCEPT ![w] = Free]
      <4>1. Free.batch = {} /\ Free.phase = "free"
        BY DEF Free
      <4> QED
        BY <3>2, <4>1
    <3> QED
      BY <1>2, <3>1, <3>2
  <2>2. worker'[w] = r
    BY <1>1, <2>1 DEF Types
  <2>3. strayed' = [strayed EXCEPT ![Now(w)] = strayed[Now(w)] + 1]
    BY <1>4 DEF Fails, At
  <2>4. strayed' \in [Enrollments -> Nat] /\ strayed'[Now(w)] = strayed[Now(w)] + 1
        /\ \A e \in Enrollments : e # Now(w) => strayed'[e] = strayed[e]
    BY <1>1, <2>3 DEF Types
  <2>5. Kept
    BY <1>2 DEF Kept
  <2>6. ASSUME NEW e \in Enrollments PROVE SentOK(e)'
    <3>1. SentOK(e)
      BY DEF IInv
    <3> QED
      BY <1>2, <3>1, SentStays
  <2>7. ASSUME NEW e \in Enrollments, NEW n \in StepIndex
        PROVE  One(MayMail(w, e, n)') + One(MayReturn(e, n)') + strayed[e]
                 <= One(MayMail(w, e, n)) + One(MayReturn(e, n)) + strayed'[e]
    <3>1. /\ One(MayMail(w, e, n)') \in 0..1 /\ One(MayReturn(e, n)') \in 0..1
          /\ One(MayMail(w, e, n)) \in 0..1 /\ One(MayReturn(e, n)) \in 0..1 /\ strayed[e] \in Nat
      BY <1>1 DEF One, Types
    <3>2. CASE e = Now(w)
      <4>1. \A x \in r.batch : x.e # e
        BY <1>1, <2>1, <3>2 DEF BatchOK, Now
      <4>2. ~MayMail(w, e, n)'
        BY <2>2, <4>1 DEF MayMail
      <4>3. One(MayMail(w, e, n)') = 0
        BY <4>2 DEF One
      <4> QED
        BY <2>4, <3>1, <3>2, <4>3
    <3>3. CASE e # Now(w)
      <4>1. r.batch \subseteq worker[w].batch /\ r.phase # "move" /\ enr'[e] = enr[e]
        BY <1>2, <2>1
      <4>2. One(MayMail(w, e, n)') + One(MayReturn(e, n)') <= One(MayMail(w, e, n)) + One(MayReturn(e, n))
        BY <1>1, <2>1, <3>3, <4>1, DropPays
      <4>3. strayed'[e] = strayed[e]
        BY <2>4, <3>3
      <4> QED
        BY <3>1, <4>2, <4>3
    <3> QED
      BY <3>2, <3>3
  <2>8. r.batch \subseteq worker[w].batch /\ worker[w].now \notin r.batch
    BY <2>1
  <2>9. enr' \in [Enrollments -> EnrRow]
    BY <1>1, <1>2 DEF Types
  <2> QED
    BY <1>2, <2>1, <2>4, <2>5, <2>6, <2>7, <2>8, <2>9, DropStep
<1> QED
  BY <1>3, <1>4

-----------------------------------------------------------------------------
(* The theorems. *)

\* The invariant holds at the start.
LEMMA InitHolds == Init => IInv
<1> SUFFICES ASSUME Init PROVE IInv
  OBVIOUS
<1>1. 0 \in StepIndex
  BY SequencesAssumption DEF StepIndex
<1>2. Free.phase = "free" /\ Free.batch = {}
  BY DEF Free
<1>3. Types
  BY <1>1 DEF Init, Types, EnrRow, ContactRow
<1>4. \A w \in Workers : worker[w].phase = "free" /\ worker[w].batch = {}
  BY <1>2 DEF Init
<1>5. \A w \in Workers : BatchOK(w)
  BY <1>4 DEF BatchOK
<1>6. ASSUME NEW e \in Enrollments PROVE SentOK(e)
  <2>1. enr[e].status = "none" /\ enr[e].step = 0 /\ \A n \in StepIndex : mailed[e][n] = 0
    BY DEF Init
  <2>2. \A n \in StepIndex : ~(n < 0)
    BY DEF StepIndex
  <2> QED
    BY <2>1, <2>2 DEF SentOK, SentBefore
<1>7. ASSUME NEW e \in Enrollments, NEW n \in StepIndex PROVE Paid(e, n)
  <2>1. Mailers(e, n) = {}
    BY <1>4 DEF Mailers, MayMail
  <2>2. IsFiniteSet(Mailers(e, n)) /\ Cardinality(Mailers(e, n)) = 0
    BY <2>1, FS_EmptySet
  <2>3. mailed[e][n] = 0 /\ strayed[e] = 0 /\ One(MayReturn(e, n)) \in 0..1
    BY DEF Init, One
  <2>4. mailed[e][n] + Cardinality(Mailers(e, n)) + One(MayReturn(e, n)) <= 1 + strayed[e]
    BY <2>2, <2>3
  <2> QED
    BY <2>2, <2>4 DEF Paid
<1>8. \A e \in Enrollments, w \in Workers : Stopped(e, w)
  BY DEF Init, Stopped
<1> QED
  BY <1>3, <1>5, <1>6, <1>7, <1>8 DEF IInv

\* Every step of staff, contact, deal, time and processes keeps it.
LEMMA NextKeeps == IInv /\ [Next]_vars => IInv'
<1> SUFFICES ASSUME IInv, [Next]_vars PROVE IInv'
  OBVIOUS
<1>1. ASSUME NEW e \in Enrollments, Enroll(e) PROVE IInv'
  BY <1>1, EnrollKeeps
<1>2. ASSUME NEW e \in Enrollments, LeaseEnds(e) \/ WaitEnds(e) PROVE IInv'
  BY <1>2, EndOfTimeKeeps
<1>3. CASE (\E e \in Enrollments : Exit(e)) \/ Reply \/ OptOut \/ CloseDeal \/ DeleteDeal \/ ExitAll \/ UNCHANGED vars
  BY <1>3, EndsKeep
<1>4. ASSUME NEW w \in Workers, Claim(w) PROVE IInv'
  BY <1>4, ClaimKeeps
<1>5. ASSUME NEW w \in Workers, Advance(w) PROVE IInv'
  BY <1>5, RecheckComposeKeeps, QuitKeeps, PostKeeps, MoveKeeps DEF Advance
<1>6. ASSUME NEW w \in Workers, Defer(w) PROVE IInv'
  BY <1>6, DeferKeeps
<1>7. ASSUME NEW w \in Workers, Fails(w) PROVE IInv'
  BY <1>7, FailsKeeps
<1> QED
  BY <1>1, <1>2, <1>3, <1>4, <1>5, <1>6, <1>7 DEF Next

\* The tick, the claims and leases of any number of processes, and what staff,
\* contact and deal do meanwhile (sequences.service.ts) keep the invariant.
THEOREM Inductive == Spec => []IInv
<1> QED
  BY InitHolds, NextKeeps, PTL DEF Spec

\* The model is well typed.
THEOREM TypeCorrect == Spec => []TypeOK
<1>1. IInv => TypeOK
  <2> SUFFICES ASSUME IInv PROVE TypeOK
    OBVIOUS
  <2>1. Types
    BY DEF IInv
  <2>2. \A w \in Workers : worker[w].phase \in Phases /\ worker[w].batch \subseteq Rows
    BY <2>1, WorkerRow
  <2> QED
    BY <2>1, <2>2 DEF TypeOK, Types, EnrRow, ContactRow
<1> QED
  BY <1>1, Inductive, PTL

\* However ticks overlap, a step goes out only after the one before it, and a
\* completed enrollment has had them all (sequences.service.ts:326-354).
THEOREM InOrder == Spec => []StepsGoOutInOrder
<1>1. IInv /\ TypeOK => StepsGoOutInOrder
  <2> SUFFICES ASSUME IInv, TypeOK, NEW e \in Enrollments
               PROVE  /\ \A n \in StepIndex \ {0} : mailed[e][n] > 0 => mailed[e][n - 1] > 0
                      /\ enr[e].status = "completed" => \A n \in StepIndex : mailed[e][n] > 0
    BY DEF StepsGoOutInOrder
  <2>1. SentOK(e)
    BY DEF IInv
  <2>2. \A n \in StepIndex : n < Steps
    BY SequencesAssumption DEF StepIndex
  <2> QED
    BY <2>1, <2>2 DEF SentOK, SentBefore
<1> QED
  BY <1>1, Inductive, TypeCorrect, PTL

\* A step is mailed again only as often as its enrollment outlived a lease,
\* was left between its mail and its move, or was put off by one process while
\* another was at it, however many processes run the tick.
THEOREM RepeatsExplained == Spec => []RepeatsAreExplained
<1>1. IInv => RepeatsAreExplained
  <2> SUFFICES ASSUME IInv, NEW e \in Enrollments, NEW n \in StepIndex PROVE mailed[e][n] <= 1 + strayed[e]
    BY DEF RepeatsAreExplained
  <2>1. IsFiniteSet(Mailers(e, n)) /\ mailed[e][n] + Cardinality(Mailers(e, n)) + One(MayReturn(e, n)) <= 1 + strayed[e]
    BY DEF IInv, Paid
  <2>2. Cardinality(Mailers(e, n)) \in Nat /\ One(MayReturn(e, n)) \in Nat
    BY <2>1, FS_CardinalityType DEF One
  <2>3. mailed[e][n] \in Nat /\ strayed[e] \in Nat
    BY DEF IInv, Types
  <2> QED
    BY <2>1, <2>2, <2>3
<1> QED
  BY <1>1, Inductive, PTL

\* A process sends at most one mail of an enrollment that is over, even when
\* the statement that ends the enrollment never comes.
THEOREM MailStopsThere == Spec => []MailStops
<1>1. IInv => MailStops
  BY DEF IInv, Stopped, MailStops
<1> QED
  BY <1>1, Inductive, PTL

=============================================================================
