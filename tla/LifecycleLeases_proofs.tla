------------------------ MODULE LifecycleLeases_proofs ------------------------
(***************************************************************************)
(* Proofs about the leases of the durable lifecycle jobs: one holder, one  *)
(* launch, final outcomes; for any keys, workers, lease length, backoff    *)
(* table and faults.                                                       *)
(*                                                                         *)
(* The types and the scheduling of probes are those of                     *)
(* LifecycleJobs_proofs; what is added here is what a claim gives a worker *)
(* and the table together: a lease that has not ended, on a row that is in *)
(* flight, held in one place of the worker (LInv).                         *)
(***************************************************************************)
EXTENDS LifecycleJobs_proofs

\* What a worker in state x holds; Holds(w, k) is HasRow(wk[w], k).
HasRow(x, k) ==
  k \in x.ids \/ (\E s \in x.todo : s.key = k) \/ (x.call # NULL /\ x.call.key = k)

\* Between its claims a worker holds nothing, and it holds a row in one place:
\* claimed, read, or in a call.  The time of its tick has passed.
Shape(x) ==
  /\ x.now <= 0
  /\ x.pc \in {"idle", "claim"} => x.ids = {} /\ x.todo = {}
  /\ x.pc \in {"idle", "claim", "read", "work"} => x.call = NULL
  /\ x.pc # "read" => x.ids = {}
  /\ \A s, t \in x.todo : s.key = t.key => s = t
  /\ \A s \in x.todo : s.key \notin x.ids /\ (x.call # NULL => s.key # x.call.key)
Shapes == \A w \in Workers : Shape(wk[w])

\* A held row is leased, and open.
Leased ==
  \A k \in Keys \ lapsed, w \in Workers : Holds(w, k) =>
    jobs[k].lease # NULL /\ jobs[k].lease >= 0 /\ jobs[k].status \in InFlight

\* Once a worker has launched for a row, it alone may still find it launching,
\* and no snapshot says so.
Launching ==
  \A k \in Keys \ (lapsed \cup hurt) : WorkerLaunches(k) # {} =>
    /\ jobs[k].status # "absent"
    /\ jobs[k].status = "launching" => \E w \in Workers : wk[w].pc = "launched" /\ wk[w].call.key = k
    /\ \A w \in Workers : \A s \in wk[w].todo : s.key = k => s.status # "launching"

LInv == Shapes /\ Leased /\ LeaseExclusion /\ Launching /\ LaunchedOnce

\* Outcomes are kept by the present step, where no lease has lapsed.
Final == \A k \in Keys \ lapsed' :
           jobs[k].status \in Terminal => jobs'[k].status = jobs[k].status

LEMMA HoldsRow == ASSUME NEW w, NEW k PROVE Holds(w, k) <=> HasRow(wk[w], k)
  BY DEF Holds, HasRow

LEMMA Open == \A st \in InFlight : st \notin Terminal /\ st # "absent"
  BY DEF InFlight, Terminal

-----------------------------------------------------------------------------
(* Steps of one worker.                                                    *)

\* What a step of worker w may do to a row: leave it, give it up, move it on
\* under its lease, or close it when nobody holds it.
RowStep(w, k) ==
  \/ jobs'[k].lease = jobs[k].lease /\ jobs'[k].status = jobs[k].status
  \/ HasRow(wk[w], k) /\ ~HasRow(wk'[w], k)
  \/ HasRow(wk[w], k) /\ jobs'[k].lease = jobs[k].lease /\ jobs'[k].status \in InFlight
  \/ jobs[k].status \notin Terminal /\ \A v \in Workers : ~Holds(v, k)

\* Worker w gets hold of nothing new.
LEMMA HoldersKept ==
  ASSUME LInv, NEW w \in Workers, \A v \in Workers \ {w} : wk'[v] = wk[v], Shape(wk'[w]),
         \A k \in Keys : HasRow(wk'[w], k) => HasRow(wk[w], k),
         lapsed \subseteq lapsed', \A k \in Keys \ lapsed' : RowStep(w, k)
  PROVE  Shapes' /\ Leased' /\ LeaseExclusion' /\ Final
<1>1. \A v \in Workers, k \in Keys : Holds(v, k)' => Holds(v, k)
  BY DEF Holds, HasRow
<1>2. Shapes'
  BY DEF LInv, Shapes
<1>3. LeaseExclusion'
  BY <1>1 DEF LInv, LeaseExclusion
<1>4. ASSUME NEW k \in Keys \ lapsed', NEW v \in Workers, Holds(v, k)'
      PROVE  jobs'[k].lease # NULL /\ jobs'[k].lease >= 0 /\ jobs'[k].status \in InFlight
  <2>1. /\ jobs[k].lease # NULL /\ jobs[k].lease >= 0 /\ jobs[k].status \in InFlight
        /\ Holds(v, k)
    BY <1>1, <1>4 DEF LInv, Leased
  <2>2. HasRow(wk[w], k) => v = w
    BY <2>1, HoldsRow DEF LInv, LeaseExclusion
  <2>3. v = w => HasRow(wk'[w], k)
    BY <1>4 DEF Holds, HasRow
  <2>4. RowStep(w, k)
    OBVIOUS
  <2> QED BY <2>1, <2>2, <2>3, <2>4 DEF RowStep
<1>5. Final
  <2> SUFFICES ASSUME NEW k \in Keys \ lapsed', jobs[k].status \in Terminal
               PROVE  jobs'[k].status = jobs[k].status
    BY DEF Final
  <2>1. ~HasRow(wk[w], k)
    BY HoldsRow, Open DEF LInv, Leased
  <2>2. RowStep(w, k)
    OBVIOUS
  <2> QED BY <2>1, <2>2 DEF RowStep
<1> QED BY <1>2, <1>3, <1>4, <1>5 DEF Leased

\* Worker w launches nothing, for the rows no fault has hit.
LEMMA LaunchesKept ==
  ASSUME LInv, NEW w \in Workers, \A v \in Workers \ {w} : wk'[v] = wk[v],
         lapsed \subseteq lapsed', hurt \subseteq hurt',
         \A k \in Keys \ (lapsed' \cup hurt') :
           /\ WorkerLaunches(k)' \subseteq WorkerLaunches(k)
           /\ jobs'[k].status = "absent" => jobs[k].status = "absent"
           /\ jobs'[k].status = "launching" =>
                /\ jobs[k].status = "launching"
                /\ wk[w].pc = "launched" /\ wk[w].call.key = k =>
                     wk'[w].pc = "launched" /\ wk'[w].call.key = k
           /\ \A s \in wk'[w].todo : s.key = k => 
                s \in wk[w].todo \/ WorkerLaunches(k) = {} \/ s.status # "launching"
  PROVE  Launching' /\ LaunchedOnce'
<1>1. LaunchedOnce'
  BY DEF LInv, LaunchedOnce
<1>2. ASSUME NEW k \in Keys \ (lapsed' \cup hurt'), WorkerLaunches(k)' # {}
      PROVE  /\ jobs'[k].status # "absent"
             /\ jobs'[k].status = "launching" =>
                  \E v \in Workers : wk'[v].pc = "launched" /\ wk'[v].call.key = k
             /\ \A v \in Workers : \A s \in wk'[v].todo : s.key = k => s.status # "launching"
  <2>1. /\ WorkerLaunches(k) # {} /\ k \in Keys \ (lapsed \cup hurt)
        /\ jobs'[k].status = "absent" => jobs[k].status = "absent"
        /\ jobs'[k].status = "launching" =>
             /\ jobs[k].status = "launching"
             /\ wk[w].pc = "launched" /\ wk[w].call.key = k =>
                  wk'[w].pc = "launched" /\ wk'[w].call.key = k
        /\ \A s \in wk'[w].todo : s.key = k => s \in wk[w].todo \/ s.status # "launching"
    BY <1>2
  <2>2. /\ jobs[k].status # "absent"
        /\ jobs[k].status = "launching" => \E v \in Workers : wk[v].pc = "launched" /\ wk[v].call.key = k
        /\ \A v \in Workers : \A s \in wk[v].todo : s.key = k => s.status # "launching"
    BY <2>1 DEF LInv, Launching
  <2> QED BY <2>1, <2>2
<1>3. Launching'
  BY <1>2 DEF Launching
<1> QED BY <1>1, <1>3

\* What the worker is after Proceed.
LEMMA Proceeds ==
  ASSUME NEW w \in Workers, wk \in [Workers -> Worker], Shape(wk[w]), wk[w].ids = {},
         NEW left \in SUBSET wk[w].todo, NEW evs, Proceed(w, left, evs)
  PROVE  /\ Shape(wk'[w]) /\ wk'[w].todo \subseteq left /\ wk'[w].ids = {} /\ wk'[w].call = NULL
         /\ wk'[w].pc # "launched"
         /\ \A v \in Workers \ {w} : wk'[v] = wk[v]
<1> DEFINE work  == [wk[w] EXCEPT !.pc = "work", !.todo = left, !.call = NULL, !.out = evs]
           done  == EndOfTick(evs)
           claim == [wk[w] EXCEPT !.pc = "claim", !.due = TRUE, !.todo = {},
                                  !.call = NULL, !.out = evs]
<1>1. wk[w] \in Worker
  OBVIOUS
<1>2. /\ work.pc = "work" /\ work.todo = left /\ work.call = NULL /\ work.ids = {}
      /\ work.now = wk[w].now
  BY <1>1 DEF Worker
<1>3. /\ done.pc = "idle" /\ done.todo = {} /\ done.call = NULL /\ done.ids = {} /\ done.now = 0
  BY DEF EndOfTick
<1>4. /\ claim.pc = "claim" /\ claim.todo = {} /\ claim.call = NULL /\ claim.ids = {}
      /\ claim.now = wk[w].now
  BY <1>1 DEF Worker
<1>5. wk' = [wk EXCEPT ![w] = work] \/ wk' = [wk EXCEPT ![w] = done]
        \/ wk' = [wk EXCEPT ![w] = claim]
  BY DEF Proceed
<1> HIDE DEF work, done, claim
<1>6. \A x : wk' = [wk EXCEPT ![w] = x] => wk'[w] = x /\ \A v \in Workers \ {w} : wk'[v] = wk[v]
  OBVIOUS
<1>7. Shape(work) /\ Shape(done) /\ Shape(claim)
  BY <1>2, <1>3, <1>4 DEF Shape
<1> QED BY <1>2, <1>3, <1>4, <1>5, <1>6, <1>7

\* The usual end of a step: worker w is done with the row k it holds.
LEMMA Finish ==
  ASSUME TInv, LInv, NEW w \in Workers, NEW k \in Keys, wk[w].ids = {}, HasRow(wk[w], k),
         NEW left \in SUBSET wk[w].todo, \A s \in left : s.key # k,
         NEW evs, Proceed(w, left, evs),
         \A j \in Keys \ {k} : jobs'[j] = jobs[j],
         jobs'[k].status = jobs[k].status \/ jobs'[k].status \notin {"launching", "absent"},
         wk[w].pc = "launched" => wk[w].call.key = k /\ k \in hurt',
         ctl' = ctl \/ (k \in hurt' /\ \A j \in Keys \ {k} : WorkerLaunches(j)' \subseteq WorkerLaunches(j)),
         hurt \subseteq hurt', lapsed' = lapsed
  PROVE  LInv' /\ Final
<1>1. /\ Shape(wk'[w]) /\ wk'[w].todo \subseteq left /\ wk'[w].ids = {} /\ wk'[w].call = NULL
      /\ wk'[w].pc # "launched"
      /\ \A v \in Workers \ {w} : wk'[v] = wk[v]
  BY Proceeds DEF TInv, TypeOK, LInv, Shapes
<1>2. ~HasRow(wk'[w], k) /\ \A j \in Keys : HasRow(wk'[w], j) => HasRow(wk[w], j)
  BY <1>1 DEF HasRow
<1>3. \A j \in Keys \ lapsed' : RowStep(w, j)
  BY <1>2 DEF RowStep
<1>4. Shapes' /\ Leased' /\ LeaseExclusion' /\ Final
  BY <1>1, <1>2, <1>3, HoldersKept
<1>5. \A j \in Keys \ (lapsed' \cup hurt') : WorkerLaunches(j)' \subseteq WorkerLaunches(j)
  BY DEF WorkerLaunches
<1>6. Launching' /\ LaunchedOnce'
  BY <1>1, <1>5, LaunchesKept
<1> QED BY <1>4, <1>6 DEF LInv

\* Statements on one row, made or failed.
Touched(k) == (\A j \in Keys \ {k} : jobs'[j] = jobs[j]) /\ hurt \subseteq hurt'

LEMMA TouchUpdate ==
  ASSUME TypeOK, NEW k \in Keys, NEW st, UpdateLifecycleStatus(k, st), hurt \subseteq hurt'
  PROVE  Touched(k) /\ jobs'[k].status = st
<1>1. jobs[k] \in Job /\ jobs \in [Keys -> Job]
  BY DEF TypeOK
<1>2. jobs' = [jobs EXCEPT ![k] = [jobs[k] EXCEPT !.status = st, !.lease = NULL]]
  BY <1>1 DEF UpdateLifecycleStatus
<1> QED BY <1>1, <1>2 DEF Touched, Job

LEMMA StmtTouchUpdate ==
  ASSUME TypeOK, NEW k \in Keys, NEW st, Stmt(UpdateLifecycleStatus(k, st), k)
  PROVE  Touched(k) /\ (jobs'[k].status = jobs[k].status \/ jobs'[k].status = st)
<1>1. hurt \subseteq hurt' /\ (UpdateLifecycleStatus(k, st) \/ jobs' = jobs)
  BY DEF Stmt, Fault, NoFault
<1>2. CASE UpdateLifecycleStatus(k, st)
  BY <1>1, <1>2, TouchUpdate
<1>3. CASE jobs' = jobs
  BY <1>1, <1>3 DEF Touched
<1> QED BY <1>1, <1>2, <1>3

LEMMA TouchClear ==
  ASSUME TypeOK, NEW k \in Keys, ClearLease(k), hurt \subseteq hurt'
  PROVE  Touched(k) /\ jobs'[k].status = jobs[k].status
<1>1. jobs[k] \in Job /\ jobs \in [Keys -> Job]
  BY DEF TypeOK
<1>2. jobs' = [jobs EXCEPT ![k] = [jobs[k] EXCEPT !.lease = NULL]]
  BY <1>1 DEF ClearLease
<1> QED BY <1>1, <1>2 DEF Touched, Job

LEMMA StmtTouchClear ==
  ASSUME TypeOK, NEW k \in Keys, Stmt(ClearLease(k), k)
  PROVE  Touched(k) /\ jobs'[k].status = jobs[k].status
<1>1. hurt \subseteq hurt' /\ (ClearLease(k) \/ jobs' = jobs)
  BY DEF Stmt, Fault, NoFault
<1>2. CASE ClearLease(k)
  BY <1>1, <1>2, TouchClear
<1>3. CASE jobs' = jobs
  BY <1>1, <1>3 DEF Touched
<1> QED BY <1>1, <1>2, <1>3

LEMMA TouchSchedule ==
  ASSUME TypeOK, NEW k \in Keys, NEW a, NEW n, Stmt(ScheduleNextVerify(k, a, n), k)
  PROVE  Touched(k) /\ (jobs'[k].status = jobs[k].status \/ jobs'[k].status = "pending_verify")
<1>1. jobs[k] \in Job /\ jobs \in [Keys -> Job]
  BY DEF TypeOK
<1>2. hurt \subseteq hurt'
  BY DEF Stmt, Fault, NoFault
<1>3. \/ jobs' = jobs
      \/ jobs' = [jobs EXCEPT ![k] = [jobs[k] EXCEPT !.status = "pending_verify", !.lease = NULL,
                                                     !.attempt = a, !.next = n]]
  BY <1>1 DEF Stmt, ScheduleNextVerify
<1> QED BY <1>1, <1>2, <1>3 DEF Touched, Job

\* A worker takes the row s of its batch: it is the only one with that key.
LEMMA Taken ==
  ASSUME TInv, LInv, NEW w \in Workers, NEW s \in wk[w].todo, Ready(w, "work")
  PROVE  /\ s.key \in Keys /\ HasRow(wk[w], s.key) /\ wk[w].ids = {} /\ wk[w].call = NULL
         /\ wk[w].pc = "work" /\ Left(w, s) \in SUBSET wk[w].todo
         /\ \A t \in Left(w, s) : t.key # s.key
<1>1. Shape(wk[w]) /\ s.key \in Keys
  BY Held DEF LInv, Shapes
<1>2. wk[w].pc = "work" /\ wk[w].ids = {} /\ wk[w].call = NULL
  BY <1>1 DEF Ready, Shape
<1> QED BY <1>1, <1>2 DEF Shape, HasRow, Left

\* The row of a call, likewise.
LEMMA Called ==
  ASSUME TInv, LInv, NEW w \in Workers, wk[w].pc \in {"launched", "waiting", "unlock"}
  PROVE  LET k == wk[w].call.key IN
         /\ k \in Keys /\ HasRow(wk[w], k) /\ wk[w].ids = {} /\ wk[w].call \in Call
         /\ wk[w].call # NULL
         /\ \A t \in wk[w].todo : t.key # k
<1>1. Shape(wk[w]) /\ wk[w].call \in Call /\ wk[w].call.key \in Keys
  BY Held DEF LInv, Shapes
<1>2. wk[w].call # NULL
  BY <1>1, CallAssumption
<1> QED BY <1>1, <1>2 DEF Shape, HasRow

-----------------------------------------------------------------------------
(* The rows a worker is done with.                                         *)

\* Close.
LEMMA CloseLeases ==
  ASSUME TInv, LInv, NEW w \in Workers, NEW s \in wk[w].todo, Ready(w, "work"),
         NEW st \in Terminal, NEW evs, Close(w, s, st, evs)
  PROVE  LInv' /\ Final
<1>1. /\ s.key \in Keys /\ HasRow(wk[w], s.key) /\ wk[w].ids = {} /\ wk[w].call = NULL
      /\ wk[w].pc = "work" /\ Left(w, s) \in SUBSET wk[w].todo
      /\ \A t \in Left(w, s) : t.key # s.key
  BY Taken
<1>2. Touched(s.key) /\ (jobs'[s.key].status = jobs[s.key].status \/ jobs'[s.key].status = st)
  BY <1>1, StmtTouchUpdate DEF Close, TInv
<1>3. st \notin {"launching", "absent"}
  BY DEF Terminal
<1>4. ctl' = ctl /\ lapsed' = lapsed /\ Proceed(w, Left(w, s), {s.key} \X evs)
  BY DEF Close
<1> QED BY <1>1, <1>2, <1>3, <1>4, Finish DEF Touched

\* The rows of the batch: closed, scheduled, unlocked or left.
LEMMA BatchLeases ==
  ASSUME TInv, LInv, NEW w \in Workers,
         \/ FailUnexpected(w) \/ ProbeTooLate(w) \/ ProbeVerifies(w)
         \/ EnterVerify(w) \/ NotYetDue(w) \/ ProbeMisses(w) \/ GiveUpRow(w)
  PROVE  LInv' /\ Final
<1>1. CASE FailUnexpected(w)
  <2> PICK s \in wk[w].todo : Work(w, s) /\ Close(w, s, "failed", {})
    BY <1>1 DEF FailUnexpected
  <2> QED BY CloseLeases DEF Work, Terminal
<1>2. CASE ProbeTooLate(w)
  <2> PICK s \in wk[w].todo : MayProbe(w, s) /\ Close(w, s, "timed_out", {"renewal.timed_out"})
    BY <1>2 DEF ProbeTooLate
  <2> QED BY CloseLeases DEF MayProbe, Work, Terminal
<1>3. CASE ProbeVerifies(w)
  <2> PICK s \in wk[w].todo : MayProbe(w, s) /\ Close(w, s, "verified", {"renewal.verified"})
    BY <1>3 DEF ProbeVerifies
  <2> QED BY CloseLeases DEF MayProbe, Work, Terminal
<1>4. ASSUME NEW s \in wk[w].todo, Ready(w, "work"), Touched(s.key),
             \/ jobs'[s.key].status = jobs[s.key].status
             \/ jobs'[s.key].status \notin {"launching", "absent"},
             NEW evs, Proceed(w, Left(w, s), evs), ctl' = ctl, lapsed' = lapsed
      PROVE  LInv' /\ Final
  <2>1. /\ s.key \in Keys /\ HasRow(wk[w], s.key) /\ wk[w].ids = {} /\ wk[w].call = NULL
        /\ wk[w].pc = "work" /\ Left(w, s) \in SUBSET wk[w].todo
        /\ \A t \in Left(w, s) : t.key # s.key
    BY <1>4, Taken
  <2> QED BY <1>4, <2>1, Finish DEF Touched
<1>5. CASE EnterVerify(w)
  <2>1. PICK s \in wk[w].todo : /\ Work(w, s) /\ Stmt(enterPendingVerify(s.key), s.key)
                               /\ Proceed(w, Left(w, s), {}) /\ ctl' = ctl /\ lapsed' = lapsed
    BY <1>5 DEF EnterVerify
  <2>2. Ready(w, "work") /\ s.key \in Keys
    BY <2>1, Taken DEF Work
  <2>3. Touched(s.key) /\ (jobs'[s.key].status = jobs[s.key].status \/ jobs'[s.key].status = "pending_verify")
    BY <2>1, <2>2, TouchSchedule DEF enterPendingVerify, TInv
  <2> QED BY <1>4, <2>1, <2>2, <2>3
<1>6. CASE NotYetDue(w)
  <2>1. PICK s \in wk[w].todo : /\ Work(w, s) /\ Stmt(ClearLease(s.key), s.key)
                               /\ Proceed(w, Left(w, s), {}) /\ ctl' = ctl /\ lapsed' = lapsed
    BY <1>6 DEF NotYetDue
  <2>2. Ready(w, "work") /\ s.key \in Keys
    BY <2>1, Taken DEF Work
  <2>3. Touched(s.key) /\ jobs'[s.key].status = jobs[s.key].status
    BY <2>1, <2>2, StmtTouchClear DEF TInv
  <2> QED BY <1>4, <2>1, <2>2, <2>3
<1>7. CASE ProbeMisses(w)
  <2>1. PICK s \in wk[w].todo : \E a, n :
          /\ MayProbe(w, s) /\ Stmt(ScheduleNextVerify(s.key, a, n), s.key)
          /\ Proceed(w, Left(w, s), {}) /\ ctl' = ctl /\ lapsed' = lapsed
    BY <1>7 DEF ProbeMisses
  <2>2. PICK a, n : Stmt(ScheduleNextVerify(s.key, a, n), s.key)
    BY <2>1
  <2>3. Ready(w, "work") /\ s.key \in Keys
    BY <2>1, Taken DEF MayProbe, Work
  <2>4. Touched(s.key) /\ (jobs'[s.key].status = jobs[s.key].status \/ jobs'[s.key].status = "pending_verify")
    BY <2>2, <2>3, TouchSchedule DEF TInv
  <2> QED BY <1>4, <2>1, <2>3, <2>4
<1>8. CASE GiveUpRow(w)
  <2>1. PICK s \in wk[w].todo :
          /\ MayLaunch(w, s) \/ MayProbe(w, s)
          /\ NoFault \/ Fault({s.key})
          /\ Proceed(w, Left(w, s), {}) /\ jobs' = jobs /\ ctl' = ctl /\ lapsed' = lapsed
    BY <1>8 DEF GiveUpRow
  <2>2. Ready(w, "work") /\ Touched(s.key)
    BY <2>1 DEF MayProbe, MayLaunch, Work, NoFault, Fault, Touched
  <2> QED BY <1>4, <2>1, <2>2
<1> QED BY <1>1, <1>2, <1>3, <1>5, <1>6, <1>7, <1>8

\* The rows of a call.
LEMMA CallLeases ==
  ASSUME TInv, LInv, NEW w \in Workers,
         UnlockLaunched(w) \/ WaitSuccessful(w) \/ WaitFailed(w) \/ WaitGivesUp(w)
  PROVE  LInv' /\ Final
<1> DEFINE k == wk[w].call.key
<1>1. /\ wk[w].pc \in {"waiting", "unlock"} /\ ctl' = ctl /\ lapsed' = lapsed
      /\ \E evs : Proceed(w, wk[w].todo, evs)
  BY DEF UnlockLaunched, WaitSuccessful, WaitFailed, WaitGivesUp, Ready
<1>2. k \in Keys /\ HasRow(wk[w], k) /\ wk[w].ids = {} /\ \A t \in wk[w].todo : t.key # k
  BY <1>1, Called
<1>3. TypeOK
  BY DEF TInv
<1>4. /\ Touched(k)
      /\ jobs'[k].status = jobs[k].status \/ jobs'[k].status \notin {"launching", "absent"}
  <2>1. CASE UnlockLaunched(w)
    BY <1>2, <1>3, <2>1, StmtTouchClear DEF UnlockLaunched
  <2>2. CASE WaitSuccessful(w)
    <3>1. Touched(k) /\ (jobs'[k].status = jobs[k].status \/ jobs'[k].status = "pending_verify")
      BY <1>2, <1>3, <2>2, TouchSchedule DEF WaitSuccessful, enterPendingVerify
    <3> QED BY <3>1
  <2>3. CASE WaitFailed(w)
    <3>1. Touched(k) /\ (jobs'[k].status = jobs[k].status \/ jobs'[k].status = "failed")
      BY <1>2, <1>3, <2>3, StmtTouchUpdate DEF WaitFailed
    <3> QED BY <3>1
  <2>4. CASE WaitGivesUp(w)
    <3>1. ClearLease(k) \/ (UNCHANGED jobs /\ Fault({k}))
      BY <2>4 DEF WaitGivesUp
    <3>2. hurt \subseteq hurt'
      BY <2>4 DEF WaitGivesUp, Fault, NoFault
    <3>3. CASE ClearLease(k)
      BY <1>2, <1>3, <3>2, <3>3, TouchClear
    <3>4. CASE UNCHANGED jobs /\ Fault({k})
      BY <3>2, <3>4 DEF Touched
    <3> QED BY <3>1, <3>3, <3>4
  <2> QED BY <2>1, <2>2, <2>3, <2>4
<1> HIDE DEF k
<1>5. PICK evs : Proceed(w, wk[w].todo, evs)
  BY <1>1
<1> QED BY <1>1, <1>2, <1>4, <1>5, Finish DEF Touched

-----------------------------------------------------------------------------
(* Calls to the controller.                                                *)

\* What a launch for k leaves of the workers' launches.
LEMMA Launches ==
  ASSUME TypeOK, NEW i \in Ids, NEW k \in Keys, NEW by, LaunchAAP(i, k, by)
  PROVE  /\ \A j \in Keys \ {k} : WorkerLaunches(j)' \subseteq WorkerLaunches(j)
         /\ WorkerLaunches(k)' \subseteq WorkerLaunches(k) \cup {i}
         /\ by # "worker" => WorkerLaunches(k)' \subseteq WorkerLaunches(k)
<1>1. ctl \in [Ids -> AapJob] /\ ctl' = [ctl EXCEPT ![i] = [key |-> k, by |-> by, st |-> "running"]]
  BY DEF TypeOK, LaunchAAP
<1>2. /\ ctl'[i].key = k /\ ctl'[i].by = by
      /\ \A n \in Ids \ {i} : ctl'[n] = ctl[n]
  BY <1>1
<1> QED BY <1>2 DEF WorkerLaunches

\* What a worker that enters a call is.
LEMMA Calls ==
  ASSUME TInv, LInv, NEW w \in Workers, NEW s \in wk[w].todo, Ready(w, "work"),
         NEW pc \in {"launched", "waiting"}, NEW i, NEW u, Calling(w, pc, s, i, u)
  PROVE  /\ Shape(wk'[w]) /\ wk'[w].pc = pc /\ wk'[w].todo = Left(w, s)
         /\ wk'[w].call.key = s.key
         /\ \A k \in Keys : HasRow(wk'[w], k) => HasRow(wk[w], k)
         /\ \A v \in Workers \ {w} : wk'[v] = wk[v]
<1> DEFINE c == [key |-> s.key, id |-> i, until |-> u]
           x == [wk[w] EXCEPT !.pc = pc, !.todo = Left(w, s), !.call = c]
<1>1. wk \in [Workers -> Worker] /\ wk[w] \in Worker /\ Shape(wk[w])
  BY DEF TInv, TypeOK, LInv, Shapes
<1>2. /\ s.key \in Keys /\ HasRow(wk[w], s.key) /\ wk[w].ids = {} /\ wk[w].call = NULL
      /\ wk[w].pc = "work" /\ Left(w, s) \in SUBSET wk[w].todo
      /\ \A t \in Left(w, s) : t.key # s.key
  BY Taken
<1>3. x.pc = pc /\ x.todo = Left(w, s) /\ x.call.key = s.key /\ x.ids = {} /\ x.now = wk[w].now
  BY <1>1, <1>2 DEF Worker
<1>4. wk' = [wk EXCEPT ![w] = x]
  BY <1>1 DEF Calling
<1> HIDE DEF x, c
<1>5. wk'[w] = x /\ \A v \in Workers \ {w} : wk'[v] = wk[v]
  BY <1>1, <1>4
<1>6. Shape(x)
  BY <1>1, <1>2, <1>3 DEF Shape
<1>7. \A k \in Keys : HasRow(x, k) => HasRow(wk[w], k)
  BY <1>2, <1>3 DEF HasRow
<1> QED BY <1>3, <1>5, <1>6, <1>7

LEMMA LaunchLeases ==
  ASSUME TInv, LInv, NEW w \in Workers, LaunchRenewal(w) PROVE LInv' /\ Final
<1>1. PICK s \in wk[w].todo, i \in Ids :
        /\ MayLaunch(w, s) /\ LaunchAAP(i, s.key, "worker") /\ Calling(w, "launched", s, i, 0)
        /\ jobs' = jobs /\ lapsed' = lapsed /\ hurt' = hurt
  BY DEF LaunchRenewal
<1> DEFINE k == s.key
<1>2. Ready(w, "work") /\ s.status = "launching"
  BY <1>1 DEF MayLaunch, Work
<1>3. /\ k \in Keys /\ HasRow(wk[w], k) /\ wk[w].pc = "work" /\ Left(w, s) \in SUBSET wk[w].todo
      /\ \A t \in Left(w, s) : t.key # k
  BY <1>2, Taken
<1>4. /\ Shape(wk'[w]) /\ wk'[w].pc = "launched" /\ wk'[w].todo = Left(w, s)
      /\ wk'[w].call.key = k
      /\ \A j \in Keys : HasRow(wk'[w], j) => HasRow(wk[w], j)
      /\ \A v \in Workers \ {w} : wk'[v] = wk[v]
  BY <1>1, <1>2, Calls
<1>5. /\ \A j \in Keys \ {k} : WorkerLaunches(j)' \subseteq WorkerLaunches(j)
      /\ WorkerLaunches(k)' \subseteq WorkerLaunches(k) \cup {i}
  BY <1>1, <1>3, Launches DEF TInv
<1> HIDE DEF k
<1>6. Shapes' /\ Leased' /\ LeaseExclusion' /\ Final
  BY <1>1, <1>4, HoldersKept DEF RowStep
<1>7. ASSUME k \notin lapsed \cup hurt
      PROVE  /\ WorkerLaunches(k) = {} /\ jobs[k].status # "absent"
             /\ \A v \in Workers : \A t \in wk'[v].todo : t.key # k
  <2>1. WorkerLaunches(k) = {}
    BY <1>2, <1>3, <1>7 DEF LInv, Launching, k
  <2>2. Holds(w, k) /\ \A v \in Workers : Holds(v, k) => v = w
    BY <1>3, <1>7, HoldsRow DEF LInv, LeaseExclusion
  <2>3. jobs[k].status # "absent"
    BY <1>3, <1>7, <2>2, Open DEF LInv, Leased
  <2>4. ASSUME NEW v \in Workers, NEW t \in wk'[v].todo, t.key = k PROVE FALSE
    <3>1. CASE v = w
      BY <1>3, <1>4, <2>4, <3>1
    <3>2. CASE v # w
      BY <1>4, <2>2, <2>4, <3>2 DEF Holds
    <3> QED BY <3>1, <3>2
  <2> QED BY <2>1, <2>3, <2>4
<1>8. LaunchedOnce'
  BY <1>1, <1>5, <1>7 DEF LInv, LaunchedOnce
<1>9. ASSUME NEW j \in Keys \ (lapsed' \cup hurt'), WorkerLaunches(j)' # {}
      PROVE  /\ jobs'[j].status # "absent"
             /\ jobs'[j].status = "launching" =>
                  \E v \in Workers : wk'[v].pc = "launched" /\ wk'[v].call.key = j
             /\ \A v \in Workers : \A t \in wk'[v].todo : t.key = j => t.status # "launching"
  <2>1. CASE j = k
    BY <1>1, <1>4, <1>7, <1>9, <2>1
  <2>2. CASE j # k
    <3>1. WorkerLaunches(j) # {} /\ j \in Keys \ (lapsed \cup hurt)
      BY <1>1, <1>5, <1>9, <2>2
    <3>2. /\ jobs[j].status # "absent"
          /\ jobs[j].status = "launching" => \E v \in Workers : wk[v].pc = "launched" /\ wk[v].call.key = j
          /\ \A v \in Workers : \A t \in wk[v].todo : t.key = j => t.status # "launching"
      BY <3>1 DEF LInv, Launching
    <3> QED BY <1>1, <1>3, <1>4, <3>2
  <2> QED BY <2>1, <2>2
<1>10. Launching'
  BY <1>9 DEF Launching
<1> QED BY <1>6, <1>8, <1>10 DEF LInv

\* A launch that fails, its record, and the wait for the AAP job.
LEMMA LaunchedLeases ==
  ASSUME TInv, LInv, NEW w \in Workers, LaunchFails(w) \/ RecordLaunch(w) \/ StartWait(w)
  PROVE  LInv' /\ Final
<1>0. TypeOK /\ wk \in [Workers -> Worker] /\ wk[w] \in Worker /\ Shape(wk[w]) /\ jobs \in [Keys -> Job]
  BY DEF TInv, TypeOK, LInv, Shapes
<1>1. CASE LaunchFails(w)
  <2>1. PICK s \in wk[w].todo :
        /\ MayLaunch(w, s)
        /\ \/ UNCHANGED ctl /\ Stmt(UpdateLifecycleStatus(s.key, "failed"), s.key)
           \/ /\ \E i \in Ids : LaunchAAP(i, s.key, "worker")
              /\ UpdateLifecycleStatus(s.key, "failed") /\ Fault({s.key})
        /\ Proceed(w, Left(w, s), {<<s.key, "renewal.failed">>})
        /\ lapsed' = lapsed
    BY <1>1 DEF LaunchFails
  <2>2. Ready(w, "work")
    BY <2>1 DEF MayLaunch, Work
  <2>3. /\ s.key \in Keys /\ HasRow(wk[w], s.key) /\ wk[w].ids = {} /\ wk[w].pc = "work"
        /\ Left(w, s) \in SUBSET wk[w].todo /\ \A t \in Left(w, s) : t.key # s.key
    BY <2>2, Taken
  <2>4. CASE UNCHANGED ctl /\ Stmt(UpdateLifecycleStatus(s.key, "failed"), s.key)
    <3>1. Touched(s.key) /\ (jobs'[s.key].status = jobs[s.key].status \/ jobs'[s.key].status = "failed")
      BY <1>0, <2>3, <2>4, StmtTouchUpdate
    <3> QED BY <2>1, <2>3, <2>4, <3>1, Finish DEF Touched
  <2>5. CASE /\ \E i \in Ids : LaunchAAP(i, s.key, "worker")
             /\ UpdateLifecycleStatus(s.key, "failed") /\ Fault({s.key})
    <3>1. s.key \in hurt' /\ hurt \subseteq hurt'
      BY <2>5 DEF Fault
    <3>2. Touched(s.key) /\ jobs'[s.key].status = "failed"
      BY <1>0, <2>3, <2>5, <3>1, TouchUpdate
    <3>3. \A j \in Keys \ {s.key} : WorkerLaunches(j)' \subseteq WorkerLaunches(j)
      BY <1>0, <2>3, <2>5, Launches
    <3> QED BY <2>1, <2>3, <3>1, <3>2, <3>3, Finish DEF Touched
  <2> QED BY <2>1, <2>4, <2>5
<1>2. CASE RecordLaunch(w)
  <2> DEFINE k == wk[w].call.key
  <2>1. wk[w].pc = "launched" /\ ctl' = ctl /\ lapsed' = lapsed
    BY <1>2 DEF RecordLaunch, Ready
  <2>2. /\ k \in Keys /\ HasRow(wk[w], k) /\ wk[w].ids = {} /\ wk[w].call # NULL
        /\ \A t \in wk[w].todo : t.key # k
    BY <2>1, Called
  <2>3. CASE jobs' = jobs /\ Fault({k}) /\ Proceed(w, wk[w].todo, {})
    <3>1. k \in hurt' /\ hurt \subseteq hurt'
      BY <2>3 DEF Fault
    <3> HIDE DEF k
    <3> QED BY <2>1, <2>2, <2>3, <3>1, Finish DEF k
  <2>4. CASE /\ SetLifecycleAAPRef(k, wk[w].call.id, "aap_pending") /\ NoFault
             /\ wk' = [wk EXCEPT ![w] = [@ EXCEPT !.pc = "unlock",
                                                  !.out = {<<k, "renewal.launched">>}]]
    <3> DEFINE x == [wk[w] EXCEPT !.pc = "unlock", !.out = {<<k, "renewal.launched">>}]
    <3>1. /\ x.pc = "unlock" /\ x.ids = wk[w].ids /\ x.todo = wk[w].todo /\ x.call = wk[w].call
          /\ x.now = wk[w].now
      BY <1>0 DEF Worker
    <3>2. wk' = [wk EXCEPT ![w] = x]
      BY <1>0, <2>4
    <3> HIDE DEF x
    <3>3. wk'[w] = x /\ \A v \in Workers \ {w} : wk'[v] = wk[v]
      BY <1>0, <3>2
    <3>4. Shape(x)
      BY <1>0, <2>1, <3>1 DEF Shape
    <3>5. \A j \in Keys : HasRow(x, j) <=> HasRow(wk[w], j)
      BY <3>1 DEF HasRow
    <3>6. /\ jobs'[k].status = "aap_pending" /\ jobs'[k].lease = jobs[k].lease
          /\ \A j \in Keys \ {k} : jobs'[j] = jobs[j]
      BY <1>0, <2>2, <2>4 DEF SetLifecycleAAPRef, Job
    <3>7. hurt' = hurt
      BY <2>4 DEF NoFault
    <3> HIDE DEF k
    <3>8. \A j \in Keys : RowStep(w, j)
      BY <2>2, <3>6 DEF RowStep, InFlight
    <3>9. Shapes' /\ Leased' /\ LeaseExclusion' /\ Final
      BY <2>1, <3>3, <3>4, <3>5, <3>8, HoldersKept
    <3>10. \A j \in Keys : WorkerLaunches(j)' \subseteq WorkerLaunches(j)
      BY <2>1 DEF WorkerLaunches
    <3>11. Launching' /\ LaunchedOnce'
      BY <2>1, <3>1, <3>3, <3>6, <3>7, <3>10, LaunchesKept DEF k
    <3> QED BY <3>9, <3>11 DEF LInv
  <2> QED BY <1>2, <2>3, <2>4 DEF RecordLaunch
<1>3. CASE StartWait(w)
  <2>1. PICK s \in wk[w].todo : /\ Work(w, s) /\ Calling(w, "waiting", s, s.aap, LeaseTTL)
                               /\ jobs' = jobs /\ ctl' = ctl /\ lapsed' = lapsed /\ hurt' = hurt
    BY <1>3 DEF StartWait
  <2>2. Ready(w, "work")
    BY <2>1 DEF Work
  <2>3. wk[w].pc = "work" /\ Left(w, s) \in SUBSET wk[w].todo
    BY <2>2, Taken
  <2>4. /\ Shape(wk'[w]) /\ wk'[w].todo = Left(w, s)
        /\ \A j \in Keys : HasRow(wk'[w], j) => HasRow(wk[w], j)
        /\ \A v \in Workers \ {w} : wk'[v] = wk[v]
    BY <2>1, <2>2, Calls
  <2>5. Shapes' /\ Leased' /\ LeaseExclusion' /\ Final
    BY <2>1, <2>4, HoldersKept DEF RowStep
  <2>6. \A j \in Keys : WorkerLaunches(j)' \subseteq WorkerLaunches(j)
    BY <2>1 DEF WorkerLaunches
  <2>7. Launching' /\ LaunchedOnce'
    BY <2>1, <2>3, <2>4, <2>6, LaunchesKept
  <2> QED BY <2>5, <2>7 DEF LInv
<1> QED BY <1>1, <1>2, <1>3

-----------------------------------------------------------------------------
(* The tick.                                                               *)

\* The worker's state changes to x, which holds nothing new and launches nothing.
LEMMA Moves ==
  ASSUME TInv, LInv, NEW w \in Workers, NEW x, wk' = [wk EXCEPT ![w] = x], Shape(x),
         \A k \in Keys : HasRow(x, k) => HasRow(wk[w], k),
         lapsed \subseteq lapsed', hurt \subseteq hurt', ctl' = ctl,
         \A k \in Keys \ lapsed' :
           /\ RowStep(w, k)
           /\ jobs'[k].status = jobs[k].status \/ jobs'[k].status \notin {"launching", "absent"},
         \A k \in Keys \ (lapsed' \cup hurt') :
           /\ wk[w].pc = "launched" /\ wk[w].call.key = k => x.pc = "launched" /\ x.call.key = k
           /\ \A s \in x.todo : s.key = k =>
                s \in wk[w].todo \/ WorkerLaunches(k) = {} \/ s.status # "launching"
  PROVE  LInv' /\ Final
<1>1. wk'[w] = x /\ \A v \in Workers \ {w} : wk'[v] = wk[v]
  BY DEF TInv, TypeOK
<1>2. Shapes' /\ Leased' /\ LeaseExclusion' /\ Final
  BY <1>1, HoldersKept
<1>3. \A k \in Keys : WorkerLaunches(k)' \subseteq WorkerLaunches(k)
  BY DEF WorkerLaunches
<1>4. Launching' /\ LaunchedOnce'
  BY <1>1, <1>3, LaunchesKept
<1> QED BY <1>2, <1>4 DEF LInv

LEMMA TickLeases ==
  ASSUME TInv, LInv, NEW w \in Workers,
         StartTick(w) \/ EmitEvents(w) \/ AbortTick(w) \/ Crash(w)
  PROVE  LInv' /\ Final
<1>0. wk \in [Workers -> Worker] /\ wk[w] \in Worker /\ Shape(wk[w]) /\ jobs \in [Keys -> Job]
  BY DEF TInv, TypeOK, LInv, Shapes
<1>1. CASE StartTick(w)
  <2>1. PICK swept \in {Overdue, {}} :
        /\ Ready(w, "idle") /\ (NoFault \/ Fault({})) /\ ctl' = ctl
        /\ jobs' = [k \in Keys |-> IF k \in swept
                      THEN [jobs[k] EXCEPT !.status = "timed_out", !.lease = NULL] ELSE jobs[k]]
        /\ wk' = [wk EXCEPT ![w] = [@ EXCEPT !.pc = "claim",
                                             !.out = swept \X {"renewal.timed_out"}]]
        /\ lapsed' = lapsed \cup {k \in swept : \E v \in Workers : Holds(v, k)}
    BY <1>1 DEF StartTick
  <2> DEFINE x == [wk[w] EXCEPT !.pc = "claim", !.out = swept \X {"renewal.timed_out"}]
  <2>2. wk' = [wk EXCEPT ![w] = x]
    BY <1>0, <2>1
  <2>3. wk[w].pc = "idle" /\ wk[w].ids = {} /\ wk[w].todo = {} /\ wk[w].call = NULL
    BY <1>0, <2>1 DEF Ready, Shape
  <2>4. x.pc = "claim" /\ x.ids = {} /\ x.todo = {} /\ x.call = NULL /\ x.now = wk[w].now
    BY <1>0, <2>3 DEF Worker
  <2> HIDE DEF x
  <2>5. Shape(x) /\ \A k \in Keys : ~HasRow(x, k)
    BY <1>0, <2>4 DEF Shape, HasRow
  <2>6. hurt \subseteq hurt' /\ lapsed \subseteq lapsed'
    BY <2>1 DEF NoFault, Fault
  <2>7. ASSUME NEW k \in Keys \ lapsed'
        PROVE  /\ RowStep(w, k)
               /\ jobs'[k].status = jobs[k].status \/ jobs'[k].status \notin {"launching", "absent"}
    <3>1. CASE k \in swept
      <4>1. jobs[k].status = "pending_verify" /\ \A v \in Workers : ~Holds(v, k)
        BY <2>1, <3>1 DEF Overdue
      <4>2. jobs'[k].status = "timed_out"
        BY <1>0, <2>1, <3>1 DEF Job
      <4> QED BY <4>1, <4>2 DEF RowStep, Terminal
    <3>2. CASE k \notin swept
      BY <2>1, <3>2 DEF RowStep
    <3> QED BY <3>1, <3>2
  <2> QED BY <2>1, <2>2, <2>3, <2>4, <2>5, <2>6, <2>7, Moves
<1>2. CASE EmitEvents(w)
  <2> DEFINE x == [wk[w] EXCEPT !.out = {}]
  <2>1. /\ wk' = [wk EXCEPT ![w] = x]
        /\ jobs' = jobs /\ ctl' = ctl /\ lapsed' = lapsed /\ hurt \subseteq hurt'
    BY <1>0, <1>2 DEF EmitEvents, NoFault, Fault
  <2>2. /\ x.pc = wk[w].pc /\ x.ids = wk[w].ids /\ x.todo = wk[w].todo /\ x.call = wk[w].call
        /\ x.now = wk[w].now
    BY <1>0 DEF Worker
  <2> HIDE DEF x
  <2>3. Shape(x) /\ \A k \in Keys : HasRow(x, k) => HasRow(wk[w], k)
    BY <1>0, <2>2 DEF Shape, HasRow
  <2>4. \A k \in Keys : RowStep(w, k) /\ jobs'[k].status = jobs[k].status
    BY <2>1 DEF RowStep
  <2> QED BY <2>1, <2>2, <2>3, <2>4, Moves
<1>3. CASE AbortTick(w) \/ Crash(w)
  <2> DEFINE x == IdleWorker
  <2>1. /\ wk' = [wk EXCEPT ![w] = x] /\ Fault({k \in Keys : Holds(w, k)})
        /\ jobs' = jobs /\ ctl' = ctl /\ lapsed' = lapsed
    BY <1>3 DEF AbortTick, Crash
  <2>2. x.pc = "idle" /\ x.ids = {} /\ x.todo = {} /\ x.call = NULL /\ x.now = 0
    BY DEF IdleWorker, EndOfTick
  <2> HIDE DEF x
  <2>3. Shape(x) /\ \A k \in Keys : ~HasRow(x, k)
    BY <2>2 DEF Shape, HasRow
  <2>4. \A k \in Keys : RowStep(w, k) /\ jobs'[k].status = jobs[k].status
    BY <2>1 DEF RowStep
  <2>5. hurt \subseteq hurt' /\ \A k \in Keys \ hurt' : ~Holds(w, k)
    BY <2>1 DEF Fault
  <2>6. ASSUME NEW k \in Keys \ hurt', wk[w].pc = "launched", wk[w].call.key = k PROVE FALSE
    BY <2>5, <2>6, Called, HoldsRow
  <2> QED BY <2>1, <2>2, <2>3, <2>4, <2>5, <2>6, Moves
<1> QED BY <1>1, <1>2, <1>3

LEMMA ReadLeases ==
  ASSUME TInv, LInv, NEW w \in Workers, ReadClaimed(w) PROVE LInv' /\ Final
<1>0. wk \in [Workers -> Worker] /\ wk[w] \in Worker /\ Shape(wk[w])
  BY DEF TInv, TypeOK, LInv, Shapes
<1>1. PICK k \in wk[w].ids :
        wk' = [wk EXCEPT ![w] =
          [@ EXCEPT !.ids = wk[w].ids \ {k}, !.todo = wk[w].todo \cup {GetLifecycleJob(k)},
                    !.pc = IF wk[w].ids = {k} THEN "work" ELSE "read"]]
  BY DEF ReadClaimed
<1>2. /\ wk[w].pc = "read" /\ jobs' = jobs /\ ctl' = ctl /\ lapsed' = lapsed /\ hurt' = hurt
      /\ k \in Keys /\ wk[w].call = NULL
  BY <1>0 DEF ReadClaimed, Ready, Worker, Shape
<1> DEFINE g == GetLifecycleJob(k)
           x == [wk[w] EXCEPT !.ids = wk[w].ids \ {k}, !.todo = wk[w].todo \cup {g},
                              !.pc = IF wk[w].ids = {k} THEN "work" ELSE "read"]
<1>3. wk' = [wk EXCEPT ![w] = x]
  BY <1>0, <1>1
<1>4. g.key = k /\ g.status = jobs[k].status
  BY DEF GetLifecycleJob
<1> HIDE DEF g
<1>5. /\ x.pc = (IF wk[w].ids = {k} THEN "work" ELSE "read") /\ x.ids = wk[w].ids \ {k}
      /\ x.todo = wk[w].todo \cup {g} /\ x.call = NULL /\ x.now = wk[w].now
  BY <1>0, <1>2 DEF Worker
<1> HIDE DEF x
<1>6. Shape(x)
  <2>1. \A s \in wk[w].todo : s.key # k /\ s.key \notin wk[w].ids
    BY <1>0 DEF Shape
  <2>2. \A s, t \in wk[w].todo : s.key = t.key => s = t
    BY <1>0 DEF Shape
  <2>3. \A s, t \in x.todo : s.key = t.key => s = t
    BY <1>4, <1>5, <2>1, <2>2
  <2>4. \A s \in x.todo : s.key \notin x.ids
    BY <1>4, <1>5, <2>1
  <2>5. wk[w].now <= 0
    BY <1>0 DEF Shape
  <2>6. x.pc \in {"work", "read"} /\ (x.pc # "read" => x.ids = {})
    BY <1>5
  <2> QED BY <1>5, <2>3, <2>4, <2>5, <2>6 DEF Shape
<1>7. \A j \in Keys : HasRow(x, j) => HasRow(wk[w], j)
  BY <1>4, <1>5 DEF HasRow
<1>8. ASSUME k \notin lapsed \cup hurt, g.status = "launching", WorkerLaunches(k) # {}
      PROVE  FALSE
  <2>1. PICK v \in Workers : wk[v].pc = "launched" /\ wk[v].call.key = k
    BY <1>2, <1>4, <1>8 DEF LInv, Launching
  <2>2. Holds(v, k)
    BY <2>1, Called, HoldsRow
  <2>3. Holds(w, k)
    BY DEF Holds
  <2>4. v = w
    BY <1>2, <1>8, <2>2, <2>3 DEF LInv, LeaseExclusion
  <2> QED BY <1>2, <2>1, <2>4
<1>9. \A j \in Keys : RowStep(w, j) /\ jobs'[j].status = jobs[j].status
  BY <1>2 DEF RowStep
<1>10. \A j \in Keys \ (lapsed' \cup hurt') : \A s \in x.todo : s.key = j =>
         s \in wk[w].todo \/ WorkerLaunches(j) = {} \/ s.status # "launching"
  BY <1>2, <1>4, <1>5, <1>8
<1> QED BY <1>2, <1>3, <1>6, <1>7, <1>9, <1>10, Moves

\* A claim takes rows nobody holds.
LEMMA ClaimLeases ==
  ASSUME TInv, LInv, NEW w \in Workers, NEW ks \in SUBSET Keys, NEW expires \in Int,
         Ready(w, "claim"), Claim(w, ks, expires),
         \A k \in ks : /\ jobs[k].status \in InFlight
                       /\ jobs[k].lease = NULL \/ jobs[k].lease < 0
  PROVE  LInv' /\ Final
<1>0. wk \in [Workers -> Worker] /\ wk[w] \in Worker /\ Shape(wk[w]) /\ jobs \in [Keys -> Job]
  BY DEF TInv, TypeOK, LInv, Shapes
<1>1. wk[w].pc = "claim" /\ wk[w].ids = {} /\ wk[w].todo = {} /\ wk[w].call = NULL
  BY <1>0 DEF Ready, Shape
<1>2. /\ ctl' = ctl /\ hurt' = hurt
      /\ lapsed' = lapsed \cup (IF expires < 0 THEN ks ELSE {})
      /\ jobs' = [k \in Keys |-> IF k \in ks THEN [jobs[k] EXCEPT !.lease = expires] ELSE jobs[k]]
  BY DEF Claim
<1>3. /\ \A k \in Keys : jobs'[k].status = jobs[k].status
      /\ \A k \in ks : jobs'[k].lease = expires
      /\ \A k \in Keys \ ks : jobs'[k].lease = jobs[k].lease
  BY <1>0, <1>2 DEF Job
<1>4. PICK x : /\ wk' = [wk EXCEPT ![w] = x] /\ Shape(x) /\ x.ids = ks /\ x.todo = {} /\ x.call = NULL
               /\ x.pc # "launched"
  <2>1. CASE ks = {}
    <3>1. Proceed(w, {}, {})
      BY <2>1 DEF Claim
    <3>2. PICK x : wk' = [wk EXCEPT ![w] = x]
      BY <3>1 DEF Proceed
    <3>3. /\ Shape(wk'[w]) /\ wk'[w].todo \subseteq {} /\ wk'[w].ids = {} /\ wk'[w].call = NULL
          /\ wk'[w].pc # "launched"
      BY <1>0, <1>1, <3>1, Proceeds
    <3>4. wk'[w] = x
      BY <1>0, <3>2
    <3> QED BY <2>1, <3>2, <3>3, <3>4
  <2>2. CASE ks # {}
    <3> DEFINE x == [wk[w] EXCEPT !.pc = "read", !.ids = ks]
    <3>1. wk' = [wk EXCEPT ![w] = x]
      BY <1>0, <2>2 DEF Claim
    <3>2. x.pc = "read" /\ x.ids = ks /\ x.todo = {} /\ x.call = NULL /\ x.now = wk[w].now
      BY <1>0, <1>1 DEF Worker
    <3> HIDE DEF x
    <3>3. Shape(x)
      BY <1>0, <3>2 DEF Shape
    <3> QED BY <3>1, <3>2, <3>3
  <2> QED BY <2>1, <2>2
<1>5. wk'[w] = x /\ \A v \in Workers \ {w} : wk'[v] = wk[v]
  BY <1>0, <1>4
<1>6. Shapes'
  BY <1>4, <1>5 DEF LInv, Shapes
<1>7. /\ \A k \in Keys : Holds(w, k)' <=> k \in ks
      /\ \A v \in Workers \ {w}, k \in Keys : Holds(v, k)' <=> Holds(v, k)
  BY <1>4, <1>5 DEF Holds
<1>8. \A k \in ks \ lapsed' : \A v \in Workers : ~Holds(v, k)
  <2> SUFFICES ASSUME NEW k \in ks \ lapsed', NEW v \in Workers, Holds(v, k) PROVE FALSE
    OBVIOUS
  <2>1. jobs[k].lease # NULL /\ jobs[k].lease >= 0 /\ jobs[k].lease \in Int
    BY <1>0, <1>2 DEF LInv, Leased, Job, Time
  <2> QED BY <2>1
<1>9. LeaseExclusion'
  <2> SUFFICES ASSUME NEW k \in Keys \ lapsed', NEW u \in Workers, NEW v \in Workers,
                      Holds(u, k)', Holds(v, k)'
               PROVE  u = v
    BY DEF LeaseExclusion
  <2>1. CASE k \in ks
    BY <1>7, <1>8, <2>1
  <2>2. CASE k \notin ks
    BY <1>2, <1>7, <2>2 DEF LInv, LeaseExclusion
  <2> QED BY <2>1, <2>2
<1>10. Leased'
  <2> SUFFICES ASSUME NEW k \in Keys \ lapsed', NEW v \in Workers, Holds(v, k)'
               PROVE  jobs'[k].lease # NULL /\ jobs'[k].lease >= 0 /\ jobs'[k].status \in InFlight
    BY DEF Leased
  <2>1. CASE k \in ks
    <3>1. expires >= 0 /\ expires # NULL
      BY <1>2, <2>1, Constants
    <3>2. jobs'[k].lease = expires /\ jobs'[k].status = jobs[k].status
      BY <1>3, <2>1
    <3>3. jobs[k].status \in InFlight
      BY <2>1
    <3> QED BY <3>1, <3>2, <3>3
  <2>2. CASE k \notin ks
    BY <1>2, <1>3, <1>7, <2>2 DEF LInv, Leased
  <2> QED BY <2>1, <2>2
<1>11. Final
  BY <1>3 DEF Final
<1>12. \A k \in Keys : WorkerLaunches(k)' \subseteq WorkerLaunches(k)
  BY <1>2 DEF WorkerLaunches
<1>13. Launching' /\ LaunchedOnce'
  BY <1>1, <1>2, <1>3, <1>4, <1>5, <1>12, LaunchesKept
<1> QED BY <1>6, <1>9, <1>10, <1>11, <1>13 DEF LInv

LEMMA ClaimsLeases ==
  ASSUME TInv, LInv, NEW w \in Workers, ClaimLifecycleJobs(w) \/ ClaimDueVerifyJobs(w)
  PROVE  LInv' /\ Final
<1>0. \A k \in Keys : jobs[k].lease \in Int \cup {NULL}
  BY DEF TInv, TypeOK, Job, Time
<1>1. CASE ClaimLifecycleJobs(w)
  <2> DEFINE ks == {k \in Keys : jobs[k].status \in InFlight /\ LeaseFree(k, 0)}
  <2>1. Ready(w, "claim") /\ Claim(w, ks, LeaseTTL) /\ LeaseTTL \in Int
    BY <1>1, Constants DEF ClaimLifecycleJobs
  <2>2. \A k \in ks : jobs[k].status \in InFlight /\ (jobs[k].lease = NULL \/ jobs[k].lease < 0)
    BY DEF LeaseFree
  <2>3. ks \in SUBSET Keys
    OBVIOUS
  <2> HIDE DEF ks
  <2> QED BY <2>1, <2>2, <2>3, ClaimLeases
<1>2. CASE ClaimDueVerifyJobs(w)
  <2> DEFINE now == wk[w].now
             ks == {k \in Keys : /\ jobs[k].status = "pending_verify"
                                 /\ jobs[k].next # NULL /\ jobs[k].next <= now
                                 /\ jobs[k].timeout > now
                                 /\ LeaseFree(k, now)}
  <2>0. now \in Int /\ now <= 0
    BY Held DEF LInv, Shapes, Shape
  <2>1. Ready(w, "claim") /\ Claim(w, ks, now + LeaseTTL)
    BY <1>2 DEF ClaimDueVerifyJobs
  <2>2. \A k \in ks : jobs[k].status \in InFlight /\ (jobs[k].lease = NULL \/ jobs[k].lease < 0)
    BY <1>0, <2>0 DEF LeaseFree, InFlight
  <2>3. ks \in SUBSET Keys /\ now + LeaseTTL \in Int
    BY <2>0, Constants
  <2> HIDE DEF ks, now
  <2> QED BY <2>1, <2>2, <2>3, ClaimLeases
<1> QED BY <1>1, <1>2

-----------------------------------------------------------------------------
(* The handlers and the environment.                                       *)

\* The workers stay: rows keep their lease and stay open, or nobody holds them.
LEMMA TableLeases ==
  ASSUME LInv, wk' = wk, lapsed' = lapsed, hurt \subseteq hurt',
         \A k \in Keys :
           \/ jobs'[k] = jobs[k]
           \/ jobs[k].status = "absent" /\ WorkerLaunches(k)' \subseteq WorkerLaunches(k)
           \/ jobs'[k].status = "aap_pending" /\ jobs'[k].lease = jobs[k].lease,
         \A k \in Keys : WorkerLaunches(k)' \subseteq WorkerLaunches(k)
  PROVE  LInv'
<1>1. \A v \in Workers, k \in Keys : Holds(v, k)' <=> Holds(v, k)
  BY DEF Holds
<1>2. Shapes' /\ LeaseExclusion'
  BY <1>1 DEF LInv, Shapes, LeaseExclusion
<1>3. Leased'
  <2> SUFFICES ASSUME NEW k \in Keys \ lapsed', NEW v \in Workers, Holds(v, k)'
               PROVE  jobs'[k].lease # NULL /\ jobs'[k].lease >= 0 /\ jobs'[k].status \in InFlight
    BY DEF Leased
  <2>1. jobs[k].lease # NULL /\ jobs[k].lease >= 0 /\ jobs[k].status \in InFlight
    BY <1>1 DEF LInv, Leased
  <2> QED BY <2>1, Open DEF InFlight
<1>4. LaunchedOnce'
  BY DEF LInv, LaunchedOnce
<1>5. Launching'
  <2> SUFFICES ASSUME NEW k \in Keys \ (lapsed' \cup hurt'), WorkerLaunches(k)' # {}
               PROVE  /\ jobs'[k].status # "absent"
                      /\ jobs'[k].status = "launching" =>
                           \E v \in Workers : wk'[v].pc = "launched" /\ wk'[v].call.key = k
                      /\ \A v \in Workers : \A s \in wk'[v].todo : s.key = k => s.status # "launching"
    BY DEF Launching
  <2>1. WorkerLaunches(k) # {} /\ k \in Keys \ (lapsed \cup hurt)
    OBVIOUS
  <2>2. /\ jobs[k].status # "absent"
        /\ jobs[k].status = "launching" => \E v \in Workers : wk[v].pc = "launched" /\ wk[v].call.key = k
        /\ \A v \in Workers : \A s \in wk[v].todo : s.key = k => s.status # "launching"
    BY <2>1 DEF LInv, Launching
  <2> QED BY <2>2
<1> QED BY <1>2, <1>3, <1>4, <1>5 DEF LInv

\* The API handlers: they insert rows where there is none, and attach an id
\* under whatever lease there is.
LEMMA ApiLeases ==
  ASSUME TInv, LInv, ApiStep PROVE LInv' /\ (Final \/ AttachClaim)
<1>0. TypeOK /\ jobs \in [Keys -> Job] /\ ctl \in [Ids -> AapJob]
         /\ \A r \in requests : r \in Request /\ r.key \in Keys
  BY DEF TInv, TypeOK, Request
<1>1. ASSUME NEW k \in Keys, RenewCertificate(k) \/ MigrateCertificate(k) \/ EdaLaunch(k)
      PROVE  LInv' /\ Final
  <2>1. /\ \E i \in Ids : LaunchAAP(i, k, "api") \/ LaunchAAP(i, k, "eda")
        /\ jobs' = jobs /\ wk' = wk /\ lapsed' = lapsed /\ hurt' = hurt
    BY <1>1 DEF RenewCertificate, MigrateCertificate, EdaLaunch
  <2>2. \A j \in Keys : WorkerLaunches(j)' \subseteq WorkerLaunches(j)
    BY <1>0, <2>1, Launches
  <2> QED BY <2>1, <2>2, TableLeases DEF Final
<1>2. ASSUME NEW k \in Keys, NEW row, Absent(k), Insert(k, row),
             wk' = wk, lapsed' = lapsed, hurt' = hurt, ctl' = ctl
      PROVE  LInv' /\ Final
  <2>1. jobs[k].status = "absent" /\ \A j \in Keys \ {k} : jobs'[j] = jobs[j]
    BY <1>0, <1>2 DEF Absent, Insert
  <2>2. \A j \in Keys : WorkerLaunches(j)' \subseteq WorkerLaunches(j)
    BY <1>2 DEF WorkerLaunches
  <2>3. \A j \in Keys : \/ jobs'[j] = jobs[j]
                        \/ jobs[j].status = "absent" /\ WorkerLaunches(j)' \subseteq WorkerLaunches(j)
                        \/ jobs'[j].status = "aap_pending" /\ jobs'[j].lease = jobs[j].lease
    BY <2>1, <2>2
  <2>4. LInv'
    BY <1>2, <2>2, <2>3, TableLeases
  <2>5. Final
    BY <2>1 DEF Final, Terminal
  <2> QED BY <2>4, <2>5
<1>3. ASSUME NEW k \in Keys, RenewExpiring(k) \/ MigrateEligible(k) PROVE LInv' /\ Final
  BY <1>2, <1>3 DEF RenewExpiring, MigrateEligible
<1>4. ASSUME jobs' = jobs, wk' = wk, lapsed' = lapsed, hurt \subseteq hurt', ctl' = ctl
      PROVE  LInv' /\ Final
  <2>1. \A j \in Keys : WorkerLaunches(j)' \subseteq WorkerLaunches(j)
    BY <1>4 DEF WorkerLaunches
  <2> QED BY <1>4, <2>1, TableLeases DEF Final
<1>5. CASE PersistLaunch
  <2>1. PICK r \in requests :
          /\ r.op \in {"renew", "migrate"}
          /\ IF Absent(r.key) /\ present[r.key]
             THEN IF r.op = "renew" THEN Insert(r.key, NewRow("aap_pending", r.id, NULL))
                  ELSE Insert(r.key, NewRow("pending_verify", r.id, Backoff[1]))
             ELSE jobs' = jobs
    BY <1>5 DEF PersistLaunch
  <2>2. wk' = wk /\ lapsed' = lapsed /\ hurt' = hurt /\ ctl' = ctl /\ r.key \in Keys
    BY <1>0, <1>5 DEF PersistLaunch
  <2>3. CASE jobs' = jobs
    BY <1>4, <2>2, <2>3
  <2>4. CASE Absent(r.key) /\ \E row : Insert(r.key, row)
    BY <1>2, <2>2, <2>4
  <2> QED BY <2>1, <2>3, <2>4
<1>6. CASE ClaimByIdempotency \/ Announce \/ RequestFails
  <2>1. jobs' = jobs /\ wk' = wk /\ lapsed' = lapsed /\ hurt \subseteq hurt' /\ ctl' = ctl
    BY <1>6 DEF ClaimByIdempotency, Announce, RequestFails, Fault
  <2> QED BY <1>4, <2>1
<1>7. CASE AttachClaim
  <2>1. PICK r \in requests : SetLifecycleAAPRef(r.key, r.id, "aap_pending")
    BY <1>7 DEF AttachClaim
  <2>2. wk' = wk /\ lapsed' = lapsed /\ hurt' = hurt /\ ctl' = ctl /\ r.key \in Keys
    BY <1>0, <1>7 DEF AttachClaim
  <2>3. /\ jobs'[r.key].status = "aap_pending" /\ jobs'[r.key].lease = jobs[r.key].lease
        /\ \A j \in Keys \ {r.key} : jobs'[j] = jobs[j]
    BY <1>0, <2>1, <2>2 DEF SetLifecycleAAPRef, Job
  <2>4. \A j \in Keys : WorkerLaunches(j)' \subseteq WorkerLaunches(j)
    BY <2>2 DEF WorkerLaunches
  <2>5. LInv'
    BY <2>2, <2>3, <2>4, TableLeases
  <2> QED BY <1>7, <2>5
<1> QED BY <1>1, <1>3, <1>5, <1>6, <1>7 DEF ApiStep

\* The controller, the inventory, deletions.
LEMMA WorldLeases ==
  ASSUME TInv, LInv, \/ AapFinishes
                     \/ \E k \in Keys : InventoryChanges(k) \/ DeleteCertificate(k)
  PROVE  LInv' /\ Final
<1>1. jobs' = jobs /\ wk' = wk /\ lapsed' = lapsed /\ hurt' = hurt
  BY DEF AapFinishes, InventoryChanges, DeleteCertificate
<1>2. \A j \in Keys : WorkerLaunches(j)' \subseteq WorkerLaunches(j)
  <2>1. CASE AapFinishes
    <3>1. ctl \in [Ids -> AapJob]
      BY DEF TInv, TypeOK
    <3>2. \A i \in Ids : ctl'[i].key = ctl[i].key /\ ctl'[i].by = ctl[i].by
      BY <2>1, <3>1 DEF AapFinishes, AapJob
    <3> QED BY <3>2 DEF WorkerLaunches
  <2>2. CASE ctl' = ctl
    BY <2>2 DEF WorkerLaunches
  <2> QED BY <2>1, <2>2 DEF InventoryChanges, DeleteCertificate
<1> QED BY <1>1, <1>2, TableLeases DEF Final

\* Time passes: a lease that ends under its holder is in lapsed.
LEMMA ElapseLeases ==
  ASSUME TInv, LInv, Elapse PROVE LInv' /\ Final
<1> DEFINE aged(k) == [jobs[k] EXCEPT !.lease = Closer(jobs[k].lease),
                         !.next = Closer(jobs[k].next), !.timeout = Closer(jobs[k].timeout)]
           snaps(w) == {[s EXCEPT !.next = Closer(s.next)] : s \in wk[w].todo}
           call(w) == IF wk[w].call = NULL THEN NULL
                      ELSE [wk[w].call EXCEPT !.until = Closer(wk[w].call.until)]
           older(w) == [wk[w] EXCEPT !.now = Closer(wk[w].now), !.todo = snaps(w),
                                     !.call = call(w)]
<1>0. wk \in [Workers -> Worker] /\ jobs \in [Keys -> Job] /\ \A w \in Workers : Shape(wk[w])
  BY DEF TInv, TypeOK, LInv, Shapes
<1>1. /\ jobs' = [k \in Keys |-> IF Absent(k) THEN jobs[k] ELSE aged(k)]
      /\ wk' = [w \in Workers |-> IF wk[w].pc = "idle" THEN wk[w] ELSE older(w)]
      /\ ctl' = ctl /\ hurt' = hurt /\ lapsed \subseteq lapsed'
      /\ \A k \in Keys \ lapsed' : jobs'[k].lease # NULL /\ jobs'[k].lease < 0 =>
           \A w \in Workers : ~Holds(w, k)
  BY DEF Elapse
<1>2. ASSUME NEW k \in Keys
      PROVE  /\ jobs'[k].status = jobs[k].status
             /\ jobs[k].lease \in Int /\ ~Absent(k) => jobs'[k].lease \in Int
    <2>1. jobs[k] \in Job
      BY <1>0
    <2>2. aged(k).status = jobs[k].status /\ aged(k).lease = Closer(jobs[k].lease)
      BY <2>1 DEF Job
    <2> HIDE DEF aged
    <2> QED BY <1>1, <2>2, CloserTime
<1>3. \A w \in Workers : \A s \in wk[w].todo :
        LET t == [s EXCEPT !.next = Closer(s.next)] IN t.key = s.key /\ t.status = s.status
  BY Held DEF Snapshot
<1>4. ASSUME NEW w \in Workers
      PROVE  /\ wk'[w].pc = wk[w].pc /\ wk'[w].ids = wk[w].ids /\ wk'[w].now <= 0
             /\ \A s \in wk[w].todo : \E t \in wk'[w].todo : t.key = s.key
             /\ \A t \in wk'[w].todo : \E s \in wk[w].todo : t.key = s.key /\ t.status = s.status
             /\ \A s, t \in wk'[w].todo : s.key = t.key => s = t
             /\ wk[w].call = NULL <=> wk'[w].call = NULL
             /\ wk[w].call # NULL => wk'[w].call.key = wk[w].call.key
  <2>1. wk[w] \in Worker /\ Shape(wk[w])
    BY <1>0
  <2>2. CASE wk[w].pc = "idle"
    <3>1. wk'[w] = wk[w]
      BY <1>1, <2>2
    <3> QED BY <2>1, <3>1 DEF Shape
  <2>3. CASE wk[w].pc # "idle"
    <3>1. wk'[w] = older(w)
      BY <1>1, <2>3
    <3>2. /\ older(w).pc = wk[w].pc /\ older(w).ids = wk[w].ids /\ older(w).todo = snaps(w)
          /\ older(w).call = call(w) /\ older(w).now = Closer(wk[w].now)
      BY <2>1 DEF Worker
    <3>3. Closer(wk[w].now) <= 0
      <4>1. wk[w].now \in Int /\ wk[w].now <= 0 /\ wk[w].now # NULL
        BY <2>1, Held, Constants DEF Shape
      <4> QED BY <4>1, Constants DEF Closer
    <3>4. /\ \A s \in wk[w].todo : \E t \in snaps(w) : t.key = s.key
          /\ \A t \in snaps(w) : \E s \in wk[w].todo : t.key = s.key /\ t.status = s.status
      BY <1>3
    <3>5. ASSUME NEW t \in snaps(w), NEW r \in snaps(w), t.key = r.key PROVE t = r
      <4>1. PICK s \in wk[w].todo : t = [s EXCEPT !.next = Closer(s.next)]
        OBVIOUS
      <4>2. PICK q \in wk[w].todo : r = [q EXCEPT !.next = Closer(q.next)]
        OBVIOUS
      <4>3. t.key = s.key /\ r.key = q.key
        BY <1>3, <4>1, <4>2
      <4>4. s = q
        BY <2>1, <3>5, <4>3 DEF Shape
      <4> QED BY <4>1, <4>2, <4>4
    <3>6. wk[w].call \in Call \cup {NULL}
      BY <2>1 DEF Worker
    <3>7. \A c \in Call : LET d == [c EXCEPT !.until = Closer(c.until)] IN d \in Call /\ d.key = c.key
      BY CloserTime DEF Call
    <3>8. /\ wk[w].call = NULL <=> call(w) = NULL
          /\ wk[w].call # NULL => call(w).key = wk[w].call.key
      BY <3>6, <3>7, CallAssumption
    <3> HIDE DEF snaps, call, older
    <3> QED BY <3>1, <3>2, <3>3, <3>4, <3>5, <3>8
  <2> QED BY <2>2, <2>3
<1> HIDE DEF aged, snaps, call, older
<1>5. Shapes'
  <2> SUFFICES ASSUME NEW w \in Workers PROVE Shape(wk'[w])
    BY DEF Shapes
  <2>1. Shape(wk[w])
    BY <1>0
  <2>2. wk[w].todo = {} => wk'[w].todo = {}
    BY <1>4
  <2>3. \A t \in wk'[w].todo : t.key \notin wk'[w].ids
                               /\ (wk'[w].call # NULL => t.key # wk'[w].call.key)
    BY <1>4, <2>1 DEF Shape
  <2> QED BY <1>4, <2>1, <2>2, <2>3 DEF Shape
<1>6. \A w \in Workers, k \in Keys : Holds(w, k)' <=> Holds(w, k)
  BY <1>4 DEF Holds
<1>7. LeaseExclusion'
  BY <1>1, <1>6 DEF LInv, LeaseExclusion
<1>8. Leased'
  <2> SUFFICES ASSUME NEW k \in Keys \ lapsed', NEW w \in Workers, Holds(w, k)'
               PROVE  jobs'[k].lease # NULL /\ jobs'[k].lease >= 0 /\ jobs'[k].status \in InFlight
    BY DEF Leased
  <2>1. Holds(w, k) /\ jobs[k].lease # NULL /\ jobs[k].status \in InFlight
    BY <1>1, <1>6 DEF LInv, Leased
  <2>2. jobs[k].lease \in Int /\ ~Absent(k)
    BY <1>0, <2>1, Open DEF Absent, Job, Time
  <2>3. jobs'[k].lease \in Int /\ jobs'[k].lease # NULL
    BY <1>2, <2>2, Constants
  <2>4. ~(jobs'[k].lease < 0)
    BY <1>1, <2>1, <2>3
  <2> QED BY <1>2, <2>1, <2>3, <2>4
<1>9. LaunchedOnce'
  BY <1>1 DEF LInv, LaunchedOnce, WorkerLaunches
<1>10. Launching'
  <2> SUFFICES ASSUME NEW k \in Keys \ (lapsed' \cup hurt'), WorkerLaunches(k)' # {}
               PROVE  /\ jobs'[k].status # "absent"
                      /\ jobs'[k].status = "launching" =>
                           \E v \in Workers : wk'[v].pc = "launched" /\ wk'[v].call.key = k
                      /\ \A v \in Workers : \A s \in wk'[v].todo : s.key = k => s.status # "launching"
    BY DEF Launching
  <2>1. WorkerLaunches(k) # {} /\ k \in Keys \ (lapsed \cup hurt)
    BY <1>1 DEF WorkerLaunches
  <2>2. /\ jobs[k].status # "absent"
        /\ jobs[k].status = "launching" => \E v \in Workers : wk[v].pc = "launched" /\ wk[v].call.key = k
        /\ \A v \in Workers : \A s \in wk[v].todo : s.key = k => s.status # "launching"
    BY <2>1 DEF LInv, Launching
  <2>3. \A v \in Workers : wk[v].pc = "launched" =>
          wk'[v].pc = "launched" /\ wk'[v].call.key = wk[v].call.key
    BY <1>4, Called
  <2> QED BY <1>2, <1>4, <2>2, <2>3
<1>11. Final
  BY <1>2 DEF Final
<1> QED BY <1>5, <1>7, <1>8, <1>9, <1>10, <1>11 DEF LInv

-----------------------------------------------------------------------------
(* The theorems.                                                           *)

LEMMA InitLInv == Init => LInv
<1> SUFFICES ASSUME Init PROVE LInv
  OBVIOUS
<1>1. \A w \in Workers : /\ wk[w].pc = "idle" /\ wk[w].ids = {} /\ wk[w].todo = {}
                         /\ wk[w].call = NULL /\ wk[w].now = 0
  BY DEF Init, IdleWorker, EndOfTick
<1>2. Shapes
  BY <1>1 DEF Shapes, Shape
<1>3. \A w \in Workers, k \in Keys : ~Holds(w, k)
  BY <1>1 DEF Holds
<1>4. \A k \in Keys : WorkerLaunches(k) = {}
  <2>1. \A i \in Ids : ctl[i].by \in {"nobody", "api"}
    BY DEF Init, NoAapJob
  <2> QED BY <2>1 DEF WorkerLaunches
<1> QED BY <1>2, <1>3, <1>4 DEF LInv, Leased, LeaseExclusion, Launching, LaunchedOnce

\* No step breaks the invariant, and none but the claim callback changes an
\* outcome.
LEMMA NextLInv ==
  ASSUME TInv, LInv, [Next]_vars PROVE LInv' /\ (Final \/ AttachClaim)
<1>1. ASSUME NEW w \in Workers, WorkerStep(w) \/ AbortTick(w) \/ Crash(w) PROVE LInv' /\ Final
  BY <1>1, BatchLeases, CallLeases, LaunchLeases, LaunchedLeases, TickLeases, ReadLeases,
     ClaimsLeases DEF WorkerStep
<1>2. CASE ApiStep
  BY <1>2, ApiLeases
<1>3. CASE EnvStep
  BY <1>3, WorldLeases, ElapseLeases DEF EnvStep
<1>4. CASE UNCHANGED vars
  <2>1. jobs' = jobs /\ wk' = wk /\ ctl' = ctl /\ lapsed' = lapsed /\ hurt' = hurt
    BY <1>4 DEF vars
  <2>2. \A j \in Keys : WorkerLaunches(j)' \subseteq WorkerLaunches(j)
    BY <2>1 DEF WorkerLaunches
  <2> QED BY <2>1, <2>2, TableLeases DEF Final
<1> QED BY <1>1, <1>2, <1>3, <1>4 DEF Next

LEMMA AlwaysLInv == Spec => [](TInv /\ LInv)
<1>1. IInv => TInv
  BY DEF IInv
<1>2. TInv /\ LInv /\ [Next]_vars => LInv'
  BY NextLInv
<1> QED BY <1>1, <1>2, InitLInv, AlwaysIInv, PTL DEF Spec

\* A lifecycle row is worked on by one worker at a time, for any number of
\* replicas, whatever fails, as long as its lease did not end under its holder
\* (ClaimLifecycleJobs, ClaimDueVerifyJobs and the places that clear a lease).
THEOREM LeasesExclude == Spec => []LeaseExclusion
<1>1. LInv => LeaseExclusion
  BY DEF LInv
<1> QED BY <1>1, AlwaysLInv, PTL

\* The workers launch at most one AAP job per row, unless its lease lapsed or a
\* fault hit it ("never double-launch", launch and SetLifecycleAAPRef).
THEOREM WorkersLaunchOnce == Spec => []LaunchedOnce
<1>1. LInv => LaunchedOnce
  BY DEF LInv
<1> QED BY <1>1, AlwaysLInv, PTL

\* The outcome of a row whose lease did not lapse is final: no worker, sweep,
\* handler or clock changes it, only the claim callback (SetLifecycleAAPRef
\* writes whatever the row's status is).
THEOREM OutcomesFinal == Spec => OutcomeFinal
<1>1. TInv /\ LInv /\ [Next]_vars =>
        [\A k \in Keys : jobs[k].status \in Terminal /\ k \notin lapsed' =>
           jobs'[k].status = jobs[k].status \/ AttachClaim]_vars
  BY NextLInv DEF Final
<1> QED BY <1>1, AlwaysLInv, PTL DEF Spec, OutcomeFinal
=============================================================================
