------------------------- MODULE LifecycleJobs_proofs -------------------------
(***************************************************************************)
(* Proofs about the durable lifecycle jobs, for any number of keys,        *)
(* workers, launches and faults, any lease length and any backoff table.   *)
(***************************************************************************)
EXTENDS LifecycleJobs, TLAPS

\* The assumptions in one fact.
LEMMA Constants ==
  /\ LeaseTTL \in Nat /\ VerifyTimeout \in Nat \ {0} /\ MaxAge \in Nat \ {0}
  /\ Len(Backoff) \in Nat \ {0}
  /\ \A i \in 1 .. Len(Backoff) : Backoff[i] \in Nat \ {0}
  /\ Backoff[1] <= VerifyTimeout
  /\ Offsets \subseteq Int /\ MaxLaunch \in Nat /\ MaxFaults \in Nat
  /\ NULL \notin Int /\ Ids \subseteq Int
  BY TimeAssumption, OffsetsAssumption, BoundAssumption, NullAssumption DEF Ids

-----------------------------------------------------------------------------
(* The backoff.                                                            *)

\* NextVerifyDelay is a positive delay of the table for every attempt.
LEMMA DelayPositive ==
  ASSUME NEW a \in Int PROVE NextVerifyDelay(a) \in Nat \ {0}
  BY Constants DEF NextVerifyDelay

\* The next probe lies after the present one and not after the deadline, so
\* the "last attempt already over" branch of verifyPending is dead code.
LEMMA NextVerifyAhead ==
  ASSUME NEW now \in Int, NEW a \in Int, NEW timeoutAt \in Int
  PROVE  /\ NextVerifyAt(now, a, timeoutAt).at \in Int
         /\ NextVerifyAt(now, a, timeoutAt).at <= timeoutAt
         /\ now < timeoutAt => NextVerifyAt(now, a, timeoutAt).at > now
  <1>1. NextVerifyDelay(a) \in Nat \ {0}
    BY DelayPositive
  <1> QED
    BY <1>1 DEF NextVerifyAt

-----------------------------------------------------------------------------
(* Type correctness.                                                       *)

\* A worker is in a call whenever its control says so.
CallSet ==
  \A w \in Workers : wk[w].pc \in {"launched", "waiting", "unlock"} => wk[w].call \in Call

TInv == TypeOK /\ CallSet

\* Row k keeps what the properties below read.
Kept(k) == /\ jobs'[k].status = jobs[k].status
           /\ jobs'[k].next = jobs[k].next
           /\ jobs'[k].timeout = jobs[k].timeout
Others(k) == \A j \in Keys \ {k} : Kept(j)
FaultOK == faults' \in 0 .. MaxFaults /\ hurt' \subseteq Keys
rest == <<requests, ctl, inventory, present, outbox, proven, lapsed>>

\* A fault counts up to its bound and marks keys.
LEMMA FaultType ==
  ASSUME TypeOK, NEW ks \in SUBSET Keys, Fault(ks) \/ NoFault
  PROVE  FaultOK
  BY Constants DEF TypeOK, Fault, NoFault, FaultOK

\* UpdateLifecycleStatus with a status and ClearLease.
LEMMA UpdateRow ==
  ASSUME TypeOK, NEW k \in Keys, NEW st \in Status, UpdateLifecycleStatus(k, st)
  PROVE  /\ jobs' \in [Keys -> Job] /\ Others(k)
         /\ jobs'[k].status = st
         /\ jobs'[k].next = jobs[k].next /\ jobs'[k].timeout = jobs[k].timeout
  <1>1. jobs[k] \in Job
    BY DEF TypeOK
  <1>2. [jobs[k] EXCEPT !.status = st, !.lease = NULL] \in Job
    BY <1>1 DEF Job, Time
  <1> QED
    BY <1>1, <1>2 DEF TypeOK, UpdateLifecycleStatus, Others, Kept, Job

\* UpdateLifecycleStatus with ClearLease only.
LEMMA ClearRow ==
  ASSUME TypeOK, NEW k \in Keys, ClearLease(k)
  PROVE  jobs' \in [Keys -> Job] /\ Others(k) /\ Kept(k)
  <1>1. jobs[k] \in Job
    BY DEF TypeOK
  <1>2. [jobs[k] EXCEPT !.lease = NULL] \in Job
    BY <1>1 DEF Job, Time
  <1> QED
    BY <1>1, <1>2 DEF TypeOK, ClearLease, Others, Kept, Job

\* ScheduleNextVerify.
LEMMA ScheduleRow ==
  ASSUME TypeOK, NEW k \in Keys, NEW a \in 0 .. Len(Backoff), NEW n \in Int,
         ScheduleNextVerify(k, a, n)
  PROVE  /\ jobs' \in [Keys -> Job] /\ Others(k)
         /\ jobs'[k].status = "pending_verify" /\ jobs'[k].next = n
         /\ jobs'[k].timeout = jobs[k].timeout
  <1>1. jobs[k] \in Job
    BY DEF TypeOK
  <1>2. [jobs[k] EXCEPT !.status = "pending_verify", !.lease = NULL,
                        !.attempt = a, !.next = n] \in Job
    BY <1>1 DEF Job, Time, Status, InFlight
  <1> QED
    BY <1>1, <1>2 DEF TypeOK, ScheduleNextVerify, Others, Kept, Job

\* SetLifecycleAAPRef.
LEMMA RefRow ==
  ASSUME TypeOK, NEW k \in Keys, NEW i \in Ids \cup {NULL},
         SetLifecycleAAPRef(k, i, "aap_pending")
  PROVE  /\ jobs' \in [Keys -> Job] /\ Others(k)
         /\ jobs'[k].status = "aap_pending"
  <1>1. jobs[k] \in Job
    BY DEF TypeOK
  <1>2. [jobs[k] EXCEPT !.aap = i, !.status = "aap_pending"] \in Job
    BY <1>1 DEF Job, Time, Status, InFlight
  <1> QED
    BY <1>1, <1>2 DEF TypeOK, SetLifecycleAAPRef, Others, Kept, Job

\* A worker moves on.
LEMMA ProceedType ==
  ASSUME TInv, NEW w \in Workers, NEW left \in SUBSET Snapshot,
         NEW evs \in SUBSET Event, Proceed(w, left, evs)
  PROVE  /\ wk' \in [Workers -> Worker] /\ CallSet'
         /\ wk'[w].out = evs
         /\ \A v \in Workers \ {w} : wk'[v] = wk[v]
  <1> DEFINE work  == [wk[w] EXCEPT !.pc = "work", !.todo = left, !.call = NULL, !.out = evs]
             done  == EndOfTick(evs)
             claim == [wk[w] EXCEPT !.pc = "claim", !.due = TRUE, !.todo = {},
                                    !.call = NULL, !.out = evs]
  <1>1. wk[w] \in Worker
    BY DEF TInv, TypeOK
  <1>2. work \in Worker /\ work.pc = "work" /\ work.out = evs
    BY <1>1 DEF Worker
  <1>3. done \in Worker /\ done.pc = "idle" /\ done.out = evs
    BY DEF Worker, EndOfTick
  <1>4. claim \in Worker /\ claim.pc = "claim" /\ claim.out = evs
    BY <1>1 DEF Worker
  <1>5. wk' = [wk EXCEPT ![w] = work] \/ wk' = [wk EXCEPT ![w] = done]
          \/ wk' = [wk EXCEPT ![w] = claim]
    BY DEF Proceed
  <1> HIDE DEF work, done, claim
  <1> QED
    BY <1>2, <1>3, <1>4, <1>5 DEF TInv, TypeOK, CallSet

\* What a worker holds has the type of a row.
LEMMA Held ==
  ASSUME TInv, NEW w \in Workers
  PROVE  /\ wk[w] \in Worker /\ wk[w].todo \subseteq Snapshot /\ wk[w].out \subseteq Event
         /\ \A s \in wk[w].todo : s \in Snapshot /\ s.key \in Keys
         /\ \A s \in wk[w].todo : Left(w, s) \in SUBSET Snapshot
         /\ wk[w].pc \in {"launched", "waiting", "unlock"} =>
              /\ wk[w].call.key \in Keys /\ wk[w].call.id \in Ids
              /\ wk[w].call \in Call
         /\ wk[w].now \in Int
  <1>1. wk[w] \in Worker
    BY DEF TInv, TypeOK
  <1>2. wk[w].todo \subseteq Snapshot /\ wk[w].out \subseteq Event /\ wk[w].now \in Int
    BY <1>1 DEF Worker
  <1>3. \A s \in wk[w].todo : s \in Snapshot /\ s.key \in Keys
    BY <1>2 DEF Snapshot
  <1>4. wk[w].pc \in {"launched", "waiting", "unlock"} => wk[w].call \in Call
    BY <1>1 DEF Worker, TInv, CallSet
  <1> QED
    BY <1>1, <1>2, <1>3, <1>4 DEF Left, Call

\* A statement on one row, made or failed.
LEMMA StmtUpdate ==
  ASSUME TypeOK, NEW k \in Keys, NEW st \in Status, Stmt(UpdateLifecycleStatus(k, st), k)
  PROVE  /\ jobs' \in [Keys -> Job] /\ FaultOK /\ Others(k)
         /\ Kept(k) \/ jobs'[k].status = st
  <1>1. CASE UpdateLifecycleStatus(k, st) /\ NoFault
    BY <1>1, UpdateRow, FaultType DEF Stmt
  <1>2. CASE UNCHANGED jobs /\ Fault({k})
    BY <1>2, FaultType DEF TypeOK, Others, Kept
  <1> QED BY <1>1, <1>2 DEF Stmt

\* The same, for a lease that is given back.
LEMMA StmtClear ==
  ASSUME TypeOK, NEW k \in Keys, Stmt(ClearLease(k), k)
  PROVE  jobs' \in [Keys -> Job] /\ FaultOK /\ Others(k) /\ Kept(k)
  <1>1. CASE ClearLease(k) /\ NoFault
    BY <1>1, ClearRow, FaultType DEF Stmt
  <1>2. CASE UNCHANGED jobs /\ Fault({k})
    BY <1>2, FaultType DEF TypeOK, Others, Kept
  <1> QED BY <1>1, <1>2 DEF Stmt

\* The same, for a probe that is scheduled within the deadline.
LEMMA StmtSchedule ==
  ASSUME TypeOK, NEW k \in Keys, NEW a \in 0 .. Len(Backoff), NEW n \in Int,
         n <= jobs[k].timeout, Stmt(ScheduleNextVerify(k, a, n), k)
  PROVE  /\ jobs' \in [Keys -> Job] /\ FaultOK /\ Others(k)
         /\ Kept(k) \/ (/\ jobs'[k].status = "pending_verify"
                         /\ jobs'[k].next \in Int /\ jobs'[k].next <= jobs'[k].timeout)
  <1>1. CASE ScheduleNextVerify(k, a, n) /\ NoFault
    BY <1>1, ScheduleRow, FaultType DEF Stmt
  <1>2. CASE UNCHANGED jobs /\ Fault({k})
    BY <1>2, FaultType DEF TypeOK, Others, Kept
  <1> QED BY <1>1, <1>2 DEF Stmt

\* enterPendingVerify schedules the first probe within the deadline.
LEMMA StmtEnter ==
  ASSUME TypeOK, NEW k \in Keys, Stmt(enterPendingVerify(k), k)
  PROVE  /\ jobs' \in [Keys -> Job] /\ FaultOK /\ Others(k)
         /\ Kept(k) \/ (/\ jobs'[k].status = "pending_verify"
                         /\ jobs'[k].next \in Int /\ jobs'[k].next <= jobs'[k].timeout)
  <1>1. jobs[k].timeout \in Int
    BY DEF TypeOK, Job
  <1> DEFINE n == NextVerifyAt(0, 1, jobs[k].timeout).at
  <1>2. n \in Int /\ n <= jobs[k].timeout
    BY <1>1, NextVerifyAhead
  <1>3. Stmt(ScheduleNextVerify(k, 0, n), k)
    BY DEF enterPendingVerify
  <1>4. 0 \in 0 .. Len(Backoff)
    BY Constants
  <1> HIDE DEF n
  <1> QED BY <1>2, <1>3, <1>4, StmtSchedule

\* A worker that is done with a row keeps the types.
LEMMA DoneType ==
  ASSUME TInv, NEW w \in Workers, NEW left \in SUBSET Snapshot,
         NEW evs \in SUBSET Event, Proceed(w, left, evs),
         jobs' \in [Keys -> Job], FaultOK, UNCHANGED rest
  PROVE  TInv'
  <1>1. wk' \in [Workers -> Worker] /\ CallSet'
    BY ProceedType
  <1> QED BY <1>1 DEF TInv, TypeOK, FaultOK, rest
-----------------------------------------------------------------------------
(* The inductive invariant.                                                *)

\* A later successor was in the inventory wherever a row is verified or a
\* verified event is written, about to be written or (never) in a request.
Proven ==
  /\ \A k \in Keys : \A n \in inventory[k] : n > 0 => k \in proven
  /\ \A k \in Keys : jobs[k].status = "verified" => k \in proven
  /\ \A k \in Keys : <<k, "renewal.verified">> \in outbox => k \in proven
  /\ \A w \in Workers, k \in Keys : <<k, "renewal.verified">> \in wk[w].out => k \in proven
  /\ \A r \in requests : r.ev # "renewal.verified"

IInv == TInv /\ Proven /\ ProbeScheduled

\* What a step may do to row k while its worker appends the events evs.
RowOK(k, evs) ==
  \/ Kept(k)
  \/ jobs'[k].status \notin {"verified", "timed_out", "pending_verify"}
  \/ /\ jobs'[k].status = "pending_verify"
     /\ jobs'[k].next \in Int /\ jobs'[k].next <= jobs'[k].timeout
  \/ jobs'[k].status = "verified" /\ <<k, "renewal.verified">> \in evs
  \/ jobs'[k].status = "timed_out" /\ <<k, "renewal.timed_out">> \in evs

\* Verified events are appended only for keys with a proven successor.
EventsOK(evs) == \A k \in Keys : <<k, "renewal.verified">> \in evs => k \in proven

\* Any step of one worker that treats every row as RowOK says is safe.
LEMMA WorkerSafe ==
  ASSUME IInv, NEW w \in Workers, NEW evs \in SUBSET Event,
         UNCHANGED <<requests, inventory, outbox, proven>>,
         wk[w].out = {}, wk'[w].out = evs,
         \A v \in Workers \ {w} : wk'[v].out = wk[v].out,
         EventsOK(evs), \A k \in Keys : RowOK(k, evs)
  PROVE  Proven' /\ ProbeScheduled'
  <1> USE DEF IInv
  <1>1. \A k \in Keys : jobs'[k].status = "verified" => k \in proven
    BY DEF Proven, EventsOK, RowOK, Kept
  <1>2. Proven'
    BY <1>1 DEF Proven, EventsOK
  <1>3. ProbeScheduled'
    <2> SUFFICES ASSUME NEW k \in Keys, jobs'[k].status = "pending_verify"
                 PROVE  jobs'[k].next # NULL /\ jobs'[k].next <= jobs'[k].timeout
      BY DEF ProbeScheduled
    <2> QED BY Constants DEF ProbeScheduled, RowOK, Kept
  <1> QED BY <1>2, <1>3

\* The usual end of a worker step: one row k was treated, the worker moves on.
LEMMA DoneSafe ==
  ASSUME IInv, NEW w \in Workers, NEW left \in SUBSET Snapshot, NEW evs \in SUBSET Event,
         Proceed(w, left, evs), wk[w].out = {}, EventsOK(evs),
         NEW k \in Keys, Others(k), RowOK(k, evs),
         jobs' \in [Keys -> Job], FaultOK, UNCHANGED rest
  PROVE  IInv'
  <1>1. TInv'
    BY DoneType DEF IInv
  <1>2. wk'[w].out = evs /\ \A v \in Workers \ {w} : wk'[v] = wk[v]
    BY ProceedType DEF IInv
  <1>3. \A j \in Keys : RowOK(j, evs)
    BY DEF RowOK, Others
  <1>4. Proven' /\ ProbeScheduled'
    BY <1>2, <1>3, WorkerSafe DEF rest
  <1> QED BY <1>1, <1>4 DEF IInv

\* The initial states satisfy the invariant, with and without a legacy row.
LEMMA InitIInv == Init => IInv
<1> SUFFICES ASSUME Init PROVE IInv
  OBVIOUS
<1>1. NoJob \in Job
  BY Constants DEF NoJob, Job, Time, Status
<1>2. \A st \in {"verifying", "aap_successful"} : 1 \in Ids =>
        LegacyRow(st) \in Job /\ LegacyRow(st).status = st
  BY <1>1, Constants DEF LegacyRow, NoJob, Job, Time, Status, InFlight
<1>3. NoAapJob \in AapJob
  BY DEF NoAapJob, AapJob
<1>4. IdleWorker \in Worker /\ IdleWorker.pc = "idle" /\ IdleWorker.out = {}
  BY DEF IdleWorker, EndOfTick, Worker
<1>5. /\ wk = [w \in Workers |-> IdleWorker] /\ requests = {}
      /\ inventory = [k \in Keys |-> {}] /\ present = [k \in Keys |-> TRUE]
      /\ faults = 0 /\ proven = {} /\ lapsed = {} /\ hurt = {}
  BY DEF Init
<1> DEFINE Tables ==
      /\ jobs \in [Keys -> Job] /\ ctl \in [Ids -> AapJob] /\ outbox \subseteq Event
      /\ \A k \in Keys : /\ jobs[k].status \notin {"verified", "timed_out", "pending_verify"}
                         /\ <<k, "renewal.verified">> \notin outbox
<1>6. Tables
  <2>1. CASE /\ jobs = [k \in Keys |-> NoJob] /\ ctl = [i \in Ids |-> NoAapJob]
             /\ outbox = {}
    BY <2>1, <1>1, <1>3 DEF NoJob
  <2>2. ASSUME NEW k \in RenewKeys, NEW st \in {"verifying", "aap_successful"},
               1 \in Ids,
               jobs = [[j \in Keys |-> NoJob] EXCEPT ![k] = LegacyRow(st)],
               ctl = [[i \in Ids |-> NoAapJob] EXCEPT
                        ![1] = [key |-> k, by |-> "api", st |-> "successful"]],
               outbox = {<<k, "renewal.launched">>}
        PROVE  Tables
    <3>1. k \in Keys /\ LegacyRow(st) \in Job /\ LegacyRow(st).status = st
      BY <2>2, <1>2 DEF Keys
    <3>2. jobs \in [Keys -> Job]
             /\ \A j \in Keys : jobs[j].status \notin {"verified", "timed_out", "pending_verify"}
      BY <2>2, <3>1, <1>1 DEF NoJob
    <3>3. [key |-> k, by |-> "api", st |-> "successful"] \in AapJob
      BY <3>1 DEF AapJob
    <3> QED BY <2>2, <3>1, <3>2, <3>3, <1>3 DEF Event, EventTypes
  <2>3. \/ /\ jobs = [k \in Keys |-> NoJob] /\ ctl = [i \in Ids |-> NoAapJob]
           /\ outbox = {}
        \/ \E k \in RenewKeys, st \in {"verifying", "aap_successful"} :
             /\ 1 \in Ids
             /\ jobs = [[j \in Keys |-> NoJob] EXCEPT ![k] = LegacyRow(st)]
             /\ ctl = [[i \in Ids |-> NoAapJob] EXCEPT
                         ![1] = [key |-> k, by |-> "api", st |-> "successful"]]
             /\ outbox = {<<k, "renewal.launched">>}
    BY Zenon DEF Init
  <2> HIDE DEF Tables
  <2> QED BY <2>1, <2>2, <2>3, Zenon
<1>7. TInv
  BY <1>4, <1>5, <1>6, Constants DEF TInv, TypeOK, CallSet
<1> QED
  BY <1>4, <1>5, <1>6, <1>7 DEF IInv, Proven, ProbeScheduled

\* Rows that a worker closes with Close.
LEMMA CloseSafe ==
  ASSUME IInv, NEW w \in Workers, NEW s \in wk[w].todo, wk[w].out = {},
         NEW st \in Terminal \cup {"aap_pending"}, NEW evs \in SUBSET EventTypes,
         Close(w, s, st, evs),
         st = "timed_out" => "renewal.timed_out" \in evs,
         st = "verified" => "renewal.verified" \in evs,
         "renewal.verified" \in evs => s.key \in proven
  PROVE  IInv'
  <1>1. s.key \in Keys /\ Left(w, s) \in SUBSET Snapshot
    BY Held DEF IInv
  <1> DEFINE k == s.key
             es == {k} \X evs
  <1>2. es \in SUBSET Event /\ EventsOK(es)
    BY <1>1 DEF Event, EventsOK
  <1>3. st \in Status
    BY DEF Status, Terminal, InFlight
  <1>4. /\ jobs' \in [Keys -> Job] /\ FaultOK /\ Others(k)
        /\ Kept(k) \/ jobs'[k].status = st
    BY <1>1, <1>3, StmtUpdate DEF Close, IInv, TInv
  <1>5. RowOK(k, es)
    BY <1>4 DEF RowOK, Terminal
  <1>6. Proceed(w, Left(w, s), es) /\ UNCHANGED rest
    BY DEF Close, rest
  <1> HIDE DEF k, es
  <1>7. k \in Keys
    BY <1>1 DEF k
  <1> QED BY <1>1, <1>2, <1>4, <1>5, <1>6, <1>7, DoneSafe

\* Steps of a worker that end with its row: the rows that are closed.
LEMMA ClosingSafe ==
  ASSUME IInv, NEW w \in Workers,
         FailUnexpected(w) \/ ProbeTooLate(w) \/ ProbeVerifies(w)
  PROVE  IInv'
  <1>1. CASE FailUnexpected(w)
    <2> PICK s \in wk[w].todo : Work(w, s) /\ Close(w, s, "failed", {})
      BY <1>1 DEF FailUnexpected
    <2> QED BY CloseSafe DEF Work, Ready, Terminal
  <1>2. CASE ProbeTooLate(w)
    <2> PICK s \in wk[w].todo : MayProbe(w, s) /\ Close(w, s, "timed_out", {"renewal.timed_out"})
      BY <1>2 DEF ProbeTooLate
    <2> QED BY CloseSafe DEF MayProbe, Work, Ready, Terminal, EventTypes
  <1>3. CASE ProbeVerifies(w)
    <2> PICK s \in wk[w].todo : /\ MayProbe(w, s) /\ VerifyWire(observeSuccessor(s.key))
                               /\ Close(w, s, "verified", {"renewal.verified"})
      BY <1>3 DEF ProbeVerifies
    <2>1. s.key \in Keys
      BY Held DEF IInv
    <2>2. s.key \in proven
      BY <2>1 DEF VerifyWire, observeSuccessor, IInv, Proven
    <2> QED BY <2>2, CloseSafe DEF MayProbe, Work, Ready, Terminal, EventTypes
  <1> QED BY <1>1, <1>2, <1>3

\* Steps of a worker that end with its row: the rows that stay open, and the
\* launches and waits that fail.
LEMMA RowSafe ==
  ASSUME IInv, NEW w \in Workers,
         \/ UnlockLaunched(w) \/ WaitSuccessful(w) \/ WaitFailed(w) \/ WaitGivesUp(w)
         \/ EnterVerify(w) \/ NotYetDue(w) \/ ProbeMisses(w) \/ GiveUpRow(w)
  PROVE  IInv'
  <1>0. /\ {} \in SUBSET Event /\ EventsOK({}) /\ TInv /\ TypeOK
        /\ wk[w].todo \in SUBSET Snapshot
    BY Held DEF EventsOK, IInv, TInv
  <1>1. CASE UnlockLaunched(w)
    <2> PICK k \in Keys : k = wk[w].call.key
      BY <1>0, <1>1, Held DEF UnlockLaunched, Ready
    <2>1. /\ Stmt(ClearLease(k), k) /\ Proceed(w, wk[w].todo, {}) /\ UNCHANGED rest
          /\ wk[w].out = {}
      BY <1>1 DEF UnlockLaunched, Ready, rest
    <2>2. jobs' \in [Keys -> Job] /\ FaultOK /\ Others(k) /\ RowOK(k, {})
      BY <1>0, <2>1, StmtClear DEF RowOK
    <2> QED BY <1>0, <2>1, <2>2, DoneSafe
  <1>2. CASE WaitSuccessful(w)
    <2> PICK k \in Keys : k = wk[w].call.key
      BY <1>0, <1>2, Held DEF WaitSuccessful, Ready
    <2>1. /\ Stmt(enterPendingVerify(k), k) /\ Proceed(w, wk[w].todo, {}) /\ UNCHANGED rest
          /\ wk[w].out = {}
      BY <1>2 DEF WaitSuccessful, Ready, rest
    <2>2. jobs' \in [Keys -> Job] /\ FaultOK /\ Others(k) /\ RowOK(k, {})
      BY <1>0, <2>1, StmtEnter DEF RowOK
    <2> QED BY <1>0, <2>1, <2>2, DoneSafe
  <1>3. CASE WaitFailed(w)
    <2> PICK k \in Keys : k = wk[w].call.key
      BY <1>0, <1>3, Held DEF WaitFailed, Ready
    <2> DEFINE es == {<<k, "renewal.failed">>}
    <2>1. /\ Stmt(UpdateLifecycleStatus(k, "failed"), k) /\ Proceed(w, wk[w].todo, es)
          /\ UNCHANGED rest /\ wk[w].out = {}
      BY <1>3 DEF WaitFailed, Ready, rest
    <2>2. jobs' \in [Keys -> Job] /\ FaultOK /\ Others(k) /\ RowOK(k, es)
      BY <1>0, <2>1, StmtUpdate DEF RowOK, Status, Terminal
    <2>3. es \in SUBSET Event /\ EventsOK(es)
      BY DEF Event, EventTypes, EventsOK
    <2> HIDE DEF es
    <2> QED BY <1>0, <2>1, <2>2, <2>3, DoneSafe
  <1>4. CASE WaitGivesUp(w)
    <2> PICK k \in Keys : k = wk[w].call.key
      BY <1>0, <1>4, Held DEF WaitGivesUp, Ready
    <2>1. /\ ClearLease(k) \/ UNCHANGED jobs
          /\ Proceed(w, wk[w].todo, {}) /\ UNCHANGED rest
          /\ wk[w].out = {} /\ (NoFault \/ Fault({k}))
      BY <1>4 DEF WaitGivesUp, Ready, rest
    <2>2. jobs' \in [Keys -> Job] /\ FaultOK /\ Others(k) /\ RowOK(k, {})
      <3>1. FaultOK
        BY <1>0, <2>1, FaultType
      <3>2. CASE ClearLease(k)
        BY <1>0, <3>1, <3>2, ClearRow DEF RowOK
      <3>3. CASE UNCHANGED jobs
        BY <1>0, <3>1, <3>3 DEF RowOK, TypeOK, Others, Kept
      <3> QED BY <2>1, <3>2, <3>3
    <2> QED BY <1>0, <2>1, <2>2, DoneSafe
  <1>5. CASE EnterVerify(w)
    <2> PICK s \in wk[w].todo : /\ Stmt(enterPendingVerify(s.key), s.key) /\ wk[w].out = {}
                               /\ Proceed(w, Left(w, s), {}) /\ UNCHANGED rest
      BY <1>5 DEF EnterVerify, Work, Ready, rest
    <2> PICK k \in Keys : k = s.key
      BY <1>0, Held
    <2>1. jobs' \in [Keys -> Job] /\ FaultOK /\ Others(k) /\ RowOK(k, {})
      BY <1>0, StmtEnter DEF RowOK
    <2>2. Left(w, s) \in SUBSET Snapshot
      BY <1>0, Held
    <2> QED BY <1>0, <2>1, <2>2, DoneSafe
  <1>6. CASE NotYetDue(w)
    <2> PICK s \in wk[w].todo : /\ Stmt(ClearLease(s.key), s.key) /\ wk[w].out = {}
                               /\ Proceed(w, Left(w, s), {}) /\ UNCHANGED rest
      BY <1>6 DEF NotYetDue, Work, Ready, rest
    <2> PICK k \in Keys : k = s.key
      BY <1>0, Held
    <2>1. jobs' \in [Keys -> Job] /\ FaultOK /\ Others(k) /\ RowOK(k, {})
      BY <1>0, StmtClear DEF RowOK
    <2>2. Left(w, s) \in SUBSET Snapshot
      BY <1>0, Held
    <2> QED BY <1>0, <2>1, <2>2, DoneSafe
  <1>7. CASE ProbeMisses(w)
    <2> DEFINE att(s) == IF s.attempt < Len(Backoff) THEN s.attempt + 1 ELSE Len(Backoff)
               at(s) == NextVerifyAt(ProbeNow(w), att(s), jobs[s.key].timeout).at
    <2> PICK s \in wk[w].todo :
          /\ Stmt(ScheduleNextVerify(s.key, att(s), at(s)), s.key) /\ wk[w].out = {}
          /\ Proceed(w, Left(w, s), {}) /\ UNCHANGED rest
      BY <1>7 DEF ProbeMisses, MayProbe, Work, Ready, rest
    <2> PICK k \in Keys : k = s.key
      BY <1>0, Held
    <2>1. s.attempt \in 0 .. Len(Backoff)
      BY <1>0, Held DEF Snapshot
    <2>2. att(s) \in 0 .. Len(Backoff)
      BY <2>1, Constants
    <2>3. ProbeNow(w) \in Int /\ jobs[k].timeout \in Int
      BY <1>0, Held DEF ProbeNow, TypeOK, Job
    <2>4. at(s) \in Int /\ at(s) <= jobs[k].timeout
      <3>1. att(s) \in Int
        BY <2>2, Constants
      <3> HIDE DEF att
      <3> QED BY <2>3, <3>1, NextVerifyAhead
    <2> HIDE DEF att, at
    <2>5. jobs' \in [Keys -> Job] /\ FaultOK /\ Others(k) /\ RowOK(k, {})
      BY <1>0, <2>2, <2>4, StmtSchedule DEF RowOK
    <2>6. Left(w, s) \in SUBSET Snapshot
      BY <1>0, Held
    <2> QED BY <1>0, <2>5, <2>6, DoneSafe
  <1>8. CASE GiveUpRow(w)
    <2> PICK s \in wk[w].todo : /\ UNCHANGED jobs /\ (NoFault \/ Fault({s.key}))
                               /\ wk[w].out = {}
                               /\ Proceed(w, Left(w, s), {}) /\ UNCHANGED rest
      BY <1>8 DEF GiveUpRow, MayLaunch, MayProbe, Work, Ready, rest
    <2> PICK k \in Keys : k = s.key
      BY <1>0, Held
    <2>1. jobs' \in [Keys -> Job] /\ FaultOK /\ Others(k) /\ RowOK(k, {})
      BY <1>0, FaultType DEF RowOK, Others, Kept, TypeOK
    <2>2. Left(w, s) \in SUBSET Snapshot
      BY <1>0, Held
    <2> QED BY <1>0, <2>1, <2>2, DoneSafe
  <1> QED BY <1>1, <1>2, <1>3, <1>4, <1>5, <1>6, <1>7, <1>8

\* The controller's table keeps its type when it accepts a launch.
LEMMA LaunchType ==
  ASSUME TypeOK, NEW i \in Ids, NEW k \in Keys, NEW by \in {"api", "worker", "eda"},
         LaunchAAP(i, k, by)
  PROVE  ctl' \in [Ids -> AapJob]
  BY DEF TypeOK, LaunchAAP, AapJob

\* A worker step that writes neither rows nor events: only worker w, with the
\* new local state x, and the controller change.
LEMMA LocalSafe ==
  ASSUME IInv, NEW w \in Workers, NEW x \in Worker, wk' = [wk EXCEPT ![w] = x],
         x.out = {}, wk[w].out = {}, ctl' \in [Ids -> AapJob], FaultOK,
         x.pc \in {"launched", "waiting", "unlock"} => x.call \in Call,
         UNCHANGED <<jobs, requests, inventory, present, outbox, proven, lapsed>>
  PROVE  IInv'
  <1>1. /\ wk' \in [Workers -> Worker] /\ wk'[w] = x
        /\ \A v \in Workers \ {w} : wk'[v] = wk[v]
    BY DEF IInv, TInv, TypeOK
  <1>2. TInv'
    BY <1>1 DEF IInv, TInv, TypeOK, CallSet, FaultOK
  <1>3. EventsOK({}) /\ \A k \in Keys : RowOK(k, {})
    BY DEF EventsOK, RowOK, Kept
  <1>4. Proven' /\ ProbeScheduled'
    BY <1>1, <1>3, WorkerSafe
  <1> QED BY <1>2, <1>4 DEF IInv

\* A worker enters a call.
LEMMA CallingSafe ==
  ASSUME IInv, NEW w \in Workers, NEW s \in wk[w].todo, NEW i \in Ids, NEW u \in Int,
         NEW pc \in {"launched", "waiting"}, Calling(w, pc, s, i, u), wk[w].out = {},
         ctl' \in [Ids -> AapJob],
         UNCHANGED <<jobs, requests, inventory, present, outbox, faults, proven,
                     lapsed, hurt>>
  PROVE  IInv'
  <1> DEFINE c == [key |-> s.key, id |-> i, until |-> u]
             x == [wk[w] EXCEPT !.pc = pc, !.todo = Left(w, s), !.call = c]
  <1>1. wk[w] \in Worker /\ s.key \in Keys /\ Left(w, s) \in SUBSET Snapshot
    BY Held DEF IInv
  <1>2. c \in Call
    BY <1>1 DEF Call
  <1>3. x \in Worker /\ x.pc = pc /\ x.out = {} /\ x.call = c
    BY <1>1, <1>2 DEF Worker
  <1>4. wk' = [wk EXCEPT ![w] = x] /\ FaultOK
    BY DEF Calling, FaultOK, IInv, TInv, TypeOK
  <1> HIDE DEF c, x
  <1> QED BY <1>2, <1>3, <1>4, LocalSafe

\* The launch and the wait.
LEMMA CallsSafe ==
  ASSUME IInv, NEW w \in Workers,
         LaunchRenewal(w) \/ LaunchFails(w) \/ RecordLaunch(w) \/ StartWait(w)
  PROVE  IInv'
  <1>0. TInv /\ TypeOK /\ wk[w].todo \in SUBSET Snapshot
    BY Held DEF IInv, TInv
  <1>1. CASE LaunchRenewal(w)
    <2> PICK s \in wk[w].todo, i \in Ids :
          /\ MayLaunch(w, s) /\ LaunchAAP(i, s.key, "worker") /\ Calling(w, "launched", s, i, 0)
          /\ UNCHANGED <<jobs, requests, inventory, present, outbox, faults, proven,
                         lapsed, hurt>>
      BY <1>1 DEF LaunchRenewal
    <2>1. ctl' \in [Ids -> AapJob]
      BY <1>0, Held, LaunchType
    <2> QED BY <2>1, CallingSafe DEF MayLaunch, Work, Ready
  <1>2. CASE StartWait(w)
    <2> PICK s \in wk[w].todo :
          /\ Work(w, s) /\ s.aap # NULL /\ Calling(w, "waiting", s, s.aap, LeaseTTL)
          /\ UNCHANGED <<jobs, requests, ctl, inventory, present, outbox, faults, proven,
                         lapsed, hurt>>
      BY <1>2 DEF StartWait
    <2>1. s.aap \in Ids
      BY <1>0, Held DEF Snapshot
    <2>2. ctl' \in [Ids -> AapJob] /\ LeaseTTL \in Int
      BY <1>0, Constants DEF TypeOK
    <2> QED BY <2>1, <2>2, CallingSafe DEF Work, Ready
  <1>3. CASE LaunchFails(w)
    <2> DEFINE es(s) == {<<s.key, "renewal.failed">>}
    <2> PICK s \in wk[w].todo :
          /\ MayLaunch(w, s)
          /\ \/ UNCHANGED ctl /\ Stmt(UpdateLifecycleStatus(s.key, "failed"), s.key)
             \/ /\ \E i \in Ids : LaunchAAP(i, s.key, "worker")
                /\ UpdateLifecycleStatus(s.key, "failed") /\ Fault({s.key})
          /\ Proceed(w, Left(w, s), es(s))
          /\ UNCHANGED <<requests, inventory, present, outbox, proven, lapsed>>
      BY <1>3 DEF LaunchFails
    <2> PICK k \in Keys : k = s.key
      BY <1>0, Held
    <2>1. ctl' \in [Ids -> AapJob]
      BY <1>0, LaunchType DEF TypeOK
    <2>2. /\ jobs' \in [Keys -> Job] /\ FaultOK /\ Others(k)
          /\ Kept(k) \/ jobs'[k].status = "failed"
      BY <1>0, StmtUpdate, UpdateRow, FaultType DEF Status, Terminal
    <2>3. es(s) \in SUBSET Event /\ EventsOK(es(s)) /\ Left(w, s) \in SUBSET Snapshot
      BY <1>0, Held DEF Event, EventTypes, EventsOK
    <2> HIDE DEF es
    <2>4. /\ wk' \in [Workers -> Worker] /\ CallSet' /\ wk'[w].out = es(s)
          /\ \A v \in Workers \ {w} : wk'[v] = wk[v]
      BY <1>0, <2>3, ProceedType
    <2>5. TInv'
      BY <1>0, <2>1, <2>2, <2>4 DEF TInv, TypeOK, FaultOK
    <2>6. \A j \in Keys : RowOK(j, es(s))
      BY <2>2 DEF RowOK, Others
    <2>7. wk[w].out = {}
      BY DEF MayLaunch, Work, Ready
    <2>8. Proven' /\ ProbeScheduled'
      BY <2>3, <2>4, <2>6, <2>7, WorkerSafe
    <2> QED BY <2>5, <2>8 DEF IInv
  <1>4. CASE RecordLaunch(w)
    <2> PICK k \in Keys : k = wk[w].call.key
      BY <1>0, <1>4, Held DEF RecordLaunch, Ready
    <2>1. wk[w].pc = "launched" /\ wk[w].out = {} /\ UNCHANGED rest
      BY <1>4 DEF RecordLaunch, Ready, rest
    <2>2. CASE UNCHANGED jobs /\ Fault({k}) /\ Proceed(w, wk[w].todo, {})
      <3>1. jobs' \in [Keys -> Job] /\ FaultOK /\ Others(k) /\ RowOK(k, {})
        BY <1>0, <2>2, FaultType DEF RowOK, Others, Kept, TypeOK
      <3>2. {} \in SUBSET Event /\ EventsOK({})
        BY DEF EventsOK
      <3> QED BY <1>0, <2>1, <2>2, <3>1, <3>2, DoneSafe
    <2>3. ASSUME SetLifecycleAAPRef(k, wk[w].call.id, "aap_pending"), NoFault,
                 wk' = [wk EXCEPT ![w] = [@ EXCEPT !.pc = "unlock",
                                                   !.out = {<<k, "renewal.launched">>}]]
          PROVE  IInv'
      <3> DEFINE es == {<<k, "renewal.launched">>}
                 x == [wk[w] EXCEPT !.pc = "unlock", !.out = es]
      <3>1. /\ jobs' \in [Keys -> Job] /\ Others(k) /\ jobs'[k].status = "aap_pending"
            /\ FaultOK
        BY <1>0, <2>1, <2>3, Held, RefRow, FaultType
      <3>2. es \in SUBSET Event /\ EventsOK(es)
        BY DEF Event, EventTypes, EventsOK
      <3>3. x \in Worker /\ x.out = es /\ x.call \in Call
        BY <1>0, <2>1, <3>2, Held DEF Worker
      <3>4. wk' = [wk EXCEPT ![w] = x]
        BY <2>3
      <3> HIDE DEF es, x
      <3>5. /\ wk' \in [Workers -> Worker] /\ CallSet' /\ wk'[w].out = es
            /\ \A v \in Workers \ {w} : wk'[v] = wk[v]
        BY <1>0, <3>3, <3>4 DEF TInv, TypeOK, CallSet
      <3>6. TInv'
        BY <1>0, <2>1, <3>1, <3>5 DEF TInv, TypeOK, FaultOK, rest
      <3>7. \A j \in Keys : RowOK(j, es)
        BY <3>1 DEF RowOK, Others
      <3>8. Proven' /\ ProbeScheduled'
        BY <2>1, <3>2, <3>5, <3>7, WorkerSafe DEF rest
      <3> QED BY <3>6, <3>8 DEF IInv
    <2> QED BY <1>4, <2>2, <2>3 DEF RecordLaunch
  <1> QED BY <1>1, <1>2, <1>3, <1>4

\* A claim leases rows and leaves everything else of them alone.
LEMMA ClaimSafe ==
  ASSUME IInv, NEW w \in Workers, NEW ks \in SUBSET Keys, NEW expires \in Int,
         Claim(w, ks, expires), wk[w].out = {}, wk[w].pc = "claim"
  PROVE  IInv'
  <1>0. TInv /\ TypeOK /\ wk[w] \in Worker
    BY Held DEF IInv, TInv
  <1>1. /\ jobs' \in [Keys -> Job] /\ \A k \in Keys : Kept(k)
    <2>1. \A k \in Keys : [jobs[k] EXCEPT !.lease = expires] \in Job
      BY <1>0 DEF TypeOK, Job, Time
    <2>2. jobs' = [k \in Keys |-> IF k \in ks THEN [jobs[k] EXCEPT !.lease = expires]
                                             ELSE jobs[k]]
      BY DEF Claim
    <2>3. jobs' \in [Keys -> Job]
      BY <1>0, <2>1, <2>2 DEF TypeOK
    <2>4. ASSUME NEW k \in Keys PROVE Kept(k)
      <3>1. jobs[k] \in Job
        BY <1>0 DEF TypeOK
      <3> QED BY <2>2, <3>1 DEF Kept, Job
    <2> QED BY <2>3, <2>4
  <1>2. /\ wk' \in [Workers -> Worker] /\ CallSet' /\ wk'[w].out = {}
        /\ \A v \in Workers \ {w} : wk'[v] = wk[v]
    <2>1. CASE ks = {}
      BY <1>0, <2>1, ProceedType DEF Claim
    <2>2. CASE ks # {}
      <3> DEFINE x == [wk[w] EXCEPT !.pc = "read", !.ids = ks]
      <3>1. x \in Worker /\ x.out = {} /\ x.pc = "read"
        BY <1>0 DEF Worker
      <3>2. wk' = [wk EXCEPT ![w] = x]
        BY <2>2 DEF Claim
      <3> HIDE DEF x
      <3> QED BY <1>0, <3>1, <3>2 DEF TInv, TypeOK, CallSet
    <2> QED BY <2>1, <2>2
  <1>3. UNCHANGED <<requests, ctl, inventory, present, outbox, faults, proven, hurt>>
           /\ lapsed' \subseteq Keys
    BY <1>0 DEF Claim, TypeOK
  <1>4. TInv'
    BY <1>0, <1>1, <1>2, <1>3 DEF TInv, TypeOK
  <1>5. EventsOK({}) /\ \A k \in Keys : RowOK(k, {})
    BY <1>1 DEF EventsOK, RowOK
  <1>6. Proven' /\ ProbeScheduled'
    BY <1>2, <1>3, <1>5, WorkerSafe
  <1> QED BY <1>4, <1>6 DEF IInv

\* The steps of a tick around the rows: sweep, claims, reads, aborts.
LEMMA TickSafe ==
  ASSUME IInv, NEW w \in Workers,
         \/ StartTick(w) \/ ClaimLifecycleJobs(w) \/ ClaimDueVerifyJobs(w)
         \/ ReadClaimed(w) \/ AbortTick(w)
  PROVE  IInv'
  <1>0. TInv /\ TypeOK /\ wk[w] \in Worker /\ wk[w].now \in Int /\ LeaseTTL \in Int
    BY Held, Constants DEF IInv, TInv
  <1>1. CASE StartTick(w)
    <2> PICK swept \in {Overdue, {}} :
          /\ Ready(w, "idle") /\ (NoFault \/ Fault({}))
          /\ jobs' = [k \in Keys |-> IF k \in swept
                        THEN [jobs[k] EXCEPT !.status = "timed_out", !.lease = NULL]
                        ELSE jobs[k]]
          /\ wk' = [wk EXCEPT ![w] = [@ EXCEPT !.pc = "claim",
                                               !.out = swept \X {"renewal.timed_out"}]]
          /\ lapsed' = lapsed \cup {k \in swept : \E v \in Workers : Holds(v, k)}
          /\ UNCHANGED <<requests, ctl, inventory, present, outbox, proven>>
      BY <1>1 DEF StartTick
    <2> DEFINE es == swept \X {"renewal.timed_out"}
               x == [wk[w] EXCEPT !.pc = "claim", !.out = es]
    <2>1. swept \subseteq Keys /\ FaultOK
      BY <1>0, FaultType DEF Overdue
    <2>2. es \in SUBSET Event /\ EventsOK(es)
      BY <2>1 DEF Event, EventTypes, EventsOK
    <2>3. x \in Worker /\ x.out = es /\ x.pc = "claim"
      BY <1>0, <2>2 DEF Worker
    <2>4. /\ wk' \in [Workers -> Worker] /\ CallSet' /\ wk'[w].out = es
          /\ \A v \in Workers \ {w} : wk'[v] = wk[v]
      <3>1. wk' = [wk EXCEPT ![w] = x]
        OBVIOUS
      <3> HIDE DEF x, es
      <3> QED BY <1>0, <2>3, <3>1 DEF TInv, TypeOK, CallSet
    <2>5. jobs' \in [Keys -> Job]
      <3>1. \A k \in Keys : [jobs[k] EXCEPT !.status = "timed_out", !.lease = NULL] \in Job
        BY <1>0 DEF TypeOK, Job, Time, Status, Terminal
      <3> QED BY <1>0, <3>1 DEF TypeOK
    <2>6. ASSUME NEW k \in Keys PROVE RowOK(k, es)
      <3>1. jobs[k] \in Job
        BY <1>0 DEF TypeOK
      <3>2. CASE k \in swept
        <4>1. jobs'[k].status = "timed_out"
          BY <3>1, <3>2 DEF Job
        <4>2. <<k, "renewal.timed_out">> \in es
          BY <3>2
        <4> QED BY <4>1, <4>2 DEF RowOK
      <3>3. CASE k \notin swept
        BY <3>3 DEF RowOK, Kept
      <3> QED BY <3>2, <3>3
    <2>7. TInv'
      BY <1>0, <2>1, <2>4, <2>5 DEF TInv, TypeOK, FaultOK
    <2>8. wk[w].out = {}
      BY DEF Ready
    <2> HIDE DEF es, x
    <2>9. Proven' /\ ProbeScheduled'
      BY <2>2, <2>4, <2>6, <2>8, WorkerSafe
    <2> QED BY <2>7, <2>9 DEF IInv
  <1>2. CASE ClaimLifecycleJobs(w)
    <2> DEFINE ks == {k \in Keys : jobs[k].status \in InFlight /\ LeaseFree(k, 0)}
    <2>1. Claim(w, ks, LeaseTTL) /\ wk[w].out = {} /\ wk[w].pc = "claim"
      BY <1>2 DEF ClaimLifecycleJobs, Ready
    <2> QED BY <1>0, <2>1, ClaimSafe
  <1>3. CASE ClaimDueVerifyJobs(w)
    <2> DEFINE ks == {k \in Keys : /\ jobs[k].status = "pending_verify"
                                   /\ jobs[k].next # NULL /\ jobs[k].next <= wk[w].now
                                   /\ jobs[k].timeout > wk[w].now
                                   /\ LeaseFree(k, wk[w].now)}
    <2>1. Claim(w, ks, wk[w].now + LeaseTTL) /\ wk[w].out = {} /\ wk[w].pc = "claim"
      BY <1>3 DEF ClaimDueVerifyJobs, Ready
    <2>2. wk[w].now + LeaseTTL \in Int
      BY <1>0
    <2> QED BY <2>1, <2>2, ClaimSafe
  <1>4. CASE ReadClaimed(w)
    <2> DEFINE x(k) == [wk[w] EXCEPT !.ids = wk[w].ids \ {k},
                          !.todo = wk[w].todo \cup {GetLifecycleJob(k)},
                          !.pc = IF wk[w].ids = {k} THEN "work" ELSE "read"]
    <2> PICK k \in wk[w].ids : wk' = [wk EXCEPT ![w] = x(k)]
      BY <1>4 DEF ReadClaimed
    <2>1. k \in Keys
      BY <1>0 DEF Worker
    <2>2. GetLifecycleJob(k) \in Snapshot
      <3>1. jobs[k] \in Job /\ present[k] \in BOOLEAN
        BY <1>0, <2>1 DEF TypeOK
      <3> QED BY <2>1, <3>1 DEF GetLifecycleJob, Snapshot, Job
    <2>3. wk[w].out = {} /\ wk[w].pc = "read" /\ FaultOK /\ ctl' \in [Ids -> AapJob]
          /\ UNCHANGED <<jobs, requests, inventory, present, outbox, proven, lapsed>>
      BY <1>0, <1>4 DEF ReadClaimed, Ready, FaultOK, TypeOK
    <2>4. x(k) \in Worker /\ x(k).out = {} /\ x(k).pc \in {"work", "read"}
      BY <1>0, <2>2, <2>3 DEF Worker
    <2> HIDE DEF x
    <2> QED BY <2>3, <2>4, LocalSafe
  <1>5. CASE AbortTick(w)
    <2>1. /\ wk[w].out = {} /\ FaultOK /\ ctl' \in [Ids -> AapJob]
          /\ UNCHANGED <<jobs, requests, inventory, present, outbox, proven, lapsed>>
          /\ wk' = [wk EXCEPT ![w] = IdleWorker]
      BY <1>0, <1>5, FaultType DEF AbortTick, Ready, TypeOK
    <2>2. IdleWorker \in Worker /\ IdleWorker.out = {} /\ IdleWorker.pc = "idle"
      BY DEF IdleWorker, EndOfTick, Worker
    <2> QED BY <2>1, <2>2, LocalSafe
  <1> QED BY <1>1, <1>2, <1>3, <1>4, <1>5

\* Writing events, or losing them with their worker, breaks nothing: a verified
\* event in the outbox was one of a worker's.
LEMMA EventsSafe ==
  ASSUME IInv, NEW w \in Workers, EmitEvents(w) \/ Crash(w)
  PROVE  IInv'
  <1>0. TInv /\ TypeOK /\ wk[w] \in Worker /\ wk[w].out \subseteq Event
    BY Held DEF IInv, TInv
  <1>1. \E x \in Worker : /\ wk' = [wk EXCEPT ![w] = x] /\ x.out = {}
                          /\ x.pc \in {"launched", "waiting", "unlock"} => x.call \in Call
    <2>1. CASE EmitEvents(w)
      <3> DEFINE x == [wk[w] EXCEPT !.out = {}]
      <3>1. x \in Worker /\ x.out = {} /\ x.pc = wk[w].pc /\ x.call = wk[w].call
        BY <1>0 DEF Worker
      <3>2. wk' = [wk EXCEPT ![w] = x]
        BY <2>1 DEF EmitEvents
      <3> HIDE DEF x
      <3> QED BY <1>0, <3>1, <3>2 DEF TInv, CallSet
    <2>2. CASE Crash(w)
      <3>1. IdleWorker \in Worker /\ IdleWorker.out = {} /\ IdleWorker.pc = "idle"
        BY DEF IdleWorker, EndOfTick, Worker
      <3> QED BY <2>2, <3>1 DEF Crash
    <2> QED BY <2>1, <2>2
  <1>2. /\ wk' \in [Workers -> Worker] /\ CallSet' /\ wk'[w].out = {}
        /\ \A v \in Workers \ {w} : wk'[v] = wk[v]
    BY <1>0, <1>1 DEF TInv, TypeOK, CallSet
  <1>3. /\ UNCHANGED <<jobs, requests, ctl, inventory, present, proven, lapsed>>
        /\ FaultOK
        /\ outbox' \subseteq outbox \cup wk[w].out
    <2>1. CASE EmitEvents(w)
      <3> PICK written \in SUBSET wk[w].out :
              outbox' = outbox \cup written /\ (NoFault \/ Fault({}))
        BY <2>1 DEF EmitEvents
      <3> QED BY <1>0, <2>1, FaultType DEF EmitEvents
    <2>2. CASE Crash(w)
      BY <1>0, <2>2, FaultType DEF Crash
    <2> QED BY <2>1, <2>2
  <1>4. TInv'
    BY <1>0, <1>2, <1>3 DEF TInv, TypeOK, FaultOK
  <1>5. Proven'
    BY <1>2, <1>3 DEF IInv, Proven
  <1> QED BY <1>3, <1>4, <1>5 DEF IInv, ProbeScheduled

\* A step of the API: rows as RowOK says without events of a worker, no
\* verified event anywhere, and no event is taken back.
LEMMA RequestSafe ==
  ASSUME IInv, UNCHANGED <<wk, inventory, present, proven, lapsed>>,
         jobs' \in [Keys -> Job], \A k \in Keys : RowOK(k, {}),
         ctl' \in [Ids -> AapJob], FaultOK,
         requests' \subseteq Request, \A r \in requests' : r.ev # "renewal.verified",
         outbox \subseteq outbox', outbox' \subseteq Event,
         \A k \in Keys : <<k, "renewal.verified">> \in outbox' => <<k, "renewal.verified">> \in outbox
  PROVE  IInv'
  <1> USE DEF IInv
  <1>1. TInv'
    BY DEF TInv, TypeOK, CallSet, FaultOK
  <1>2. Proven'
    BY DEF Proven, RowOK, Kept
  <1>3. ProbeScheduled'
    <2> SUFFICES ASSUME NEW k \in Keys, jobs'[k].status = "pending_verify"
                 PROVE  jobs'[k].next # NULL /\ jobs'[k].next <= jobs'[k].timeout
      BY DEF ProbeScheduled
    <2> QED BY Constants DEF ProbeScheduled, RowOK, Kept
  <1> QED BY <1>1, <1>2, <1>3

\* A row is inserted with a probe scheduled within its deadline.
LEMMA InsertRow ==
  ASSUME TypeOK, NEW k \in Keys, NEW i \in Ids \cup {NULL},
         NEW st \in {"launching", "aap_pending", "pending_verify"}, NEW n \in Int \cup {NULL},
         st = "pending_verify" => n = Backoff[1], Insert(k, NewRow(st, i, n))
  PROVE  jobs' \in [Keys -> Job] /\ \A j \in Keys : RowOK(j, {})
  <1> DEFINE row == NewRow(st, i, n)
  <1>1. row \in Job /\ row.status = st /\ row.next = n /\ row.timeout = VerifyTimeout
    BY Constants DEF NewRow, Job, Time, Status, InFlight
  <1>2. jobs' = [jobs EXCEPT ![k] = row]
    BY DEF Insert
  <1>3. Backoff[1] \in Int /\ Backoff[1] <= VerifyTimeout
    BY Constants
  <1> HIDE DEF row
  <1> QED BY <1>1, <1>2, <1>3 DEF TypeOK, RowOK, Kept

\* A request is opened by a launch.
LEMMA OpenSafe ==
  ASSUME IInv, NEW k \in Keys, NEW i \in Ids, NEW op \in {"renew", "migrate", "claim"},
         NEW by \in {"api", "eda"},
         LaunchAAP(i, k, by), OpenRequest(op, k, i, "renewal.launched"),
         UNCHANGED <<jobs, wk, inventory, present, outbox, faults, proven, lapsed, hurt>>
  PROVE  IInv'
  <1>0. TypeOK
    BY DEF IInv, TInv
  <1>1. ctl' \in [Ids -> AapJob]
    BY <1>0, LaunchType
  <1>2. requests' \subseteq Request /\ \A r \in requests' : r.ev # "renewal.verified"
    BY <1>0 DEF OpenRequest, Request, EventTypes, TypeOK, IInv, Proven
  <1>3. FaultOK /\ \A j \in Keys : RowOK(j, {})
    BY <1>0 DEF FaultOK, RowOK, Kept, TypeOK
  <1>4. jobs' \in [Keys -> Job] /\ outbox' \subseteq Event
    BY <1>0 DEF TypeOK
  <1> QED BY <1>1, <1>2, <1>3, <1>4, RequestSafe

\* The API handlers.
LEMMA ApiSafe ==
  ASSUME IInv, ApiStep PROVE IInv'
  <1>0. TInv /\ TypeOK /\ \A r \in requests : r.ev # "renewal.verified"
    BY DEF IInv, TInv, Proven
  <1>a. \A r \in requests : /\ r \in Request /\ r.key \in Keys /\ r.id \in Ids \cup {NULL}
                            /\ r.ev \in EventTypes
    BY <1>0 DEF TypeOK, Request
  <1>b. UNCHANGED <<faults, hurt>> => FaultOK
    BY <1>0 DEF TypeOK, FaultOK
  <1>c. UNCHANGED jobs => jobs' \in [Keys -> Job] /\ \A k \in Keys : RowOK(k, {})
    BY <1>0 DEF TypeOK, RowOK, Kept
  <1>1. ASSUME NEW k \in Keys, RenewCertificate(k) \/ MigrateCertificate(k) \/ EdaLaunch(k)
        PROVE  IInv'
    BY <1>1, OpenSafe DEF RenewCertificate, MigrateCertificate, EdaLaunch
  <1>2. ASSUME NEW k \in Keys, RenewExpiring(k) PROVE IInv'
    <2>1. jobs' \in [Keys -> Job] /\ \A j \in Keys : RowOK(j, {})
      BY <1>0, <1>2, InsertRow DEF RenewExpiring
    <2>2. requests' \subseteq Request /\ \A r \in requests' : r.ev # "renewal.verified"
      BY <1>0, <1>2 DEF RenewExpiring, OpenRequest, Request, EventTypes, TypeOK
    <2> QED BY <1>0, <1>2, <1>b, <2>1, <2>2, RequestSafe DEF RenewExpiring, TypeOK
  <1>3. ASSUME NEW k \in Keys, MigrateEligible(k) PROVE IInv'
    <2>1. jobs' \in [Keys -> Job] /\ \A j \in Keys : RowOK(j, {})
      <3>1. Backoff[1] \in Int
        BY Constants
      <3> QED BY <1>0, <1>3, <3>1, InsertRow DEF MigrateEligible
    <2>2. /\ outbox \subseteq outbox' /\ outbox' \subseteq Event
          /\ \A j \in Keys : <<j, "renewal.verified">> \in outbox'
                             => <<j, "renewal.verified">> \in outbox
      BY <1>0, <1>3 DEF MigrateEligible, TypeOK, Event, EventTypes
    <2> QED BY <1>0, <1>3, <1>b, <2>1, <2>2, RequestSafe DEF MigrateEligible, TypeOK
  <1>4. CASE PersistLaunch
    <2> PICK r \in requests : PersistLaunch!(r)
      BY <1>4 DEF PersistLaunch
    <2>1. jobs' \in [Keys -> Job] /\ \A j \in Keys : RowOK(j, {})
      <3>1. Backoff[1] \in Int
        BY Constants
      <3>2. \/ Insert(r.key, NewRow("aap_pending", r.id, NULL))
            \/ Insert(r.key, NewRow("pending_verify", r.id, Backoff[1]))
            \/ UNCHANGED jobs
        OBVIOUS
      <3> QED BY <1>0, <1>a, <1>c, <3>1, <3>2, InsertRow
    <2>2. /\ outbox \subseteq outbox' /\ outbox' \subseteq Event
          /\ \A j \in Keys : <<j, "renewal.verified">> \in outbox'
                             => <<j, "renewal.verified">> \in outbox
      <3>1. \/ outbox' = outbox \cup {<<r.key, "renewal.launched">>}
            \/ outbox' = outbox \cup ({r.key} \X {"renewal.requested", "renewal.launched"})
            \/ outbox' = outbox
        OBVIOUS
      <3> QED BY <1>0, <1>a, <3>1 DEF TypeOK, Event, EventTypes
    <2>3. /\ requests' \subseteq requests
          /\ UNCHANGED <<wk, ctl, inventory, present, faults, proven, lapsed, hurt>>
      OBVIOUS
    <2> QED BY <1>0, <1>a, <1>b, <2>1, <2>2, <2>3, RequestSafe DEF TypeOK
  <1>5. CASE ClaimByIdempotency
    <2> PICK r \in requests : ClaimByIdempotency!(r)
      BY <1>5 DEF ClaimByIdempotency
    <2>1. [r EXCEPT !.op = "attach"] \in Request /\ [r EXCEPT !.op = "attach"].ev = r.ev
      BY <1>a DEF Request
    <2>2. requests' \subseteq requests \cup {[r EXCEPT !.op = "attach"]}
      OBVIOUS
    <2>3. requests' \subseteq Request /\ \A q \in requests' : q.ev # "renewal.verified"
      BY <1>0, <1>a, <2>1, <2>2
    <2> QED BY <1>0, <1>b, <1>c, <2>3, RequestSafe DEF TypeOK
  <1>6. CASE AttachClaim
    <2> PICK r \in requests : AttachClaim!(r)
      BY <1>6 DEF AttachClaim
    <2>1. [r EXCEPT !.op = "announce"] \in Request /\ [r EXCEPT !.op = "announce"].ev = r.ev
      BY <1>a DEF Request
    <2>2. requests' \subseteq requests \cup {[r EXCEPT !.op = "announce"]}
      OBVIOUS
    <2>3. requests' \subseteq Request /\ \A q \in requests' : q.ev # "renewal.verified"
      BY <1>0, <1>a, <2>1, <2>2
    <2>4. jobs' \in [Keys -> Job] /\ \A j \in Keys : RowOK(j, {})
      BY <1>0, <1>a, RefRow DEF RowOK, Others
    <2> QED BY <1>0, <1>b, <2>3, <2>4, RequestSafe DEF TypeOK
  <1>7. CASE Announce
    <2> PICK r \in requests : Announce!(r)
      BY <1>7 DEF Announce
    <2>1. /\ outbox \subseteq outbox' /\ outbox' \subseteq Event
          /\ \A j \in Keys : <<j, "renewal.verified">> \in outbox'
                             => <<j, "renewal.verified">> \in outbox
      BY <1>0, <1>a DEF TypeOK, Event
    <2> QED BY <1>0, <1>a, <1>b, <1>c, <2>1, RequestSafe DEF TypeOK
  <1>8. CASE RequestFails
    <2> PICK r \in requests : RequestFails!(r)
      BY <1>8 DEF RequestFails
    <2>1. FaultOK
      BY <1>0, <1>a, FaultType
    <2> QED BY <1>0, <1>a, <1>c, <2>1, RequestSafe DEF TypeOK
  <1> QED BY <1>1, <1>2, <1>3, <1>4, <1>5, <1>6, <1>7, <1>8 DEF ApiStep

\* The environment: the controller, the inventory, deletions.
LEMMA WorldSafe ==
  ASSUME IInv, \/ AapFinishes
               \/ \E k \in Keys : InventoryChanges(k) \/ DeleteCertificate(k)
  PROVE  IInv'
  <1>0. TInv /\ TypeOK
    BY DEF IInv, TInv
  <1>1. CASE AapFinishes
    <2>1. ctl' \in [Ids -> AapJob]
      BY <1>0, <1>1 DEF AapFinishes, TypeOK, AapJob
    <2> QED BY <1>1, <2>1 DEF AapFinishes, IInv, TInv, TypeOK, CallSet, Proven,
                             ProbeScheduled
  <1>2. ASSUME NEW k \in Keys, InventoryChanges(k) PROVE IInv'
    <2> PICK found \in SUBSET Offsets : InventoryChanges(k)!(found)
      BY <1>2 DEF InventoryChanges
    <2>1. inventory' \in [Keys -> SUBSET Offsets] /\ proven \subseteq proven'
             /\ proven' \subseteq Keys
      BY <1>0 DEF TypeOK
    <2>2. \A j \in Keys : \A n \in inventory'[j] : n > 0 => j \in proven'
      BY <1>0 DEF IInv, Proven, TypeOK
    <2> QED BY <1>2, <2>1, <2>2 DEF InventoryChanges, IInv, TInv, TypeOK, CallSet, Proven,
                                  ProbeScheduled
  <1>3. ASSUME NEW k \in Keys, DeleteCertificate(k) PROVE IInv'
    BY <1>3 DEF DeleteCertificate, IInv, TInv, TypeOK, CallSet, Proven,
                ProbeScheduled
  <1> QED BY <1>1, <1>2, <1>3

\* Stored times move together: their order, and what is not set, stay.
LEMMA CloserTime ==
  /\ \A t \in Int : Closer(t) \in Int
  /\ \A t \in Int \cup {NULL} : Closer(t) \in Int \cup {NULL}
  /\ \A s, t \in Int : s <= t => Closer(s) <= Closer(t)
  BY Constants DEF Closer

\* Time passes.
LEMMA ElapseSafe ==
  ASSUME IInv, Elapse PROVE IInv'
  <1>0. TInv /\ TypeOK
    BY DEF IInv, TInv
  <1> DEFINE aged(k) == [jobs[k] EXCEPT !.lease = Closer(jobs[k].lease),
                           !.next = Closer(jobs[k].next), !.timeout = Closer(jobs[k].timeout)]
             snaps(w) == {[s EXCEPT !.next = Closer(s.next)] : s \in wk[w].todo}
             call(w) == IF wk[w].call = NULL THEN NULL
                        ELSE [wk[w].call EXCEPT !.until = Closer(wk[w].call.until)]
             older(w) == [wk[w] EXCEPT !.now = Closer(wk[w].now), !.todo = snaps(w),
                                       !.call = call(w)]
  <1>1. jobs' = [k \in Keys |-> IF Absent(k) THEN jobs[k] ELSE aged(k)]
    BY DEF Elapse
  <1>2. wk' = [w \in Workers |-> IF wk[w].pc = "idle" THEN wk[w] ELSE older(w)]
    BY DEF Elapse
  <1>3. ASSUME NEW k \in Keys
        PROVE  /\ aged(k) \in Job /\ aged(k).status = jobs[k].status
               /\ aged(k).next = Closer(jobs[k].next)
               /\ aged(k).timeout = Closer(jobs[k].timeout)
               /\ jobs[k].next \in Int \cup {NULL} /\ jobs[k].timeout \in Int
    <2>1. jobs[k] \in Job
      BY <1>0 DEF TypeOK
    <2>2. jobs[k].lease \in Int \cup {NULL} /\ jobs[k].next \in Int \cup {NULL}
             /\ jobs[k].timeout \in Int
      BY <2>1 DEF Job, Time
    <2>3. /\ Closer(jobs[k].lease) \in Int \cup {NULL} /\ Closer(jobs[k].next) \in Int \cup {NULL}
          /\ Closer(jobs[k].timeout) \in Int
      BY <2>2, CloserTime
    <2> QED BY <2>1, <2>2, <2>3 DEF Job, Time
  <1>4. ASSUME NEW w \in Workers
        PROVE  /\ older(w) \in Worker /\ older(w).pc = wk[w].pc /\ older(w).out = wk[w].out
               /\ older(w).pc \in {"launched", "waiting", "unlock"} => older(w).call \in Call
    <2>1. /\ wk[w] \in Worker /\ wk[w].now \in Int /\ wk[w].todo \subseteq Snapshot
          /\ wk[w].call \in Call \cup {NULL}
          /\ wk[w].pc \in {"launched", "waiting", "unlock"} => wk[w].call \in Call
      BY <1>0, Held DEF Worker
    <2>2. Closer(wk[w].now) \in Int
      BY <2>1, CloserTime
    <2>3. snaps(w) \subseteq Snapshot
      <3> SUFFICES ASSUME NEW s \in Snapshot PROVE [s EXCEPT !.next = Closer(s.next)] \in Snapshot
        BY <2>1
      <3>1. Closer(s.next) \in Int \cup {NULL}
        BY CloserTime DEF Snapshot, Time
      <3> QED BY <3>1 DEF Snapshot, Time
    <2>4. \A c \in Call : [c EXCEPT !.until = Closer(c.until)] \in Call
      BY CloserTime DEF Call
    <2>5. call(w) \in Call \cup {NULL} /\ (wk[w].call \in Call => call(w) \in Call)
      BY <2>1, <2>4
    <2> HIDE DEF snaps, call
    <2> QED BY <2>1, <2>2, <2>3, <2>5 DEF Worker
  <1> HIDE DEF aged, snaps, call, older
  <1>5. jobs' \in [Keys -> Job]
    BY <1>0, <1>1, <1>3 DEF TypeOK
  <1>6. wk' \in [Workers -> Worker] /\ CallSet' /\ \A w \in Workers : wk'[w].out = wk[w].out
    BY <1>0, <1>2, <1>4 DEF TInv, TypeOK, CallSet
  <1>7. /\ UNCHANGED <<requests, ctl, inventory, present, outbox, faults, proven, hurt>>
        /\ lapsed' \subseteq Keys
    BY <1>0 DEF Elapse, TypeOK
  <1>8. TInv'
    BY <1>0, <1>5, <1>6, <1>7 DEF TInv, TypeOK
  <1>9. \A k \in Keys : jobs'[k].status = jobs[k].status
    BY <1>1, <1>3
  <1>10. Proven'
    BY <1>6, <1>7, <1>9 DEF IInv, Proven
  <1>11. ProbeScheduled'
    <2> SUFFICES ASSUME NEW k \in Keys, jobs'[k].status = "pending_verify"
                 PROVE  jobs'[k].next # NULL /\ jobs'[k].next <= jobs'[k].timeout
      BY DEF ProbeScheduled
    <2>1. jobs[k].status = "pending_verify" /\ ~Absent(k)
      BY <1>9 DEF Absent
    <2>2. jobs[k].next \in Int /\ jobs[k].timeout \in Int /\ jobs[k].next <= jobs[k].timeout
      BY <2>1, <1>3 DEF IInv, ProbeScheduled
    <2>3. jobs'[k].next = Closer(jobs[k].next) /\ jobs'[k].timeout = Closer(jobs[k].timeout)
      BY <1>1, <1>3, <2>1
    <2>4. /\ Closer(jobs[k].next) \in Int
          /\ Closer(jobs[k].next) <= Closer(jobs[k].timeout)
      BY <2>2, CloserTime
    <2>5. Closer(jobs[k].next) # NULL
      BY <2>4, Constants
    <2> QED BY <2>3, <2>4, <2>5
  <1> QED BY <1>8, <1>10, <1>11 DEF IInv

\* No step breaks the invariant.
LEMMA NextIInv == IInv /\ [Next]_vars => IInv'
<1> SUFFICES ASSUME IInv, [Next]_vars PROVE IInv'
  OBVIOUS
<1>1. ASSUME NEW w \in Workers, WorkerStep(w) \/ AbortTick(w) \/ Crash(w) PROVE IInv'
  BY <1>1, ClosingSafe, RowSafe, CallsSafe, TickSafe, EventsSafe DEF WorkerStep
<1>2. CASE ApiStep
  BY <1>2, ApiSafe
<1>3. CASE EnvStep
  BY <1>3, WorldSafe, ElapseSafe DEF EnvStep
<1>4. CASE UNCHANGED vars
  BY <1>4 DEF vars, IInv, TInv, TypeOK, CallSet, Proven, ProbeScheduled
<1> QED BY <1>1, <1>2, <1>3, <1>4 DEF Next

\* The invariant holds in every reachable state.
LEMMA AlwaysIInv == Spec => []IInv
  BY InitIInv, NextIInv, PTL DEF Spec

-----------------------------------------------------------------------------
(* The theorems.                                                           *)

\* Every variable of the lifecycle model keeps its type: what the workers and
\* handlers write are rows, snapshots and requests.
THEOREM TypeCorrect == Spec => []TypeOK
<1>1. IInv => TypeOK
  BY DEF IInv, TInv
<1> QED BY <1>1, AlwaysIInv, PTL

\* A job is verified, or announced as verified, only after a successor with a
\* later not_after had been discovered, whatever workers, leases, crashes and
\* claim callbacks do (verifyPending, observeSuccessor).
THEOREM VerifiedMeansSuccessor == Spec => []VerifiedHasSuccessor
<1>1. IInv => VerifiedHasSuccessor
  BY DEF IInv, Proven, VerifiedHasSuccessor
<1> QED BY <1>1, AlwaysIInv, PTL

\* A row in pending_verify always has its next probe scheduled, no later than
\* its deadline, for every backoff table (NextVerifyAt, ScheduleNextVerify).
THEOREM ProbesScheduled == Spec => []ProbeScheduled
<1>1. IInv => ProbeScheduled
  BY DEF IInv
<1> QED BY <1>1, AlwaysIInv, PTL
=============================================================================
