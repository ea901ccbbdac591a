---------------------------- MODULE LifecycleJobs ----------------------------
(***************************************************************************)
(* Durable renew / migrate jobs: the lifecycle_jobs table                  *)
(* (internal/store/lifecycle_jobs.go), the replicas of the lifecycle       *)
(* worker that lease rows of it (internal/lifecyclejobs), and the API      *)
(* handlers that insert and claim rows (internal/api/server.go).           *)
(*                                                                         *)
(* One action is one SQL statement (or transaction) or one call to the     *)
(* Ansible controller (AAP); everything a worker or a handler read earlier *)
(* is kept in its own state, so it acts on what it read, not on the row.   *)
(*                                                                         *)
(* Times are stored relative to the present: a deadline d lies d units     *)
(* ahead, a negative one has passed, and Elapse moves every stored time    *)
(* one unit closer.  Ages beyond MaxAge are not told apart.                *)
(***************************************************************************)
EXTENDS Integers, Sequences, FiniteSets

CONSTANTS
  RenewKeys,      \* idempotency keys "renew:<cert>:<fingerprint>"
  MigrateKeys,    \* idempotency keys "migrate:<cert>:<fingerprint>"
  Workers,        \* replicas of the lifecycle worker
  NULL,           \* SQL NULL
  LeaseTTL,       \* length of a claim's lease
  VerifyTimeout,  \* timeout_at - created_at
  Backoff,        \* the VerifyBackoff table
  Routes,         \* the API routes clients of this instance use
  Offsets,        \* not_after of a certificate, relative to the predecessor's
  MaxAge,         \* bound: ages beyond this are not told apart
  MaxLaunch,      \* bound: AAP jobs ever launched
  MaxFaults       \* bound: crashes, lost answers and failed statements

Keys == RenewKeys \cup MigrateKeys
Ids  == 1 .. MaxLaunch

ASSUME KeysAssumption == RenewKeys \cap MigrateKeys = {}
ASSUME TimeAssumption ==
  /\ LeaseTTL \in Nat \ {0}
  /\ VerifyTimeout \in Nat \ {0}
  /\ MaxAge \in Nat \ {0}
  /\ Backoff \in Seq(Nat \ {0}) /\ Len(Backoff) > 0
  /\ Backoff[1] <= VerifyTimeout
ASSUME RoutesAssumption ==
  Routes \subseteq {"renew", "renew-expiring", "migrate", "migrate-eligible",
                    "claim", "delete"}
ASSUME OffsetsAssumption == Offsets \subseteq Int
ASSUME BoundAssumption == MaxLaunch \in Nat /\ MaxFaults \in Nat
ASSUME NullAssumption  == NULL \notin Int /\ NULL \notin Keys

InFlight == {"launching", "aap_pending", "aap_running", "aap_successful",
             "verifying", "pending_verify"}
Terminal == {"verified", "timed_out", "failed"}
Status   == InFlight \cup Terminal \cup {"absent"}
EventTypes == {"renewal.requested", "renewal.launched", "renewal.failed",
               "renewal.verified", "renewal.timed_out"}

VARIABLES
  jobs,      \* the table, by idempotency key; status "absent" is no row
  wk,        \* local state of each worker
  requests,  \* API requests between two of their statements
  ctl,       \* AAP jobs of the controller, by job id
  inventory, \* certificates of the same CN, other fingerprint: their offsets
  present,   \* the predecessor certificate row still exists
  outbox,    \* renewal.* events written for each key
  faults,    \* faults so far
  proven,    \* history: a later successor has been in the inventory
  lapsed,    \* history: the lease ended under the worker that held it
  hurt       \* history: a fault hit a step on the key

vars == <<jobs, wk, requests, ctl, inventory, present, outbox, faults,
          proven, lapsed, hurt>>

-----------------------------------------------------------------------------
(* Types.                                                                  *)

Time == Int \cup {NULL}
Job == [status : Status, aap : Ids \cup {NULL}, lease : Time, next : Time,
        timeout : Int, attempt : 0 .. Len(Backoff)]
\* What GetLifecycleJob returned after a claim.  timeout_at is written once,
\* at insert, so a snapshot of it never goes stale and is read off the row.
Snapshot == [key : Keys, status : Status, aap : Ids \cup {NULL}, next : Time,
             attempt : 0 .. Len(Backoff), pred : BOOLEAN]
Event == Keys \X EventTypes
\* The AAP call a worker is in: launched, not yet recorded / being waited for.
Call == [key : Keys, id : Ids, until : Int]
ASSUME CallAssumption == NULL \notin Call
Worker == [pc : {"idle", "claim", "read", "work", "launched", "waiting",
                 "unlock"},
           due : BOOLEAN, now : Int, ids : SUBSET Keys,
           todo : SUBSET Snapshot, call : Call \cup {NULL},
           out : SUBSET Event]
Request == [op : {"renew", "migrate", "claim", "attach", "announce"},
            key : Keys, id : Ids \cup {NULL}, ev : EventTypes]
AapJob == [key : Keys \cup {NULL}, by : {"api", "worker", "eda", "nobody"},
           st : {"none", "running", "successful", "failed"}]

TypeOK ==
  /\ jobs \in [Keys -> Job]
  /\ wk \in [Workers -> Worker]
  /\ requests \subseteq Request
  /\ ctl \in [Ids -> AapJob]
  /\ inventory \in [Keys -> SUBSET Offsets]
  /\ present \in [Keys -> BOOLEAN]
  /\ outbox \subseteq Event
  /\ faults \in 0 .. MaxFaults
  /\ proven \subseteq Keys
  /\ lapsed \subseteq Keys
  /\ hurt \subseteq Keys

NoJob == [status |-> "absent", aap |-> NULL, lease |-> NULL, next |-> NULL,
          timeout |-> 0, attempt |-> 0]
\* Between two ticks, with the events evs still to be appended.
EndOfTick(evs) == [pc |-> "idle", due |-> FALSE, now |-> 0, ids |-> {},
                   todo |-> {}, call |-> NULL, out |-> evs]
IdleWorker == EndOfTick({})
NoAapJob == [key |-> NULL, by |-> "nobody", st |-> "none"]

\* A row of an earlier release (worker.go: "Legacy M2 path"): its AAP job is
\* done, its deadline is the column default of the migration that added it.
LegacyRow(st) == [status |-> st, aap |-> 1, lease |-> NULL, next |-> NULL,
                  timeout |-> VerifyTimeout, attempt |-> 0]

Init ==
  /\ \/ /\ jobs = [k \in Keys |-> NoJob]
        /\ ctl = [i \in Ids |-> NoAapJob]
        /\ outbox = {}
     \/ \E k \in RenewKeys, st \in {"verifying", "aap_successful"} :
          /\ 1 \in Ids
          /\ jobs = [[j \in Keys |-> NoJob] EXCEPT ![k] = LegacyRow(st)]
          /\ ctl = [[i \in Ids |-> NoAapJob] EXCEPT
                      ![1] = [key |-> k, by |-> "api", st |-> "successful"]]
          /\ outbox = {<<k, "renewal.launched">>}
  /\ wk = [w \in Workers |-> IdleWorker]
  /\ requests = {}
  /\ inventory = [k \in Keys |-> {}]
  /\ present = [k \in Keys |-> TRUE]
  /\ faults = 0
  /\ proven = {} /\ lapsed = {} /\ hurt = {}

-----------------------------------------------------------------------------
(* Helpers.                                                                *)

NextVerifyDelay(attempt) ==
  IF attempt < 1 THEN Backoff[1]
  ELSE IF attempt > Len(Backoff) THEN Backoff[Len(Backoff)] ELSE Backoff[attempt]

\* Mutant: the backoff is not cut at the deadline.
NextVerifyAt_Uncut(now, attempt, timeoutAt) ==
  [at |-> now + NextVerifyDelay(attempt), last |-> FALSE]

\* When the next probe runs, and whether the backoff was cut at the deadline.
NextVerifyAt(now, attempt, timeoutAt) ==
  LET next == now + NextVerifyDelay(attempt)
  IN  IF next >= timeoutAt THEN [at |-> timeoutAt, last |-> TRUE]
                           ELSE [at |-> next, last |-> FALSE]

\* The not_after, relative to the predecessor, of the certificate a probe
\* looks at: the latest one of the same CN and another fingerprint, if any.
observeSuccessor(k) == {n \in inventory[k] : \A m \in inventory[k] : m <= n}
VerifyWire(observed) == \E n \in observed : n > 0

LeaseFree(k, now) == jobs[k].lease = NULL \/ jobs[k].lease < now

\* A worker has claimed k and not yet given it back.
Holds(w, k) ==
  \/ k \in wk[w].ids
  \/ \E s \in wk[w].todo : s.key = k
  \/ wk[w].call # NULL /\ wk[w].call.key = k

\* UpdateLifecycleStatus, ScheduleNextVerify, SetLifecycleAAPRef: one row,
\* found by id, whatever its status and whoever leases it.
UpdateLifecycleStatus(k, status) ==
  jobs' = [jobs EXCEPT ![k] = [@ EXCEPT !.status = status, !.lease = NULL]]
ClearLease(k) == jobs' = [jobs EXCEPT ![k] = [@ EXCEPT !.lease = NULL]]
ScheduleNextVerify(k, attempt, next) ==
  jobs' = [jobs EXCEPT ![k] = [@ EXCEPT !.status = "pending_verify", !.lease = NULL,
                                        !.attempt = attempt, !.next = next]]
SetLifecycleAAPRef(k, id, status) ==
  jobs' = [jobs EXCEPT ![k] = [@ EXCEPT !.aap = id, !.status = status]]

\* A fault (a crash, a lost answer, a failed statement) on the keys ks.
Fault(ks) == /\ faults < MaxFaults
             /\ faults' = faults + 1
             /\ hurt' = hurt \cup ks
NoFault == UNCHANGED <<faults, hurt>>

\* The controller accepts a launch for k and answers with a fresh job id.
Fresh(i) == ctl[i].st = "none" /\ \A j \in Ids : j < i => ctl[j].st # "none"
LaunchAAP(i, k, by) ==
  /\ Fresh(i)
  /\ ctl' = [ctl EXCEPT ![i] = [key |-> k, by |-> by, st |-> "running"]]

-----------------------------------------------------------------------------
(* The lifecycle worker.  A tick sweeps overdue rows, claims in-flight     *)
(* rows and works through them, then claims and probes the due ones.       *)

Ready(w, p) == wk[w].pc = p /\ wk[w].out = {}

\* One statement on row k whose error the code ignores or only logs.
Stmt(A, k) == (A /\ NoFault) \/ (UNCHANGED jobs /\ Fault({k}))

\* Worker w is done with its current row: go on with the rows left of the
\* batch, else to the next phase of the tick, and append the events evs.
Proceed(w, left, evs) ==
  wk' = [wk EXCEPT ![w] =
    IF left # {} THEN [@ EXCEPT !.pc = "work", !.todo = left, !.call = NULL, !.out = evs]
    ELSE IF @.due THEN EndOfTick(evs)
    ELSE [@ EXCEPT !.pc = "claim", !.due = TRUE, !.todo = {}, !.call = NULL, !.out = evs]]

\* tick, expireTimedOut: the sweep takes every overdue pending_verify row,
\* leased or not; when the statement fails the tick goes on without it.
Overdue == {k \in Keys : jobs[k].status = "pending_verify" /\ jobs[k].timeout <= 0}
StartTick(w) == \E swept \in {Overdue, {}} :
  /\ Ready(w, "idle")
  /\ IF swept = Overdue THEN NoFault ELSE Fault({})
  /\ jobs' = [k \in Keys |-> IF k \in swept
                THEN [jobs[k] EXCEPT !.status = "timed_out", !.lease = NULL]
                ELSE jobs[k]]
  /\ wk' = [wk EXCEPT ![w] = [@ EXCEPT !.pc = "claim",
                                       !.out = swept \X {"renewal.timed_out"}]]
  /\ lapsed' = lapsed \cup {k \in swept : \E v \in Workers : Holds(v, k)}
  /\ UNCHANGED <<requests, ctl, inventory, present, outbox, proven>>

\* AppendLifecycleJobEvent / AppendRenewalOutboxEvent: statements of their
\* own after the update, whose errors the worker drops.  The foreign key of
\* events.certificate_id refuses a predecessor deleted since it was read.
EmitEvents(w) ==
  /\ wk[w].out # {}
  /\ \E written \in SUBSET wk[w].out :
       /\ outbox' = outbox \cup written
       /\ IF \A e \in wk[w].out \ written : ~present[e[1]] THEN NoFault ELSE Fault({})
  /\ wk' = [wk EXCEPT ![w] = [@ EXCEPT !.out = {}]]
  /\ UNCHANGED <<jobs, requests, ctl, inventory, present, proven, lapsed>>

\* The claim transactions.  The batch limit is at least the number of rows.
Claim(w, ks, expires) ==
  /\ jobs' = [k \in Keys |-> IF k \in ks THEN [jobs[k] EXCEPT !.lease = expires]
                                         ELSE jobs[k]]
  /\ IF ks = {} THEN Proceed(w, {}, {})
     ELSE wk' = [wk EXCEPT ![w] = [@ EXCEPT !.pc = "read", !.ids = ks]]
  /\ lapsed' = lapsed \cup (IF expires < 0 THEN ks ELSE {})
  /\ UNCHANGED <<requests, ctl, inventory, present, outbox, faults, proven, hurt>>

\* Mutants: the query selects closed rows, no launching rows, leased rows.
ClaimLifecycleJobs_AnyStatus(w) ==
  /\ Ready(w, "claim") /\ ~wk[w].due
  /\ Claim(w, {k \in Keys : jobs[k].status # "absent" /\ LeaseFree(k, 0)}, LeaseTTL)
ClaimLifecycleJobs_NotLaunching(w) ==
  /\ Ready(w, "claim") /\ ~wk[w].due
  /\ Claim(w, {k \in Keys : /\ jobs[k].status \in InFlight \ {"launching"}
                            /\ LeaseFree(k, 0)}, LeaseTTL)
ClaimLifecycleJobs_AnyLease(w) ==
  /\ Ready(w, "claim") /\ ~wk[w].due
  /\ Claim(w, {k \in Keys : jobs[k].status \in InFlight}, LeaseTTL)

ClaimLifecycleJobs(w) ==
  /\ Ready(w, "claim") /\ ~wk[w].due
  /\ Claim(w, {k \in Keys : jobs[k].status \in InFlight /\ LeaseFree(k, 0)}, LeaseTTL)

\* The tick's own `now`, read before the first batch was worked through.
ClaimDueVerifyJobs(w) ==
  LET now == wk[w].now
      due == {k \in Keys : /\ jobs[k].status = "pending_verify"
                           /\ jobs[k].next # NULL /\ jobs[k].next <= now
                           /\ jobs[k].timeout > now
                           /\ LeaseFree(k, now)}
  IN  /\ Ready(w, "claim") /\ wk[w].due
      /\ Claim(w, due, now + LeaseTTL)

\* GetLifecycleJob, row by row, after the claim has committed.
GetLifecycleJob(k) ==
  [key |-> k, status |-> jobs[k].status, aap |-> jobs[k].aap, next |-> jobs[k].next,
   attempt |-> jobs[k].attempt, pred |-> present[k]]
ReadClaimed(w) ==
  /\ Ready(w, "read")
  /\ \E k \in wk[w].ids :
       wk' = [wk EXCEPT ![w] =
         [@ EXCEPT !.ids = wk[w].ids \ {k}, !.todo = wk[w].todo \cup {GetLifecycleJob(k)},
                   !.pc = IF wk[w].ids = {k} THEN "work" ELSE "read"]]
  /\ UNCHANGED <<jobs, requests, ctl, inventory, present, outbox, faults,
                 proven, lapsed, hurt>>

\* A claim or a read fails: the tick ends, the leases stay.
AbortTick(w) ==
  /\ Ready(w, "claim") \/ Ready(w, "read")
  /\ Fault({k \in Keys : Holds(w, k)})
  /\ wk' = [wk EXCEPT ![w] = IdleWorker]
  /\ UNCHANGED <<jobs, requests, ctl, inventory, present, outbox, proven, lapsed>>

\* process: one row s of the batch, dispatched on the status that was read.
Work(w, s) == Ready(w, "work") /\ s \in wk[w].todo /\ ~wk[w].due
Left(w, s) == wk[w].todo \ {s}

\* The row is closed with a status and, if evs is not empty, announced; a
\* failed UPDATE is ignored and the announcement still goes out.
Close(w, s, status, evs) ==
  /\ Stmt(UpdateLifecycleStatus(s.key, status), s.key)
  /\ Proceed(w, Left(w, s), {s.key} \X evs)
  /\ UNCHANGED <<requests, ctl, inventory, present, outbox, proven, lapsed>>

\* launch also has a branch for a launching row with an AAP id (restart
\* recovery).  No row is ever in that state, SetLifecycleAAPRef writes the id
\* and the status together, so there is no action for it: a worker that met
\* such a row would be stuck here and EveryJobCloses would fail.

\* launch without a predecessor; pollAAP without an AAP id; process of a row
\* that is no longer in flight ("unexpected status").
FailUnexpected(w) == \E s \in wk[w].todo :
  /\ Work(w, s)
  /\ \/ s.status = "launching" /\ s.aap = NULL /\ ~s.pred
     \/ s.status \in {"aap_pending", "aap_running"} /\ s.aap = NULL
     \/ s.status \notin InFlight
  /\ Close(w, s, "failed", {})

\* Worker w is in a call on AAP job i for row s.
Calling(w, pc, s, i, until) ==
  wk' = [wk EXCEPT ![w] = [@ EXCEPT !.pc = pc, !.todo = Left(w, s),
                             !.call = [key |-> s.key, id |-> i, until |-> until]]]

MayLaunch(w, s) ==
  Work(w, s) /\ s.status = "launching" /\ s.aap = NULL /\ s.pred

\* Mutant: the lease is given back before the AAP id is recorded.
LaunchRenewal_UnlockFirst(w) == \E s \in wk[w].todo, i \in Ids :
  /\ MayLaunch(w, s) /\ present[s.key]
  /\ LaunchAAP(i, s.key, "worker")
  /\ ClearLease(s.key)
  /\ Calling(w, "launched", s, i, 0)
  /\ UNCHANGED <<requests, inventory, present, outbox, faults, proven,
                 lapsed, hurt>>

\* launch: the controller answers with a job id ...
LaunchRenewal(w) == \E s \in wk[w].todo, i \in Ids :
  /\ MayLaunch(w, s) /\ present[s.key]
  /\ LaunchAAP(i, s.key, "worker")
  /\ Calling(w, "launched", s, i, 0)
  /\ UNCHANGED <<jobs, requests, inventory, present, outbox, faults, proven,
                 lapsed, hurt>>

\* ... or the call fails, possibly after the controller accepted it.
LaunchFails(w) == \E s \in wk[w].todo :
  /\ MayLaunch(w, s) /\ present[s.key]
  /\ \/ UNCHANGED ctl /\ Stmt(UpdateLifecycleStatus(s.key, "failed"), s.key)
     \/ /\ \E i \in Ids : LaunchAAP(i, s.key, "worker")
        /\ UpdateLifecycleStatus(s.key, "failed") /\ Fault({s.key})
  /\ Proceed(w, Left(w, s), {<<s.key, "renewal.failed">>})
  /\ UNCHANGED <<requests, inventory, present, outbox, proven, lapsed>>

\* launch: record the id (on an error: return, lease kept), announce, unlock.
RecordLaunch(w) ==
  LET k == wk[w].call.key IN
  /\ Ready(w, "launched")
  /\ \/ /\ SetLifecycleAAPRef(k, wk[w].call.id, "aap_pending") /\ NoFault
        /\ wk' = [wk EXCEPT ![w] = [@ EXCEPT !.pc = "unlock",
                                             !.out = {<<k, "renewal.launched">>}]]
     \/ /\ UNCHANGED jobs /\ Fault({k})
        /\ Proceed(w, wk[w].todo, {})
  /\ UNCHANGED <<requests, ctl, inventory, present, outbox, proven, lapsed>>

UnlockLaunched(w) ==
  /\ Ready(w, "unlock")
  /\ Stmt(ClearLease(wk[w].call.key), wk[w].call.key)
  /\ Proceed(w, wk[w].todo, {})
  /\ UNCHANGED <<requests, ctl, inventory, present, outbox, proven, lapsed>>

\* pollAAP: WaitForJob blocks for at most LeaseTTL.
StartWait(w) == \E s \in wk[w].todo :
  /\ Work(w, s) /\ s.status \in {"aap_pending", "aap_running"} /\ s.aap # NULL
  /\ Calling(w, "waiting", s, s.aap, LeaseTTL)
  /\ UNCHANGED <<jobs, requests, ctl, inventory, present, outbox, faults,
                 proven, lapsed, hurt>>

enterPendingVerify(k) ==
  ScheduleNextVerify(k, 0, NextVerifyAt(0, 1, jobs[k].timeout).at)

\* Mutant: an AAP success completes the job.
WaitSuccessful_Verifies(w) ==
  /\ Ready(w, "waiting") /\ ctl[wk[w].call.id].st = "successful"
  /\ Stmt(UpdateLifecycleStatus(wk[w].call.key, "verified"), wk[w].call.key)
  /\ Proceed(w, wk[w].todo, {<<wk[w].call.key, "renewal.verified">>})
  /\ UNCHANGED <<requests, ctl, inventory, present, outbox, proven, lapsed>>

WaitSuccessful(w) ==
  /\ Ready(w, "waiting") /\ ctl[wk[w].call.id].st = "successful"
  /\ Stmt(enterPendingVerify(wk[w].call.key), wk[w].call.key)
  /\ Proceed(w, wk[w].todo, {})
  /\ UNCHANGED <<requests, ctl, inventory, present, outbox, proven, lapsed>>

WaitFailed(w) ==
  LET k == wk[w].call.key IN
  /\ Ready(w, "waiting") /\ ctl[wk[w].call.id].st = "failed"
  /\ Stmt(UpdateLifecycleStatus(k, "failed"), k)
  /\ Proceed(w, wk[w].todo, {<<k, "renewal.failed">>})
  /\ UNCHANGED <<requests, ctl, inventory, present, outbox, proven, lapsed>>

\* The wait times out, or maxPollFailures polls in a row failed.  (A job that
\* ends after the last poll of a wait is seen by the first poll of the next.)
\* The statement that gives the lease back may fail too.
WaitGivesUp(w) ==
  /\ Ready(w, "waiting")
  /\ \/ /\ wk[w].call.until <= 0 /\ ctl[wk[w].call.id].st = "running" /\ NoFault
        /\ ClearLease(wk[w].call.key)
     \/ /\ Fault({wk[w].call.key})
        /\ ClearLease(wk[w].call.key) \/ UNCHANGED jobs
  /\ Proceed(w, wk[w].todo, {})
  /\ UNCHANGED <<requests, ctl, inventory, present, outbox, proven, lapsed>>

EnterVerify(w) == \E s \in wk[w].todo :
  /\ Work(w, s) /\ s.status = "aap_successful"
  /\ Stmt(enterPendingVerify(s.key), s.key)
  /\ Proceed(w, Left(w, s), {})
  /\ UNCHANGED <<requests, ctl, inventory, present, outbox, proven, lapsed>>

\* process, pending_verify: claimed before its probe is due.
NotYetDue(w) == \E s \in wk[w].todo :
  /\ Work(w, s) /\ s.status = "pending_verify" /\ s.next # NULL /\ s.next > 0
  /\ Stmt(ClearLease(s.key), s.key)
  /\ Proceed(w, Left(w, s), {})
  /\ UNCHANGED <<requests, ctl, inventory, present, outbox, proven, lapsed>>

\* verifyPending(job, now): rows of the first batch by their status, with the
\* present; every row of the due batch, with the time the tick started at.
ProbeNow(w) == IF wk[w].due THEN wk[w].now ELSE 0
MayProbe(w, s) ==
  \/ Work(w, s) /\ s.status = "pending_verify" /\ (s.next = NULL \/ s.next <= 0)
  \/ Work(w, s) /\ s.status = "verifying"
  \/ Ready(w, "work") /\ s \in wk[w].todo /\ wk[w].due

ProbeTooLate(w) == \E s \in wk[w].todo :
  /\ MayProbe(w, s) /\ ProbeNow(w) >= jobs[s.key].timeout
  /\ Close(w, s, "timed_out", {"renewal.timed_out"})

\* The SELECT of the successor and the UPDATE of the row are one step: a
\* certificate that appears or goes between them changes nothing the row or
\* the next probe depends on.
ProbeVerifies(w) == \E s \in wk[w].todo :
  /\ MayProbe(w, s) /\ ProbeNow(w) < jobs[s.key].timeout
  /\ VerifyWire(observeSuccessor(s.key))
  /\ Close(w, s, "verified", {"renewal.verified"})

\* A miss: back off.  NextVerifyAt is always ahead of ProbeNow here, so the
\* code's "last attempt already over" branch is never taken (lemma
\* NextVerifyAhead of LifecycleJobs_proofs).
ProbeMisses(w) == \E s \in wk[w].todo :
  LET attempt == IF s.attempt < Len(Backoff) THEN s.attempt + 1 ELSE Len(Backoff)
      next    == NextVerifyAt(ProbeNow(w), attempt, jobs[s.key].timeout)
  IN  /\ MayProbe(w, s) /\ ProbeNow(w) < jobs[s.key].timeout
      /\ ~VerifyWire(observeSuccessor(s.key))
      /\ Stmt(ScheduleNextVerify(s.key, attempt, next.at), s.key)
      /\ Proceed(w, Left(w, s), {})
      /\ UNCHANGED <<requests, ctl, inventory, present, outbox, proven, lapsed>>

\* Errors after which the worker returns with the lease still set: the
\* certificate row is gone or unreadable, the inventory query fails.
GiveUpRow(w) == \E s \in wk[w].todo :
  /\ \/ MayLaunch(w, s) /\ ((~present[s.key] /\ NoFault) \/ Fault({s.key}))
     \/ MayProbe(w, s) /\ ProbeNow(w) < jobs[s.key].timeout /\ Fault({s.key})
  /\ Proceed(w, Left(w, s), {})
  /\ UNCHANGED <<jobs, requests, ctl, inventory, present, outbox, proven, lapsed>>

\* The process dies: its batch, its unwritten events and what it learned from
\* the controller are gone; leases stay in the table.
Crash(w) ==
  /\ wk[w] # IdleWorker
  /\ Fault({k \in Keys : Holds(w, k)})
  /\ wk' = [wk EXCEPT ![w] = IdleWorker]
  /\ UNCHANGED <<jobs, requests, ctl, inventory, present, outbox, proven, lapsed>>

WorkerStep(w) ==
  \/ StartTick(w) \/ EmitEvents(w) \/ ClaimLifecycleJobs(w) \/ ClaimDueVerifyJobs(w)
  \/ ReadClaimed(w) \/ FailUnexpected(w) \/ GiveUpRow(w)
  \/ LaunchRenewal(w) \/ LaunchFails(w) \/ RecordLaunch(w) \/ UnlockLaunched(w)
  \/ StartWait(w) \/ WaitSuccessful(w) \/ WaitFailed(w) \/ WaitGivesUp(w)
  \/ EnterVerify(w) \/ NotYetDue(w)
  \/ ProbeTooLate(w) \/ ProbeVerifies(w) \/ ProbeMisses(w)

-----------------------------------------------------------------------------
(* The API handlers.  A request is a record from its first effect to its   *)
(* last; op says what it still has to do.                                  *)

\* Mutant: rows are inserted without a deadline.
NewRow_NoDeadline(status, id, next) ==
  [status |-> status, aap |-> id, lease |-> NULL, next |-> next,
   timeout |-> NULL, attempt |-> 0]

NewRow(status, id, next) ==
  [status |-> status, aap |-> id, lease |-> NULL, next |-> next,
   timeout |-> VerifyTimeout, attempt |-> 0]
Insert(k, row) == jobs' = [jobs EXCEPT ![k] = row]
Absent(k) == jobs[k].status = "absent"
OpenRequest(op, k, id, ev) ==
  requests' = requests \cup {[op |-> op, key |-> k, id |-> id, ev |-> ev]}
hasOpenMigrateStatus(status) == status \notin Terminal \cup {"absent"}

\* handleRenewCertificate: the AAP job is launched first.
RenewCertificate(k) == \E i \in Ids :
  /\ "renew" \in Routes /\ k \in RenewKeys /\ present[k]
  /\ LaunchAAP(i, k, "api")
  /\ OpenRequest("renew", k, i, "renewal.launched")
  /\ UNCHANGED <<jobs, wk, inventory, present, outbox, faults, proven, lapsed, hurt>>

\* handleMigrateCertificate: launched unless an open row exists already.  The
\* lookup and the launch are one step: until its launch succeeds a request has
\* no effect, and it may launch whatever other requests do meanwhile (two
\* overlapping ones both launch, the row being inserted only afterwards).
MigrateCertificate(k) == \E i \in Ids :
  /\ "migrate" \in Routes /\ k \in MigrateKeys /\ present[k]
  /\ ~hasOpenMigrateStatus(jobs[k].status)
  /\ LaunchAAP(i, k, "api")
  /\ OpenRequest("migrate", k, i, "renewal.launched")
  /\ UNCHANGED <<jobs, wk, inventory, present, outbox, faults, proven, lapsed, hurt>>

\* PersistRenewLaunch / PersistMigrateLaunch: one transaction.  The unique
\* key turns a second insert into a conflict and the request answers with the
\* row that is there; a deleted certificate makes the transaction fail.
PersistLaunch == \E r \in requests :
  /\ r.op \in {"renew", "migrate"}
  /\ requests' = requests \ {r}
  /\ IF Absent(r.key) /\ present[r.key]
     THEN /\ IF r.op = "renew"
             THEN /\ Insert(r.key, NewRow("aap_pending", r.id, NULL))
                  /\ outbox' = outbox \cup {<<r.key, "renewal.launched">>}
             ELSE /\ Insert(r.key, NewRow("pending_verify", r.id, Backoff[1]))
                  /\ outbox' = outbox \cup
                       ({r.key} \X {"renewal.requested", "renewal.launched"})
     ELSE UNCHANGED <<jobs, outbox>>
  /\ UNCHANGED <<wk, ctl, inventory, present, faults, proven, lapsed, hurt>>

\* handleRenewExpiring, per certificate: InsertLifecycleJobPending.
RenewExpiring(k) ==
  /\ "renew-expiring" \in Routes /\ k \in RenewKeys /\ present[k] /\ Absent(k)
  /\ Insert(k, NewRow("launching", NULL, NULL))
  /\ OpenRequest("announce", k, NULL, "renewal.requested")
  /\ UNCHANGED <<wk, ctl, inventory, present, outbox, faults, proven, lapsed, hurt>>

\* handleMigrateEligible, per certificate: InsertMigrateJobPending.
MigrateEligible(k) ==
  /\ "migrate-eligible" \in Routes /\ k \in MigrateKeys /\ present[k] /\ Absent(k)
  /\ Insert(k, NewRow("pending_verify", NULL, Backoff[1]))
  /\ outbox' = outbox \cup {<<k, "renewal.requested">>}
  /\ UNCHANGED <<wk, requests, ctl, inventory, present, faults, proven, lapsed, hurt>>

\* External: the EDA rulebook launches AAP on renewal.requested (events may
\* be delivered twice) and posts the job id back.
EdaLaunch(k) == \E i \in Ids :
  /\ "claim" \in Routes /\ <<k, "renewal.requested">> \in outbox
  /\ LaunchAAP(i, k, "eda")
  /\ OpenRequest("claim", k, i, "renewal.launched")
  /\ UNCHANGED <<jobs, wk, inventory, present, outbox, faults, proven, lapsed, hurt>>

\* handleClaimLifecycleJob, ClaimByIdempotency: the row is read ...
ClaimByIdempotency == \E r \in requests :
  /\ r.op = "claim"
  /\ requests' = (requests \ {r}) \cup
       (IF ~Absent(r.key) /\ jobs[r.key].aap = NULL
        THEN {[r EXCEPT !.op = "attach"]} ELSE {})
  /\ UNCHANGED <<jobs, wk, ctl, inventory, present, outbox, faults, proven, lapsed, hurt>>

\* ... and, if it had no AAP id, written: SetLifecycleAAPRef.
AttachClaim == \E r \in requests :
  /\ r.op = "attach"
  /\ SetLifecycleAAPRef(r.key, r.id, "aap_pending")
  /\ requests' = (requests \ {r}) \cup {[r EXCEPT !.op = "announce"]}
  /\ UNCHANGED <<wk, ctl, inventory, present, outbox, faults, proven, lapsed, hurt>>

Announce == \E r \in requests :
  /\ r.op = "announce"
  /\ outbox' = outbox \cup {<<r.key, r.ev>>}
  /\ requests' = requests \ {r}
  /\ UNCHANGED <<jobs, wk, ctl, inventory, present, faults, proven, lapsed, hurt>>

\* The API process dies, or a statement of the request fails.
RequestFails == \E r \in requests :
  /\ Fault({r.key})
  /\ requests' = requests \ {r}
  /\ UNCHANGED <<jobs, wk, ctl, inventory, present, outbox, proven, lapsed>>

-----------------------------------------------------------------------------
(* The environment.                                                        *)

\* External: an AAP job ends.
AapFinishes == \E i \in Ids, st \in {"successful", "failed"} :
  /\ ctl[i].st = "running"
  /\ ctl' = [ctl EXCEPT ![i].st = st]
  /\ UNCHANGED <<jobs, wk, requests, inventory, present, outbox, faults,
                 proven, lapsed, hurt>>

\* Scans add certificates to the inventory, deletions remove them.
InventoryChanges(k) == \E found \in SUBSET Offsets :
  /\ found # inventory[k]
  /\ inventory' = [inventory EXCEPT ![k] = found]
  /\ proven' = IF \E n \in found : n > 0 THEN proven \cup {k} ELSE proven
  /\ UNCHANGED <<jobs, wk, requests, ctl, present, outbox, faults, lapsed, hurt>>

\* handleDeleteCertificate: predecessor_cert_id becomes NULL with the delete.
DeleteCertificate(k) ==
  /\ "delete" \in Routes /\ present[k]
  /\ present' = [present EXCEPT ![k] = FALSE]
  /\ UNCHANGED <<jobs, wk, requests, ctl, inventory, outbox, faults, proven,
                 lapsed, hurt>>

Closer(t) == IF t = NULL THEN NULL ELSE IF t > -MaxAge THEN t - 1 ELSE -MaxAge

Elapse ==
  /\ jobs' = [k \in Keys |-> IF Absent(k) THEN jobs[k] ELSE
                [jobs[k] EXCEPT !.lease = Closer(@), !.next = Closer(@),
                                !.timeout = Closer(@)]]
  /\ wk' = [w \in Workers |-> IF wk[w].pc = "idle" THEN wk[w] ELSE
              [wk[w] EXCEPT !.now = Closer(wk[w].now),
                 !.todo = {[s EXCEPT !.next = Closer(s.next)] : s \in wk[w].todo},
                 !.call = IF wk[w].call = NULL THEN NULL
                          ELSE [wk[w].call EXCEPT !.until = Closer(wk[w].call.until)]]]
  /\ lapsed' = lapsed \cup {k \in Keys : /\ jobs'[k].lease # NULL
                                          /\ jobs'[k].lease < 0
                                          /\ \E w \in Workers : Holds(w, k)}
  /\ UNCHANGED <<requests, ctl, inventory, present, outbox, faults, proven, hurt>>

ApiStep ==
  \/ \E k \in Keys : RenewCertificate(k) \/ MigrateCertificate(k)
                       \/ RenewExpiring(k) \/ MigrateEligible(k) \/ EdaLaunch(k)
  \/ PersistLaunch \/ ClaimByIdempotency \/ AttachClaim \/ Announce \/ RequestFails

EnvStep ==
  \/ AapFinishes \/ Elapse
  \/ \E k \in Keys : InventoryChanges(k) \/ DeleteCertificate(k)

Next == \/ \E w \in Workers : WorkerStep(w) \/ AbortTick(w) \/ Crash(w)
        \/ ApiStep
        \/ EnvStep

Spec == Init /\ [][Next]_vars

\* Workers keep ticking, started AAP jobs end, time passes.  Clients,
\* certificates and faults owe nothing.
Fairness == /\ \A w \in Workers : WF_vars(WorkerStep(w))
            /\ WF_vars(AapFinishes) /\ WF_vars(Elapse)
FairSpec == Spec /\ Fairness

-----------------------------------------------------------------------------
(* Properties.                                                             *)

\* A row may be worked on by one worker at a time, as long as no lease ran
\* out under its holder and no sweep took the row from it: the claim queries
\* (FOR UPDATE SKIP LOCKED and lease_expires_at) and the places that clear a
\* lease are enough for mutual exclusion.
LeaseExclusion ==
  \A k \in Keys \ lapsed : \A v, w \in Workers :
    Holds(v, k) /\ Holds(w, k) => v = w

\* "Restart recovery: never double-launch": on the batch path the workers
\* launch at most one AAP job per row, unless a lease lapsed or a fault hit.
WorkerLaunches(k) == {i \in Ids : ctl[i].key = k /\ ctl[i].by = "worker"}
LaunchedOnce ==
  \A k \in Keys \ (lapsed \cup hurt) : \A i, j \in WorkerLaunches(k) : i = j

\* A row is verified, or announced as verified, only if a certificate with
\* the same CN and a later not_after had been discovered: an AAP success
\* alone never completes a job.
VerifiedHasSuccessor ==
  \A k \in Keys : jobs[k].status = "verified" \/ <<k, "renewal.verified">> \in outbox
                    => k \in proven

\* Rows wait for a probe only with a probe scheduled, no later than their
\* deadline, so that the due claim or the sweep takes each of them up again.
ProbeScheduled ==
  \A k \in Keys : jobs[k].status = "pending_verify" =>
    jobs[k].next # NULL /\ jobs[k].next <= jobs[k].timeout

\* The outcome of a row is final, except that a claim callback may reopen it
\* and that a worker whose lease is gone may overwrite it.
OutcomeFinal ==
  [][\A k \in Keys : jobs[k].status \in Terminal /\ k \notin lapsed' =>
        jobs'[k].status = jobs[k].status \/ AttachClaim]_vars

\* Every row that is in flight is closed eventually.
EveryJobCloses ==
  \A k \in Keys : jobs[k].status \in InFlight ~> jobs[k].status \in Terminal

-----------------------------------------------------------------------------
(* What the repository says of the program and the program does not do.    *)

\* "Idempotency key prevents a second AAP launch" (M2 durable lifecycle jobs
\* design); "A second click returns the existing job, does not double-launch"
\* (migrate design): the API handlers launch one AAP job per key.
NoSecondLaunch ==
  \A i, j \in Ids :
    ctl[i].by = "api" /\ ctl[j].by = "api" /\ ctl[i].key = ctl[j].key => i = j

\* Events "are written here in the same transaction as the state change that
\* produced them, so a committed change can never lose its event" (migration
\* 000006): a row that ended as verified or timed out has its event in the
\* outbox, or a worker is about to append it.
OutcomeKeepsEvent ==
  \A k \in Keys : \A o \in {<<"verified", "renewal.verified">>,
                            <<"timed_out", "renewal.timed_out">>} :
    jobs[k].status = o[1] =>
      <<k, o[2]>> \in outbox \cup UNION {wk[w].out : w \in Workers}

=============================================================================
