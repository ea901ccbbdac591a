------------------------------ MODULE ScanQueue ------------------------------
(***************************************************************************)
(* The durable scan queue: the scans table (internal/store/store.go), the  *)
(* replicas of the scan worker that claim rows of it and run them          *)
(* (internal/api/scan_worker.go, internal/scanrunner), and the handlers    *)
(* that insert, collect and delete scans (internal/api).                   *)
(*                                                                         *)
(* One action is one SQL statement (or transaction).  The age of a claim   *)
(* is the time since claimed_at; ages beyond LeaseTTL are stale and not    *)
(* told apart.  What a run finds and counts is left to the scan runner.    *)
(***************************************************************************)
EXTENDS Integers, FiniteSets

CONSTANTS
  NumScans,    \* bound: scans 1 .. NumScans, in the order of created_at
  Workers,     \* replicas of the scan worker
  Slots,       \* scans a worker runs at a time
  NULL,        \* SQL NULL
  LeaseTTL,    \* SCAN_LEASE_TTL: age up to which a claim is not stale
  Second,      \* one second, in the same units of time
  MaxPending,  \* SCAN_QUEUE_MAX_PENDING
  MaxPosts,    \* POST /scans requests served at a time
  MaxFaults    \* bound: crashes, shutdowns and failed statements

Scans == 1 .. NumScans
Runs  == Workers \X (1 .. Slots)   \* a slot of a worker

ASSUME NumbersAssumption ==
  /\ NumScans \in Nat /\ Slots \in Nat \ {0} /\ LeaseTTL \in Nat \ {0}
  /\ Second \in Nat \ {0}
  /\ MaxPending \in Nat \ {0} /\ MaxPosts \in Nat \ {0} /\ MaxFaults \in Nat
ASSUME NullAssumption == NULL \notin Int /\ NULL \notin Workers

VARIABLES
  scans,    \* the table
  poll,     \* per worker: claimed scans it has not started yet
  run,      \* per slot: the scan it runs
  posts,    \* POST /scans requests that counted the queue and not yet inserted
  collect,  \* per scan: the collector request that works on it
  faults,   \* faults so far
  lapsed    \* history: claims whose holder did not renew them in time

vars == <<scans, poll, run, posts, collect, faults, lapsed>>

Stale == LeaseTTL + 1
\* The heartbeat interval: half the lease, but no less than a second.
Interval == IF LeaseTTL \div 2 < Second THEN Second ELSE LeaseTTL \div 2
\* A heartbeat comes before the claim is stale: so for every lease of a second
\* or more.  SCAN_LEASE_TTL may be shorter; the configuration takes any.
HeartbeatInTime == Interval <= LeaseTTL
Ended == {"completed", "failed"}

Scan == [st : {"absent", "pending", "running", "gone"} \cup Ended,
         src : {"network", "collector"},
         by : Workers \cup {NULL}, age : (0 .. Stale) \cup {NULL}]
Run == [pc : {"free", "start", "probe", "fail", "release"},
        scan : Scans \cup {NULL}, beat : 0 .. Interval]
CollectPc == {"none", "mark", "ingest"}

TypeOK ==
  /\ scans \in [Scans -> Scan]
  /\ \A s \in Scans : scans[s].by = NULL <=> scans[s].age = NULL
  /\ poll \in [Workers -> SUBSET Scans]
  /\ run \in [Runs -> Run]
  /\ \A x \in Runs : run[x].pc = "free" <=> run[x].scan = NULL
  /\ posts \subseteq Scans
  /\ collect \in [Scans -> CollectPc]
  /\ faults \in 0 .. MaxFaults
  /\ lapsed \subseteq Scans

NoScan == [st |-> "absent", src |-> "network", by |-> NULL, age |-> NULL]
FreeSlot == [pc |-> "free", scan |-> NULL, beat |-> 0]

Init ==
  /\ scans = [s \in Scans |-> NoScan]
  /\ poll = [w \in Workers |-> {}]
  /\ run = [x \in Runs |-> FreeSlot]
  /\ posts = {}
  /\ collect = [s \in Scans |-> "none"]
  /\ faults = 0 /\ lapsed = {}

-----------------------------------------------------------------------------
(* Helpers.                                                                *)

Fault == faults < MaxFaults /\ faults' = faults + 1
NoFault == UNCHANGED faults
Exists(s) == scans[s].st \notin {"absent", "gone"}

\* Scan s is in the hands of worker w.
Holds(w, s) == s \in poll[w] \/ \E x \in Runs : x[1] = w /\ run[x].scan = s

\* A statement on row s; without a row it has no effect.
Update(s, row) == scans' = IF Exists(s) THEN [scans EXCEPT ![s] = row] ELSE scans
\* A statement that may fail.
Stmt(A) == (A /\ NoFault) \/ (UNCHANGED scans /\ Fault)

\* UpdateScanRunning, CompleteScan, FailScan: whatever the status of the row
\* and whoever claims it.
UpdateScanRunning(s) == Update(s, [scans[s] EXCEPT !.st = "running"])
End(s, st) == Update(s, [scans[s] EXCEPT !.st = st, !.by = NULL, !.age = NULL])
CompleteScan(s) == End(s, "completed")
FailScan(s) == End(s, "failed")

\* HeartbeatScanClaim, ReleaseScanClaim: only the claim of worker w.
Mine(w, s) == scans[s].by = w /\ scans[s].st = "running"
HeartbeatScanClaim(w, s) ==
  scans' = IF Mine(w, s) THEN [scans EXCEPT ![s] = [@ EXCEPT !.age = 0]] ELSE scans
\* Mutant: only claimed_by is cleared.
Unclaimed_KeepsTime(row) == [row EXCEPT !.by = NULL]
Unclaimed(row) == [row EXCEPT !.by = NULL, !.age = NULL]
ReleaseScanClaim(w, s) ==
  scans' = IF Mine(w, s) THEN [scans EXCEPT ![s] = Unclaimed(@)] ELSE scans

-----------------------------------------------------------------------------
(* The scan worker.                                                        *)

Free(w) == {x \in Runs : x[1] = w /\ run[x].pc = "free"}

\* Mutants: a claimed running scan is claimed whatever its age; unclaimed
\* running scans are left alone.
Claimable_AnyAge == {s \in Scans : scans[s].st \in {"pending", "running"}}
Claimable_OnlyStale ==
  {s \in Scans : \/ scans[s].st = "pending"
                 \/ /\ scans[s].st = "running" /\ scans[s].age # NULL
                    /\ scans[s].age > LeaseTTL}

\* tick, ClaimNextScans: the oldest claimable scans, one for each free slot.
Claimable == {s \in Scans : \/ scans[s].st = "pending"
                            \/ /\ scans[s].st = "running"
                               /\ scans[s].age = NULL \/ scans[s].age > LeaseTTL}
Oldest(S, n) == {s \in S : Cardinality({t \in S : t <= s}) <= n}
ClaimNextScans(w) ==
  LET ids == Oldest(Claimable, Cardinality(Free(w))) IN
  /\ poll[w] = {} /\ ids # {}
  /\ \A x \in Runs : x[1] = w => run[x].pc # "release"   \* not shutting down
  /\ scans' = [s \in Scans |-> IF s \in ids
                 THEN [scans[s] EXCEPT !.st = "running", !.by = w, !.age = 0]
                 ELSE scans[s]]
  /\ poll' = [poll EXCEPT ![w] = ids]
  /\ UNCHANGED <<run, posts, collect, faults, lapsed>>

\* GetScan for each claimed scan, then one slot for each; if one read fails
\* (the scan was deleted) none is started, and the claims stay.
StartScans(w) ==
  /\ poll[w] # {}
  /\ poll' = [poll EXCEPT ![w] = {}]
  /\ \/ /\ \A s \in poll[w] : Exists(s)
        /\ \E got \in [Free(w) -> poll[w] \cup {NULL}] :
             /\ \A s \in poll[w] : \E x \in Free(w) : got[x] = s
             /\ \A x, y \in Free(w) : got[x] = got[y] /\ got[x] # NULL => x = y
             /\ run' = [x \in Runs |-> IF x \in Free(w) /\ got[x] # NULL
                                       THEN [pc |-> "start", scan |-> got[x], beat |-> 0]
                                       ELSE run[x]]
        /\ NoFault
     \/ /\ \E s \in poll[w] : ~Exists(s)
        /\ UNCHANGED run /\ NoFault
     \/ Fault /\ UNCHANGED run
  /\ UNCHANGED <<scans, posts, collect, lapsed>>

Goto(x, pc) == run' = [run EXCEPT ![x] = [@ EXCEPT !.pc = pc]]
Release(x) == run' = [run EXCEPT ![x] = FreeSlot]

\* Runner.Run: the targets are expanded (no statement) and the scan is marked
\* running.  Without a target, which is what a collector scan has, the
\* expansion fails; it may fail for a network scan.
MarkRunning(x) ==
  /\ run[x].pc = "start" /\ scans[run[x].scan].src = "network"
  /\ \/ UpdateScanRunning(run[x].scan) /\ Goto(x, "probe") /\ NoFault
     \/ UNCHANGED scans /\ Goto(x, "fail") /\ Fault
  /\ UNCHANGED <<poll, posts, collect, lapsed>>

\* All targets are probed; an error of CompleteScan is only logged.
FinishRun(x) ==
  /\ run[x].pc = "probe"
  /\ Stmt(CompleteScan(run[x].scan))
  /\ Release(x)
  /\ UNCHANGED <<poll, posts, collect, lapsed>>

\* The expansion or the statement failed.
FailRun(x) ==
  /\ run[x].pc \in {"start", "fail"}
  /\ Stmt(FailScan(run[x].scan))
  /\ Release(x)
  /\ UNCHANGED <<poll, posts, collect, lapsed>>

\* execute: the claim of a cancelled run is released.
ReleaseRun(x) ==
  /\ run[x].pc = "release"
  /\ Stmt(ReleaseScanClaim(x[1], run[x].scan))
  /\ Release(x)
  /\ UNCHANGED <<poll, posts, collect, lapsed>>

Active(x) == run[x].pc \notin {"free", "release"}

\* Mutant: the heartbeat stops once the probes have begun.
Heartbeat_Lost(x) ==
  /\ Active(x) /\ run[x].beat = Interval
  /\ IF run[x].pc = "probe" THEN UNCHANGED scans ELSE HeartbeatScanClaim(x[1], run[x].scan)
  /\ run' = [run EXCEPT ![x] = [@ EXCEPT !.beat = 0]]
  /\ UNCHANGED <<poll, posts, collect, faults, lapsed>>

\* The heartbeat goroutine of a run, every Interval; an error is only logged.
Heartbeat(x) ==
  /\ Active(x) /\ run[x].beat = Interval
  /\ \/ HeartbeatScanClaim(x[1], run[x].scan) /\ NoFault /\ UNCHANGED lapsed
     \/ UNCHANGED scans /\ Fault /\ lapsed' = lapsed \cup {run[x].scan}
  /\ run' = [run EXCEPT ![x] = [@ EXCEPT !.beat = 0]]
  /\ UNCHANGED <<poll, posts, collect>>

\* Graceful shutdown: the runs are cancelled and release their claims; of a
\* batch not yet started a prefix is released and the rest keeps its claim.
Shutdown(w) ==
  /\ \E s \in Scans : Holds(w, s)
  /\ Fault
  /\ run' = [x \in Runs |-> IF x[1] = w /\ run[x].pc # "free"
                            THEN [run[x] EXCEPT !.pc = "release"] ELSE run[x]]
  /\ \E m \in 0 .. NumScans :
       scans' = [s \in Scans |-> IF s \in poll[w] /\ s <= m /\ Mine(w, s)
                                 THEN Unclaimed(scans[s]) ELSE scans[s]]
  /\ poll' = [poll EXCEPT ![w] = {}]
  /\ UNCHANGED <<posts, collect, lapsed>>

\* The process dies; its claims stay in the table.
Crash(w) ==
  /\ \E s \in Scans : Holds(w, s)
  /\ Fault
  /\ poll' = [poll EXCEPT ![w] = {}]
  /\ run' = [x \in Runs |-> IF x[1] = w THEN FreeSlot ELSE run[x]]
  /\ UNCHANGED <<scans, posts, collect, lapsed>>

-----------------------------------------------------------------------------
(* The API handlers.                                                       *)

NewScan(s) == /\ scans[s].st = "absent" /\ s \notin posts
              /\ \A t \in Scans : t < s => scans[t].st # "absent" \/ t \in posts
Pending == {s \in Scans : scans[s].st = "pending"}
NewRow(src) == [st |-> "pending", src |-> src, by |-> NULL, age |-> NULL]

\* Mutant: the cap is one too high.
CountPending_OffByOne ==
  /\ Cardinality(posts) < MaxPosts
  /\ Cardinality(Pending) <= MaxPending
  /\ \E s \in Scans : NewScan(s) /\ posts' = posts \cup {s}
  /\ UNCHANGED <<scans, poll, run, collect, faults, lapsed>>

\* handleCreateScan, CreateScan: the INSERT ... SELECT counts the pending
\* scans of its snapshot (a full queue is refused) ...
CountPending ==
  /\ Cardinality(posts) < MaxPosts
  /\ Cardinality(Pending) < MaxPending
  /\ \E s \in Scans : NewScan(s) /\ posts' = posts \cup {s}
  /\ UNCHANGED <<scans, poll, run, collect, faults, lapsed>>

\* ... and its row is seen when it commits.
InsertScan == \E s \in posts :
  /\ scans' = [scans EXCEPT ![s] = NewRow("network")]
  /\ posts' = posts \ {s}
  /\ UNCHANGED <<poll, run, collect, faults, lapsed>>

\* handleCollectScan, handleCollectADCS, handleCollectAKV: insert past the
\* cap, mark running, ingest, complete or fail.
CollectInsert == \E s \in Scans :
  /\ NewScan(s)
  /\ scans' = [scans EXCEPT ![s] = NewRow("collector")]
  /\ collect' = [collect EXCEPT ![s] = "mark"]
  /\ UNCHANGED <<poll, run, posts, faults, lapsed>>

\* An error ends handleCollectScan, the other two go on.
CollectMark == \E s \in Scans :
  /\ collect[s] = "mark"
  /\ \/ UpdateScanRunning(s) /\ collect' = [collect EXCEPT ![s] = "ingest"] /\ NoFault
     \/ /\ UNCHANGED scans /\ Fault
        /\ \E pc \in {"ingest", "none"} : collect' = [collect EXCEPT ![s] = pc]
  /\ UNCHANGED <<poll, run, posts, lapsed>>

CollectFinish == \E s \in Scans :
  /\ collect[s] = "ingest"
  /\ Stmt(CompleteScan(s)) \/ Stmt(FailScan(s))
  /\ collect' = [collect EXCEPT ![s] = "none"]
  /\ UNCHANGED <<poll, run, posts, lapsed>>

\* handleDeleteScan.
DeleteScan == \E s \in Scans :
  /\ Exists(s)
  /\ scans' = [scans EXCEPT ![s] = [Unclaimed(@) EXCEPT !.st = "gone"]]
  /\ UNCHANGED <<poll, run, posts, collect, faults, lapsed>>

\* A claim is not renewed in time: it is not being run yet when it may be
\* stale before the first heartbeat, or is stale before a cancelled run ends.
Overdue(s, age) ==
  \/ age # NULL /\ age > LeaseTTL - Interval /\ \E w \in Workers : s \in poll[w]
  \/ age = Stale /\ \E x \in Runs : run[x].scan = s /\ run[x].pc = "release"

\* Time passes; a run that is not stalled sends its heartbeat first.
Elapse ==
  /\ \A x \in Runs : Active(x) => run[x].beat < Interval
  /\ scans' = [s \in Scans |-> IF scans[s].age \in 0 .. LeaseTTL
                               THEN [scans[s] EXCEPT !.age = scans[s].age + 1] ELSE scans[s]]
  /\ run' = [x \in Runs |-> IF Active(x) THEN [run[x] EXCEPT !.beat = run[x].beat + 1] ELSE run[x]]
  /\ lapsed' = lapsed \cup {s \in Scans : Overdue(s, scans'[s].age)}
  /\ UNCHANGED <<poll, posts, collect, faults>>

RunStep(x) == MarkRunning(x) \/ FinishRun(x) \/ FailRun(x) \/ ReleaseRun(x)
PollStep(w) == ClaimNextScans(w) \/ StartScans(w)

Next ==
  \/ \E x \in Runs : RunStep(x) \/ Heartbeat(x)
  \/ \E w \in Workers : PollStep(w) \/ Shutdown(w) \/ Crash(w)
  \/ CountPending \/ InsertScan \/ CollectInsert \/ CollectMark \/ CollectFinish
  \/ DeleteScan \/ Elapse

Spec == Init /\ [][Next]_vars

\* Workers keep polling, heartbeats and runs go on (every probe has a
\* timeout), time passes.  Clients and collector requests owe nothing.
Fairness == /\ \A x \in Runs : WF_vars(RunStep(x)) /\ WF_vars(Heartbeat(x))
            /\ \A w \in Workers : WF_vars(PollStep(w))
            /\ WF_vars(Elapse)
FairSpec == Spec /\ Fairness

-----------------------------------------------------------------------------
(* Properties.                                                             *)

\* "At most one replica runs a given scan id": claims and heartbeats keep a
\* scan in one pair of hands, as long as its holder renews the claim in time.
OneRunner ==
  \A s \in Scans \ lapsed :
    scans[s].src = "network" =>
      /\ \A v, w \in Workers : Holds(v, s) /\ Holds(w, s) => v = w
      /\ \A x, y \in Runs : run[x].scan = s /\ run[y].scan = s => x = y

\* "Heartbeat at half the lease TTL so a healthy worker is never stolen": a
\* network scan that is being run is claimed by the worker that runs it, and
\* the claim is not stale, unless a heartbeat failed or the run began late.
\* It takes HeartbeatInTime: with a lease under a second it does not hold.
HealthyKeepsClaim ==
  \A x \in Runs :
    LET s == run[x].scan IN
    Active(x) /\ s \notin lapsed /\ scans[s].src = "network"
      => scans[s].st = "gone" \/ (Mine(x[1], s) /\ scans[s].age <= LeaseTTL)

\* The outcome of a network scan is final unless its holder did not renew the
\* claim in time: no late UpdateScanRunning, CompleteScan or FailScan changes it.
OutcomeFinal ==
  [][\A s \in Scans \ lapsed' :
       scans[s].st \in Ended /\ scans[s].src = "network"
         => scans'[s].st \in {scans[s].st, "gone"}]_vars

\* Backpressure: the queue exceeds SCAN_QUEUE_MAX_PENDING by less than the
\* number of POST /scans requests served at a time (each counts its own
\* snapshot).
QueueBounded ==
  Cardinality({s \in Pending : scans[s].src = "network"} \cup posts)
    <= MaxPending - 1 + MaxPosts

\* Every scan that was queued ends (or is deleted), whatever worker crashed
\* or shut down with its claim, unless a holder does not renew its claim in
\* time: then two runs of a scan may reopen and complete it by turns for ever, and
\* the scans queued behind it starve.
EveryScanEnds ==
  \A s \in Scans : scans[s].st \in {"pending", "running"}
                     ~> scans[s].st \in Ended \cup {"gone"} \/ lapsed # {}

=============================================================================
