------------------------------- MODULE ScanRun -------------------------------
(***************************************************************************)
(* One run of a scan: Runner.Run (internal/scanrunner/runner.go) with its  *)
(* probe goroutines, the counters they share                               *)
(* (internal/store/diagnostics.go) and the progress updates they send, and *)
(* the collectors, which take their items one after the other              *)
(* (internal/collectors, internal/api/handlers_collect.go).                *)
(*                                                                         *)
(* Who may run a scan is ScanQueue's subject, what an upsert writes that   *)
(* of CertificateInventory: here it returns or fails.                      *)
(***************************************************************************)
EXTENDS Integers, FiniteSets

CONSTANTS
  Targets,        \* targets of a network scan, items of a collector request
  Concurrency,    \* slots of the semaphore
  ProgressEvery,  \* a progress update after this many targets (10)
  MaxSamples,     \* MaxFailureSamples (50)
  MaxFaults       \* bound: failed statements of the run on its own row

ASSUME RunAssumption ==
  /\ IsFiniteSet(Targets) /\ Concurrency \in Nat \ {0}
  /\ ProgressEvery \in Nat \ {0} /\ MaxSamples \in Nat /\ MaxFaults \in Nat

VARIABLES
  run,     \* the run: its kind and whether it goes on
  row,     \* its row in the scans table; own: this run has written the numbers
  stats,   \* ScanStats, each access under the mutex
  probe,   \* per target: the goroutine, with the counters it has read
  slots,   \* free slots of the semaphore
  faults   \* faults so far

vars == <<run, row, stats, probe, slots, faults>>

N == Cardinality(Targets)
Counters == [scanned : 0 .. N, succeeded : 0 .. N, failed : 0 .. N, certs : 0 .. N,
             upsertFailures : 0 .. N, samples : 0 .. MaxSamples]
Working == {"probe", "failed", "succeeded", "upsert", "found", "upsertFailed", "read",
            "enrich", "progress"}
Probe == [pc : Working \cup {"waiting", "done"}, curScanned : 0 .. N, curCerts : 0 .. N]

TypeOK ==
  /\ run \in [kind : {"network", "collector"}, pc : {"running", "ended"}]
  /\ row \in [st : {"running", "completed", "failed", "gone"}, n : Counters, own : BOOLEAN]
  /\ stats \in Counters
  /\ probe \in [Targets -> Probe]
  /\ slots \in 0 .. Concurrency
  /\ faults \in 0 .. MaxFaults

Zero == [scanned |-> 0, succeeded |-> 0, failed |-> 0, certs |-> 0, upsertFailures |-> 0,
         samples |-> 0]
NoProbe == [pc |-> "waiting", curScanned |-> 0, curCerts |-> 0]

\* UpdateScanRunning has been done: it leaves the progress that an earlier run
\* of a reclaimed scan wrote, while the counters of this run begin at zero.  A
\* collector has inserted its own row.
Init ==
  /\ run \in [kind : {"network", "collector"}, pc : {"running"}]
  /\ \E scanned, certs \in 0 .. N :
       /\ run.kind = "collector" => scanned = 0 /\ certs = 0
       /\ row = [st |-> "running", own |-> FALSE,
                 n |-> [Zero EXCEPT !.scanned = scanned, !.certs = certs]]
  /\ stats = Zero
  /\ probe = [t \in Targets |-> NoProbe]
  /\ slots = Concurrency /\ faults = 0

-----------------------------------------------------------------------------
(* Helpers.                                                                *)

Fault == faults < MaxFaults /\ faults' = faults + 1
NoFault == UNCHANGED faults
Network == run.kind = "network" /\ run.pc = "running"
Collector == run.kind = "collector" /\ run.pc = "running"

\* An UPDATE of the scan's row, without effect when it was deleted.
UpdateRow(new) == row' = IF row.st = "gone" THEN row ELSE new
Goto(t, pc) == probe' = [probe EXCEPT ![t].pc = pc]

\* addSample: up to MaxFailureSamples.
\* Mutant: one more sample than the cap.
addSample_OffByOne(n) == IF n > MaxSamples THEN n ELSE n + 1
addSample(n) == IF n >= MaxSamples THEN n ELSE n + 1

-----------------------------------------------------------------------------
(* A probe goroutine.                                                      *)

\* wg.Add, and a slot of the semaphore for the goroutine.
Acquire(t) ==
  /\ Network /\ probe[t].pc = "waiting" /\ slots > 0
  /\ slots' = slots - 1 /\ Goto(t, "probe")
  /\ UNCHANGED <<run, row, stats, faults>>

\* Scanner.Probe: a handshake or none; the target is counted as scanned.
Handshake(t) ==
  /\ probe[t].pc = "probe"
  /\ stats' = [stats EXCEPT !.scanned = @ + 1]
  /\ \E outcome \in {"failed", "succeeded"} :
       probe' = [probe EXCEPT ![t].pc = outcome, ![t].curScanned = stats.scanned + 1]
  /\ UNCHANGED <<run, row, slots, faults>>

RecordProbeFailure(t) ==
  /\ probe[t].pc = "failed" /\ Goto(t, "read")
  /\ stats' = [stats EXCEPT !.failed = @ + 1, !.samples = addSample(@)]
  /\ UNCHANGED <<run, row, slots, faults>>

RecordProbeSuccess(t) ==
  /\ probe[t].pc = "succeeded" /\ Goto(t, "upsert")
  /\ stats' = [stats EXCEPT !.succeeded = @ + 1]
  /\ UNCHANGED <<run, row, slots, faults>>

\* UpsertCertificate returns or fails (always when the scan was deleted: an
\* observation refers to it).  A cancelled context shows as this failure, and
\* as failed probes and updates: the run still goes through its targets.
UpsertCertificate(t) ==
  /\ probe[t].pc = "upsert"
  /\ \/ row.st # "gone" /\ Goto(t, "found")
     \/ Goto(t, "upsertFailed")
  /\ UNCHANGED <<run, row, stats, slots, faults>>

\* RecordCertFound with the read of CertsFound; a collector takes its next item.
Found(t) ==
  /\ probe[t].pc = "found"
  /\ stats' = [stats EXCEPT !.certs = @ + 1, !.succeeded = IF Collector THEN @ + 1 ELSE @]
  /\ probe' = [probe EXCEPT ![t].pc = IF Collector THEN "done" ELSE "enrich",
                            ![t].curCerts = stats.certs + 1]
  /\ UNCHANGED <<run, row, slots, faults>>

RecordUpsertFailure(t) ==
  /\ probe[t].pc = "upsertFailed" /\ Network /\ Goto(t, "read")
  /\ stats' = [stats EXCEPT !.upsertFailures = @ + 1, !.samples = addSample(@)]
  /\ UNCHANGED <<run, row, slots, faults>>

\* After a failure CertsFound is read on its own, for the update.
ReadCertsFound(t) ==
  /\ probe[t].pc = "read"
  /\ probe' = [probe EXCEPT ![t].pc = "progress", ![t].curCerts = stats.certs]
  /\ UNCHANGED <<run, row, stats, slots, faults>>

\* MarkRevoked from a staple and UpsertIssuer for the chain: errors are only
\* logged, the goroutine goes on with the counters it has read.
Enrich(t) ==
  /\ probe[t].pc = "enrich" /\ Goto(t, "progress")
  /\ UNCHANGED <<run, row, stats, slots, faults>>

Due(n) == n % ProgressEvery = 0 \/ n = N

\* Mutant: the slot is given back only with the last update.
Freed_LastOnly(t) == IF probe[t].curScanned = N THEN slots + 1 ELSE slots
\* defer: the slot is given back on every path.
Freed(t) == slots + 1

\* UpdateScanProgress, every ProgressEvery targets and after the last, outside
\* the mutex: the updates of two probes reach the row in either order.
UpdateScanProgress(t) ==
  LET p == probe[t]
      new == [row EXCEPT !.n = [@ EXCEPT !.scanned = p.curScanned, !.certs = p.curCerts],
                         !.own = TRUE] IN
  /\ p.pc = "progress" /\ Goto(t, "done") /\ slots' = Freed(t)
  /\ \/ Due(p.curScanned) /\ UpdateRow(new) /\ NoFault
     \/ Due(p.curScanned) /\ UNCHANGED row /\ Fault
     \/ ~Due(p.curScanned) /\ UNCHANGED row /\ NoFault
  /\ UNCHANGED <<run, stats>>

-----------------------------------------------------------------------------
(* A collector request.                                                    *)

\* IngestPublicPEMs takes the next item: it parses, or is skipped, or holds a
\* private key, which ends the request.
NextItem(t) ==
  /\ Collector /\ probe[t].pc = "waiting"
  /\ \A u \in Targets : probe[u].pc \notin Working
  /\ \/ Goto(t, "upsert") /\ UNCHANGED stats
     \/ Goto(t, "done") /\ stats' = [stats EXCEPT !.failed = @ + 1]
     \/ Goto(t, "upsertFailed") /\ UNCHANGED stats
  /\ UNCHANGED <<run, row, slots, faults>>

\* It returned an error: FailScan; what was ingested before stays.
FailScan(t) ==
  /\ Collector /\ probe[t].pc = "upsertFailed"
  /\ run' = [run EXCEPT !.pc = "ended"] /\ Goto(t, "done")
  /\ \/ UpdateRow([row EXCEPT !.st = "failed"]) /\ NoFault
     \/ UNCHANGED row /\ Fault
  /\ UNCHANGED <<stats, slots>>

-----------------------------------------------------------------------------
(* The end of the run.                                                     *)

\* Mutant: the run does not wait for the progress updates.
AllDone_NotProgress == \A t \in Targets : probe[t].pc \in {"progress", "done"}
\* wg.Wait: every goroutine has returned.
AllDone == \A t \in Targets : probe[t].pc = "done"

\* A collector counts every item as scanned.
Summary == IF Collector THEN [stats EXCEPT !.scanned = N] ELSE stats
\* CompleteScan; an error is only logged.
CompleteScan ==
  /\ run.pc = "running" /\ AllDone
  /\ run' = [run EXCEPT !.pc = "ended"]
  /\ \/ UpdateRow([st |-> "completed", n |-> Summary, own |-> TRUE]) /\ NoFault
     \/ UNCHANGED row /\ Fault
  /\ UNCHANGED <<stats, probe, slots>>

\* DELETE FROM scans: also of a scan that is being run.
DeleteScan ==
  /\ row.st # "gone" /\ row' = [st |-> "gone", n |-> Zero, own |-> TRUE]
  /\ UNCHANGED <<run, stats, probe, slots, faults>>

-----------------------------------------------------------------------------
ProbeStep(t) ==
  \/ Acquire(t) \/ Handshake(t) \/ RecordProbeFailure(t) \/ RecordProbeSuccess(t)
  \/ UpsertCertificate(t) \/ Found(t) \/ RecordUpsertFailure(t) \/ ReadCertsFound(t)
  \/ Enrich(t) \/ UpdateScanProgress(t) \/ NextItem(t) \/ FailScan(t)
RunStep == CompleteScan \/ \E t \in Targets : ProbeStep(t)

Next == RunStep \/ DeleteScan

Spec == Init /\ [][Next]_vars

\* Goroutines are scheduled, and every handshake and statement has a timeout.
FairSpec == Spec /\ WF_vars(RunStep)

-----------------------------------------------------------------------------
(* Properties.                                                             *)

\* The row of a completed scan says what the run did: every target was
\* scanned, succeeded or failed, and every success is a certificate found or a
\* failed upsert; no progress update that was overtaken (UpdateScanProgress is
\* sent outside the mutex) reaches the row after CompleteScan.  Until then the
\* row is not ahead of the run, once the run has written it.
CountersTruthful ==
  LET n == row.n IN
  /\ row.st = "completed" =>
       /\ n.scanned = N /\ n.succeeded + n.failed = N
       /\ n.certs + n.upsertFailures = n.succeeded
       /\ n = [stats EXCEPT !.scanned = N]
  /\ row.st # "completed" /\ row.own => n.scanned <= stats.scanned /\ n.certs <= stats.certs

\* No more probes than slots, and no slot is lost: when the run has ended the
\* semaphore is full again, whatever path each goroutine took.
SlotsConserved ==
  slots + Cardinality({t \in Targets : Network /\ probe[t].pc \in Working}) = Concurrency

\* Every run ends, however many targets there are to a slot.
EveryRunEnds == run.pc = "running" ~> run.pc = "ended"

=============================================================================
