-------------------------- MODULE ScanQueue_proofs --------------------------
(***************************************************************************)
(* Proofs about the scan queue, for any number of scans, workers, slots,   *)
(* requests and faults.                                                    *)
(***************************************************************************)
EXTENDS ScanQueue, FiniteSetTheorems, TLAPS

\* A claim is in order: the row is the worker's and not stale.
Claimed(w, s, limit) == scans[s].st = "gone" \/ (Mine(w, s) /\ scans[s].age <= limit)

\* Where a network scan that no holder let lapse may be, when the heartbeat is
\* shorter than the lease: whoever holds it has a claim that stays fresh until
\* the next heartbeat.
FreshPoll == HeartbeatInTime => \A w \in Workers : \A s \in poll[w] \ lapsed :
  scans[s].src = "network" => Claimed(w, s, LeaseTTL - Interval)
FreshRun == HeartbeatInTime => \A x \in Runs :
  Active(x) /\ run[x].scan \notin lapsed /\ scans[run[x].scan].src = "network"
    => Claimed(x[1], run[x].scan, LeaseTTL - Interval + run[x].beat)
FreshRelease == HeartbeatInTime => \A x \in Runs :
  run[x].pc = "release" /\ run[x].scan \notin lapsed /\ scans[run[x].scan].src = "network"
    => Claimed(x[1], run[x].scan, LeaseTTL)

\* ... and there is one holder, in one place.
OnePlace == HeartbeatInTime => \A s \in Scans \ lapsed : scans[s].src = "network" =>
  /\ \A v, w \in Workers : s \in poll[v] /\ s \in poll[w] => v = w
  /\ \A w \in Workers, x \in Runs : s \in poll[w] => run[x].scan # s
  /\ \A x, y \in Runs : run[x].scan = s /\ run[y].scan = s => x = y

\* Requests work on rows of their own.
OwnRows == /\ \A s \in posts : scans[s].st = "absent" /\ scans[s].src = "network"
           /\ \A s \in Scans : collect[s] # "none" => scans[s].src = "collector"
           /\ \A s \in Scans : scans[s].st = "absent" => scans[s].src = "network"

IInv == TypeOK /\ FreshPoll /\ FreshRun /\ FreshRelease /\ OnePlace /\ OwnRows

-----------------------------------------------------------------------------
\* The assumptions in one fact.
LEMMA Constants ==
  /\ NumScans \in Nat /\ LeaseTTL \in Nat \ {0} /\ MaxFaults \in Nat
  /\ MaxPending \in Nat \ {0} /\ MaxPosts \in Nat \ {0}
  /\ NULL \notin Int /\ NULL \notin Workers /\ Scans \subseteq Int /\ NULL \notin Scans
  /\ Interval \in Nat \ {0} /\ (HeartbeatInTime => Interval <= LeaseTTL)
  /\ Stale = LeaseTTL + 1
  /\ \A x \in Runs : x[1] \in Workers
  BY NumbersAssumption, NullAssumption DEF Scans, Interval, Stale, Runs, HeartbeatInTime

\* The initial state satisfies the invariant.
LEMMA InitIInv == Init => IInv
  <1> SUFFICES ASSUME Init PROVE IInv
    OBVIOUS
  <1>1. NoScan \in Scan /\ FreeSlot \in Run
    BY Constants DEF NoScan, FreeSlot, Scan, Run
  <1>2. TypeOK
    BY <1>1, Constants DEF Init, TypeOK, NoScan, FreeSlot, CollectPc
  <1> QED
    BY <1>2, Constants
       DEF Init, IInv, FreshPoll, FreshRun, FreshRelease, OnePlace, OwnRows, Active,
           NoScan, FreeSlot

\* Rows and slots have their types.
LEMMA Typed ==
  ASSUME TypeOK
  PROVE  /\ \A s \in Scans : /\ scans[s] \in Scan /\ scans[s].by \in Workers \cup {NULL}
                             /\ scans[s].age \in (0 .. Stale) \cup {NULL}
                             /\ scans[s].src \in {"network", "collector"}
                             /\ scans[s].by = NULL <=> scans[s].age = NULL
         /\ \A x \in Runs : /\ run[x] \in Run /\ run[x].beat \in 0 .. Interval
                            /\ run[x].pc # "free" => run[x].scan \in Scans
                            /\ run[x].pc = "free" <=> run[x].scan = NULL
         /\ \A w \in Workers : poll[w] \subseteq Scans
  BY DEF TypeOK, Scan, Run

\* A claim is cleared and the rest of the row kept.
LEMMA UnclaimedType ==
  ASSUME TypeOK, NEW s \in Scans
  PROVE  /\ Unclaimed(scans[s]) \in Scan /\ Unclaimed(scans[s]).by = NULL
         /\ Unclaimed(scans[s]).age = NULL /\ Unclaimed(scans[s]).st = scans[s].st
         /\ Unclaimed(scans[s]).src = scans[s].src
  <1>1. scans[s] \in Scan
    BY DEF TypeOK
  <1> QED BY <1>1 DEF Scan, Ended, Unclaimed

-----------------------------------------------------------------------------
(* What the statements do.                                                 *)

RowsTyped == /\ scans' \in [Scans -> Scan]
             /\ \A s \in Scans : scans'[s].by = NULL <=> scans'[s].age = NULL
OtherRows(s) == \A r \in Scans \ {s} : scans'[r] = scans[r]
FaultOK == faults' \in 0 .. MaxFaults

\* Row s exists as before, and has the source it had.
SameRow(s) == /\ scans'[s].src = scans[s].src
              /\ scans[s].st = "absent" <=> scans'[s].st = "absent"
              /\ scans'[s].st = "pending" => scans[s].st = "pending"
\* Row s keeps its claim.
SameClaim(s) == /\ scans'[s].by = scans[s].by /\ scans'[s].age = scans[s].age
                /\ scans'[s].src = scans[s].src
                /\ scans[s].st \in {"running", "gone"} => scans'[s].st = scans[s].st

\* An untouched row keeps everything.
LEMMA Untouched ==
  ASSUME NEW s \in Scans, scans'[s] = scans[s]
  PROVE  SameClaim(s) /\ SameRow(s)
  BY DEF SameClaim, SameRow

\* Nothing is written.
LEMMA NoWrite ==
  ASSUME TypeOK, UNCHANGED scans
  PROVE  RowsTyped /\ \A s \in Scans : SameClaim(s) /\ SameRow(s)
  BY DEF TypeOK, RowsTyped, SameClaim, SameRow

\* Faults stay within their bound.
LEMMA FaultType == ASSUME TypeOK, Fault \/ NoFault PROVE FaultOK
  BY Constants DEF TypeOK, Fault, NoFault, FaultOK

\* One row is written.
LEMMA WriteRow ==
  ASSUME TypeOK, NEW s \in Scans, NEW row \in Scan, row.by = NULL <=> row.age = NULL,
         scans' = [scans EXCEPT ![s] = row]
  PROVE  RowsTyped /\ OtherRows(s) /\ scans'[s] = row
  BY DEF TypeOK, RowsTyped, OtherRows

\* UpdateScanRunning keeps the claim, whoever has it.
LEMMA RunningRow ==
  ASSUME TypeOK, NEW s \in Scans, UpdateScanRunning(s)
  PROVE  RowsTyped /\ OtherRows(s) /\ SameClaim(s) /\ SameRow(s)
  <1>1. scans[s] \in Scan
    BY DEF TypeOK
  <1>2. [scans[s] EXCEPT !.st = "running"] \in Scan
    BY <1>1 DEF Scan
  <1> QED BY <1>1, <1>2 DEF UpdateScanRunning, Update, Exists, TypeOK, Scan,
                           RowsTyped, OtherRows, SameClaim, SameRow

\* CompleteScan and FailScan end the row and clear the claim.
LEMMA EndRow ==
  ASSUME TypeOK, NEW s \in Scans, NEW st \in {"completed", "failed"}, End(s, st)
  PROVE  RowsTyped /\ OtherRows(s) /\ SameRow(s)
  <1>1. CASE ~Exists(s)
    <2>1. UNCHANGED scans
      BY <1>1 DEF End, Update
    <2> QED BY <2>1, NoWrite DEF OtherRows
  <1>2. CASE Exists(s)
    <2>1. PICK row \in Scan : /\ row.by = NULL /\ row.age = NULL /\ row.st = st
                              /\ row.src = scans[s].src
                              /\ scans' = [scans EXCEPT ![s] = row]
      <3>1. scans' = [scans EXCEPT ![s] = [scans[s] EXCEPT !.st = st, !.by = NULL, !.age = NULL]]
        BY <1>2 DEF End, Update
      <3>2. PICK row : row = [scans[s] EXCEPT !.st = st, !.by = NULL, !.age = NULL]
        OBVIOUS
      <3>0. scans[s] \in Scan
        BY DEF TypeOK
      <3>3. row \in Scan /\ row.by = NULL /\ row.age = NULL
        BY <3>0, <3>2 DEF Scan, Ended
      <3>4. row.st = st /\ row.src = scans[s].src
        BY <3>0, <3>2 DEF Scan
      <3> QED BY <3>1, <3>2, <3>3, <3>4
    <2>2. RowsTyped /\ OtherRows(s) /\ scans'[s] = row
      BY <2>1, WriteRow
    <2> QED BY <2>1, <2>2, <1>2 DEF SameRow, Exists
  <1> QED BY <1>1, <1>2

\* ReleaseScanClaim clears a claim and nothing else.
LEMMA ReleaseRow ==
  ASSUME TypeOK, NEW s \in Scans, NEW w \in Workers, ReleaseScanClaim(w, s)
  PROVE  /\ RowsTyped /\ OtherRows(s) /\ SameRow(s) /\ scans'[s].st = scans[s].st
  <1>1. CASE ~Mine(w, s)
    <2>1. UNCHANGED scans
      BY <1>1 DEF ReleaseScanClaim
    <2> QED BY <2>1, NoWrite DEF OtherRows
  <1>2. CASE Mine(w, s)
    <2>0. /\ Unclaimed(scans[s]) \in Scan /\ Unclaimed(scans[s]).by = NULL
          /\ Unclaimed(scans[s]).age = NULL /\ Unclaimed(scans[s]).st = scans[s].st
          /\ Unclaimed(scans[s]).src = scans[s].src
      BY UnclaimedType
    <2>1. PICK row \in Scan : /\ row.by = NULL /\ row.age = NULL /\ row.st = scans[s].st
                              /\ row.src = scans[s].src
                              /\ scans' = [scans EXCEPT ![s] = row]
      BY <1>2, <2>0 DEF ReleaseScanClaim
    <2>2. RowsTyped /\ OtherRows(s) /\ scans'[s] = row
      BY <2>1, WriteRow
    <2> QED BY <2>1, <2>2 DEF SameRow
  <1> QED BY <1>1, <1>2

-----------------------------------------------------------------------------
(* Steps by which nobody gets hold of a scan.                              *)

Unheld(s) == (\A w \in Workers : s \notin poll'[w]) /\ (\A x \in Runs : run'[x].scan # s)
KeptRow(s) == \/ ~HeartbeatInTime
              \/ scans'[s].src = "collector"
              \/ s \in lapsed'
              \/ scans'[s].src = scans[s].src
                 /\ (scans'[s].st = "gone" \/ SameClaim(s) \/ Unheld(s))
KeptRun(x) == /\ run'[x].scan \in {run[x].scan, NULL}
              /\ Active(x)' => Active(x) /\ run'[x].beat = run[x].beat
              /\ run'[x].pc = "release" => run[x].pc # "free"

\* They keep every claim in order.
LEMMA Keep ==
  ASSUME IInv, TypeOK', OwnRows', lapsed \subseteq lapsed',
         \A w \in Workers : poll'[w] \subseteq poll[w],
         \A x \in Runs : KeptRun(x), \A s \in Scans : KeptRow(s)
  PROVE  IInv'
  <1>1. FreshPoll'
    <2> SUFFICES ASSUME HeartbeatInTime, NEW w \in Workers, NEW s \in poll'[w] \ lapsed', scans'[s].src = "network"
                 PROVE  Claimed(w, s, LeaseTTL - Interval)'
      BY DEF FreshPoll
    <2>1. s \in Scans /\ s \in poll[w] \ lapsed /\ ~Unheld(s)
      BY DEF TypeOK, Unheld
    <2>2. scans[s].src = "network" /\ (scans'[s].st = "gone" \/ SameClaim(s))
      BY <2>1 DEF KeptRow
    <2>3. Claimed(w, s, LeaseTTL - Interval)
      BY <2>1, <2>2 DEF IInv, FreshPoll
    <2> QED BY <2>2, <2>3 DEF Claimed, SameClaim, Mine
  <1>2. FreshRun'
    <2> SUFFICES ASSUME HeartbeatInTime, NEW x \in Runs, Active(x)', run'[x].scan \notin lapsed',
                        scans'[run'[x].scan].src = "network"
                 PROVE  Claimed(x[1], run[x].scan, LeaseTTL - Interval + run[x].beat)'
      BY DEF FreshRun
    <2>1. PICK s \in Scans : s = run[x].scan /\ s = run'[x].scan
      BY Typed, Constants DEF IInv, TypeOK, KeptRun, Active, Run
    <2>2. scans[s].src = "network" /\ (scans'[s].st = "gone" \/ SameClaim(s))
      BY <2>1 DEF KeptRow, Unheld
    <2>3. Claimed(x[1], s, LeaseTTL - Interval + run[x].beat)
      BY <2>1, <2>2 DEF IInv, FreshRun, KeptRun
    <2>4. run'[x].beat = run[x].beat
      BY DEF KeptRun
    <2> QED BY <2>1, <2>2, <2>3, <2>4 DEF Claimed, SameClaim, Mine
  <1>3. FreshRelease'
    <2> SUFFICES ASSUME HeartbeatInTime, NEW x \in Runs, run'[x].pc = "release", run'[x].scan \notin lapsed',
                        scans'[run'[x].scan].src = "network"
                 PROVE  Claimed(x[1], run[x].scan, LeaseTTL)'
      BY DEF FreshRelease
    <2>1. PICK s \in Scans : s = run[x].scan /\ s = run'[x].scan
      BY Typed, Constants DEF IInv, TypeOK, KeptRun, Run
    <2>2. scans[s].src = "network" /\ (scans'[s].st = "gone" \/ SameClaim(s))
      BY <2>1 DEF KeptRow, Unheld
    <2>3. run[x].beat \in 0 .. Interval /\ s \in Scans /\ scans[s].age \in (0 .. Stale) \cup {NULL}
      BY <2>1, Typed DEF IInv
    <2>4. CASE run[x].pc = "release"
      <3>1. Claimed(x[1], s, LeaseTTL)
        BY <2>4, <2>1, <2>2 DEF IInv, FreshRelease
      <3> QED BY <2>1, <2>2, <3>1 DEF Claimed, SameClaim, Mine
    <2>5. CASE Active(x)
      <3>1. Claimed(x[1], s, LeaseTTL - Interval + run[x].beat)
        BY <2>5, <2>1, <2>2 DEF IInv, FreshRun
      <3>2. scans[s].by = x[1] => scans[s].age \in Int
        BY <2>3, Typed, Constants DEF IInv, Stale
      <3>3. Claimed(x[1], s, LeaseTTL)
        BY <3>1, <3>2, <2>3, Constants DEF Claimed, Mine
      <3> QED BY <2>1, <2>2, <3>3 DEF Claimed, SameClaim, Mine
    <2> QED BY <2>4, <2>5 DEF KeptRun, Active
  <1>4. OnePlace'
    <2> SUFFICES ASSUME HeartbeatInTime, NEW s \in Scans \ lapsed', scans'[s].src = "network"
                 PROVE  /\ \A v, w \in Workers : s \in poll'[v] /\ s \in poll'[w] => v = w
                        /\ \A w \in Workers, x \in Runs : s \in poll'[w] => run'[x].scan # s
                        /\ \A x, y \in Runs : run'[x].scan = s /\ run'[y].scan = s => x = y
      BY DEF OnePlace
    <2>1. s \notin lapsed /\ s # NULL /\ scans[s].src = "network"
      BY Constants DEF KeptRow
    <2>2. \A x \in Runs : run'[x].scan = s => run[x].scan = s
      BY <2>1 DEF KeptRun
    <2> QED BY <2>1, <2>2 DEF IInv, OnePlace
  <1> QED BY <1>1, <1>2, <1>3, <1>4 DEF IInv

\* Requests keep to their rows when none is begun.
LEMMA KeepRows ==
  ASSUME IInv, \A s \in Scans : SameRow(s), posts' = posts,
         \A s \in Scans : collect'[s] # "none" => collect[s] # "none"
  PROVE  OwnRows'
  BY DEF IInv, TypeOK, OwnRows, SameRow

\* One slot moves on or is freed.
LEMMA SlotType ==
  ASSUME TypeOK, NEW x \in Runs, run[x].pc # "free",
         \/ Release(x)
         \/ \E pc \in {"start", "probe", "fail", "release"} : Goto(x, pc)
  PROVE  /\ run' \in [Runs -> Run]
         /\ \A y \in Runs : run'[y].pc = "free" <=> run'[y].scan = NULL
         /\ \A y \in Runs \ {x} : run'[y] = run[y]
         /\ run'[x].scan \in {run[x].scan, NULL}
         /\ Active(x)' => run'[x].beat = run[x].beat
         /\ Release(x) => run'[x].pc = "free" /\ run'[x].scan = NULL
  <1>0. run[x] \in Run /\ run \in [Runs -> Run]
    BY DEF TypeOK
  <1>1. CASE Release(x)
    <2>1. FreeSlot \in Run /\ FreeSlot.pc = "free" /\ FreeSlot.scan = NULL
      BY Constants DEF FreeSlot, Run
    <2>2. run' = [run EXCEPT ![x] = FreeSlot]
      BY <1>1 DEF Release
    <2> QED BY <2>1, <2>2, <1>0 DEF TypeOK, Active
  <1>2. CASE \E pc \in {"start", "probe", "fail", "release"} : Goto(x, pc)
    <2>1. PICK pc \in {"start", "probe", "fail", "release"} : Goto(x, pc)
      BY <1>2
    <2>2. [run[x] EXCEPT !.pc = pc] \in Run
      BY <1>0 DEF Run
    <2>3. run' = [run EXCEPT ![x] = [run[x] EXCEPT !.pc = pc]]
      BY <2>1 DEF Goto
    <2>4. run'[x] = [run[x] EXCEPT !.pc = pc]
      BY <2>3, <1>0
    <2>5. run'[x].scan = run[x].scan /\ run'[x].beat = run[x].beat /\ run'[x].pc = pc
      BY <2>4, <1>0 DEF Run
    <2>6. ~Release(x)
      BY <2>5, <1>0 DEF Release, FreeSlot
    <2> QED BY <2>2, <2>3, <2>5, <2>6, <1>0 DEF TypeOK
  <1> QED BY <1>1, <1>2

-----------------------------------------------------------------------------
(* The actions.                                                            *)

\* The rest of TypeOK.
LEMMA TypeFrom ==
  ASSUME TypeOK, RowsTyped, FaultOK, UNCHANGED <<posts, collect>>,
         run' \in [Runs -> Run], \A y \in Runs : run'[y].pc = "free" <=> run'[y].scan = NULL,
         poll' \in [Workers -> SUBSET Scans], lapsed' \subseteq Scans
  PROVE  TypeOK'
  BY DEF TypeOK, RowsTyped, FaultOK

\* One slot takes a step, and at most its own row is written; the row's claim
\* is kept, or the slot is freed.
LEMMA SlotStep ==
  ASSUME IInv, NEW x \in Runs, run[x].pc # "free",
         NEW s \in Scans, s = run[x].scan,
         Release(x) \/ \E pc \in {"start", "probe", "fail", "release"} : Goto(x, pc),
         Release(x) \/ Active(x),
         RowsTyped, OtherRows(s), SameRow(s), SameClaim(s) \/ Release(x), FaultOK,
         UNCHANGED <<poll, posts, collect, lapsed>>
  PROVE  IInv'
  <1>0. TypeOK
    BY DEF IInv
  <1>1. /\ run' \in [Runs -> Run]
        /\ \A y \in Runs : run'[y].pc = "free" <=> run'[y].scan = NULL
        /\ \A y \in Runs \ {x} : run'[y] = run[y]
        /\ run'[x].scan \in {run[x].scan, NULL}
        /\ Active(x)' => run'[x].beat = run[x].beat
        /\ Release(x) => run'[x].pc = "free" /\ run'[x].scan = NULL
    BY <1>0, SlotType
  <1>2. TypeOK'
    BY <1>0, <1>1, TypeFrom DEF TypeOK
  <1>3. \A r \in Scans : SameRow(r)
    BY Untouched DEF OtherRows
  <1>4. OwnRows'
    BY <1>3, KeepRows
  <1>5. \A y \in Runs : KeptRun(y)
    <2> SUFFICES ASSUME NEW y \in Runs PROVE KeptRun(y)
      OBVIOUS
    <2>1. CASE y # x
      BY <2>1, <1>1 DEF KeptRun, Active
    <2>2. CASE y = x
      BY <2>2, <1>1 DEF KeptRun, Active
    <2> QED BY <2>1, <2>2
  <1>6. \A r \in Scans \ {s} : KeptRow(r)
    BY Untouched DEF OtherRows, KeptRow, SameClaim
  <1>7. KeptRow(s)
    <2>1. CASE SameClaim(s)
      BY <2>1 DEF KeptRow, SameClaim
    <2>2. CASE HeartbeatInTime /\ Release(x) /\ s \notin lapsed /\ scans[s].src = "network"
      <3>1. /\ \A w \in Workers : s \notin poll[w]
            /\ \A y \in Runs : run[y].scan = s => y = x
        BY <2>2 DEF IInv, OnePlace
      <3>2. \A y \in Runs : run'[y].scan # s
        BY <3>1, <2>2, <1>1, Constants
      <3>3. Unheld(s)
        BY <3>1, <3>2 DEF Unheld
      <3> QED BY <3>3 DEF KeptRow, SameRow
    <2>3. scans[s].src \in {"network", "collector"}
      BY <1>0, Typed
    <2> QED BY <2>1, <2>2, <2>3 DEF KeptRow, SameRow
  <1> QED BY <1>2, <1>4, <1>5, <1>6, <1>7, Keep

\* A statement that fails changes no row.
LEMMA StmtEnd ==
  ASSUME IInv, NEW s \in Scans, NEW st \in {"completed", "failed"}, Stmt(End(s, st))
  PROVE  RowsTyped /\ OtherRows(s) /\ SameRow(s) /\ FaultOK
  <1>0. TypeOK
    BY DEF IInv
  <1>1. CASE End(s, st) /\ NoFault
    BY <1>0, <1>1, EndRow, FaultType
  <1>2. CASE UNCHANGED scans /\ Fault
    BY <1>0, <1>2, NoWrite, FaultType DEF OtherRows
  <1> QED BY <1>1, <1>2 DEF Stmt

\* The steps of a run.
LEMMA RunSafe ==
  ASSUME IInv, NEW x \in Runs, RunStep(x)
  PROVE  IInv'
  <1>0. TypeOK
    BY DEF IInv
  <1>1. run[x].pc # "free"
    BY DEF RunStep, MarkRunning, FinishRun, FailRun, ReleaseRun
  <1>2. PICK s \in Scans : s = run[x].scan
    BY <1>0, <1>1, Typed
  <1>3. CASE MarkRunning(x)
    <2>1. Active(x) /\ UNCHANGED <<poll, posts, collect, lapsed>>
      BY <1>3 DEF MarkRunning, Active
    <2>2. CASE UpdateScanRunning(s) /\ Goto(x, "probe") /\ NoFault
      <3>1. RowsTyped /\ OtherRows(s) /\ SameClaim(s) /\ SameRow(s) /\ FaultOK
        BY <2>2, <1>0, RunningRow, FaultType
      <3>2. \E pc \in {"start", "probe", "fail", "release"} : Goto(x, pc)
        BY <2>2
      <3> QED BY <3>1, <3>2, <2>1, <1>1, <1>2, SlotStep
    <2>3. CASE UNCHANGED scans /\ Goto(x, "fail") /\ Fault
      <3>1. RowsTyped /\ OtherRows(s) /\ SameClaim(s) /\ SameRow(s) /\ FaultOK
        BY <2>3, <1>0, NoWrite, FaultType DEF OtherRows
      <3>2. \E pc \in {"start", "probe", "fail", "release"} : Goto(x, pc)
        BY <2>3
      <3> QED BY <3>1, <3>2, <2>1, <1>1, <1>2, SlotStep
    <2> QED BY <2>2, <2>3, <1>3, <1>2 DEF MarkRunning
  <1>4. CASE FinishRun(x)
    <2>1. Release(x) /\ Stmt(End(s, "completed")) /\ UNCHANGED <<poll, posts, collect, lapsed>>
      BY <1>4, <1>2 DEF FinishRun, Stmt, CompleteScan
    <2>2. RowsTyped /\ OtherRows(s) /\ SameRow(s) /\ FaultOK
      BY <2>1, StmtEnd
    <2> QED BY <2>1, <2>2, <1>1, <1>2, SlotStep
  <1>5. CASE FailRun(x)
    <2>1. Release(x) /\ Stmt(End(s, "failed")) /\ UNCHANGED <<poll, posts, collect, lapsed>>
      BY <1>5, <1>2 DEF FailRun, Stmt, FailScan
    <2>2. RowsTyped /\ OtherRows(s) /\ SameRow(s) /\ FaultOK
      BY <2>1, StmtEnd
    <2> QED BY <2>1, <2>2, <1>1, <1>2, SlotStep
  <1>6. CASE ReleaseRun(x)
    <2>1. Release(x) /\ UNCHANGED <<poll, posts, collect, lapsed>>
      BY <1>6 DEF ReleaseRun
    <2>2. CASE ReleaseScanClaim(x[1], s) /\ NoFault
      <3>1. RowsTyped /\ OtherRows(s) /\ SameRow(s) /\ FaultOK
        BY <2>2, <1>0, ReleaseRow, FaultType, Constants
      <3> QED BY <2>1, <3>1, <1>1, <1>2, SlotStep
    <2>3. CASE UNCHANGED scans /\ Fault
      <3>1. RowsTyped /\ OtherRows(s) /\ SameRow(s) /\ FaultOK
        BY <2>3, <1>0, NoWrite, FaultType DEF OtherRows
      <3> QED BY <2>1, <3>1, <1>1, <1>2, SlotStep
    <2> QED BY <2>2, <2>3, <1>6, <1>2 DEF ReleaseRun, Stmt
  <1> QED BY <1>3, <1>4, <1>5, <1>6 DEF RunStep

\* A worker claims scans that nobody holds, unless the holder was late.
LEMMA ClaimSafe ==
  ASSUME IInv, NEW w \in Workers, ClaimNextScans(w)
  PROVE  IInv'
  <1>0. TypeOK
    BY DEF IInv
  <1>1. PICK ids : /\ ids = Oldest(Claimable, Cardinality(Free(w)))
                   /\ poll' = [poll EXCEPT ![w] = ids]
                   /\ scans' = [s \in Scans |-> IF s \in ids
                        THEN [scans[s] EXCEPT !.st = "running", !.by = w, !.age = 0]
                        ELSE scans[s]]
    BY DEF ClaimNextScans
  <1>2. ids \subseteq Claimable /\ Claimable \subseteq Scans
    BY <1>1 DEF Oldest, Claimable
  <1>3. poll[w] = {} /\ UNCHANGED <<run, posts, collect, faults, lapsed>>
    BY DEF ClaimNextScans
  <1>4. \A s \in Scans \ ids : scans'[s] = scans[s]
    BY <1>1
  <1>5. \A s \in ids : /\ scans'[s] \in Scan /\ scans'[s].st = "running"
                       /\ scans'[s].by = w /\ scans'[s].age = 0
                       /\ scans'[s].src = scans[s].src
    <2> SUFFICES ASSUME NEW s \in ids
                 PROVE  /\ scans'[s] \in Scan /\ scans'[s].st = "running"
                        /\ scans'[s].by = w /\ scans'[s].age = 0
                        /\ scans'[s].src = scans[s].src
      OBVIOUS
    <2>1. s \in Scans /\ scans[s] \in Scan
      BY <1>0, <1>2 DEF TypeOK
    <2>2. scans'[s] = [scans[s] EXCEPT !.st = "running", !.by = w, !.age = 0]
      BY <2>1, <1>1
    <2>3. 0 \in 0 .. Stale
      BY Constants
    <2> QED BY <2>1, <2>2, <2>3 DEF Scan
  <1>6. RowsTyped
    <2>1. \A s \in Scans : scans'[s] \in Scan
      BY <1>0, <1>4, <1>5 DEF TypeOK
    <2>2. \A s \in Scans : scans'[s].by = NULL <=> scans'[s].age = NULL
      BY <1>0, <1>4, <1>5, Constants DEF TypeOK
    <2> QED BY <1>1, <2>1, <2>2 DEF RowsTyped
  <1>7. TypeOK'
    <2>1. poll' \in [Workers -> SUBSET Scans]
      BY <1>0, <1>1, <1>2 DEF TypeOK
    <2> QED BY <1>0, <1>3, <1>6, <2>1 DEF TypeOK, RowsTyped
  <1>8. OwnRows'
    <2>1. \A s \in Scans : scans'[s].src = scans[s].src
      BY <1>4, <1>5
    <2>2. \A s \in ids : scans[s].st # "absent"
      BY <1>2 DEF Claimable
    <2>3. \A s \in Scans : scans'[s].st = "absent" <=> scans[s].st = "absent"
      BY <1>4, <1>5, <2>2
    <2> QED BY <1>0, <1>3, <2>1, <2>3 DEF IInv, OwnRows, TypeOK
  <1>9. ASSUME HeartbeatInTime, NEW s \in ids \ lapsed, scans[s].src = "network"
        PROVE  (\A v \in Workers : s \notin poll[v]) /\ (\A x \in Runs : run[x].scan # s)
    <2>1. s \in Scans /\ scans[s].age \in (0 .. Stale) \cup {NULL}
      BY <1>0, <1>2, Typed
    <2>2. ~ \E v \in Workers : Claimed(v, s, LeaseTTL)
      BY <1>0, <1>2, <2>1, Typed, Constants DEF Claimable, Claimed, Mine
    <2>3. \A v \in Workers, limit \in 0 .. LeaseTTL : ~Claimed(v, s, limit)
      <3> SUFFICES ASSUME NEW v \in Workers, NEW limit \in 0 .. LeaseTTL, Claimed(v, s, limit)
                   PROVE  FALSE
        OBVIOUS
      <3>1. scans[s].st # "gone"
        BY <1>2 DEF Claimable
      <3>2. Mine(v, s) /\ scans[s].age <= limit
        BY <3>1 DEF Claimed
      <3>3. scans[s].age \in 0 .. Stale
        BY <3>2, <1>0, <2>1, Typed, Constants DEF Mine
      <3>4. scans[s].age <= LeaseTTL
        BY <3>2, <3>3, Constants
      <3> QED BY <2>2, <3>2, <3>4 DEF Claimed
    <2>4. LeaseTTL - Interval \in 0 .. LeaseTTL /\ LeaseTTL \in 0 .. LeaseTTL
      BY <1>9, Constants
    <2>5. \A v \in Workers : s \notin poll[v]
      BY <1>9, <2>3, <2>4 DEF IInv, FreshPoll
    <2>6. ASSUME NEW x \in Runs, run[x].scan = s PROVE FALSE
      <3>1. run[x].pc # "free" /\ run[x].beat \in 0 .. Interval /\ x[1] \in Workers
        BY <2>6, <2>1, <1>0, Typed, Constants
      <3>2. LeaseTTL - Interval + run[x].beat \in 0 .. LeaseTTL
        BY <1>9, <3>1, Constants
      <3>3. CASE Active(x)
        BY <1>9, <3>3, <3>1, <3>2, <2>3, <2>6 DEF IInv, FreshRun
      <3>4. CASE run[x].pc = "release"
        BY <1>9, <3>4, <3>1, <2>3, <2>4, <2>6 DEF IInv, FreshRelease
      <3> QED BY <3>1, <3>3, <3>4 DEF Active
    <2> QED BY <2>5, <2>6
  <1>10. \A v \in Workers \ {w} : poll'[v] = poll[v]
    BY <1>0, <1>1 DEF TypeOK
  <1>11. poll'[w] = ids
    BY <1>0, <1>1 DEF TypeOK
  <1>12. FreshPoll'
    <2> SUFFICES ASSUME HeartbeatInTime, NEW v \in Workers, NEW s \in poll'[v] \ lapsed', scans'[s].src = "network"
                 PROVE  Claimed(v, s, LeaseTTL - Interval)'
      BY DEF FreshPoll
    <2>1. s \in Scans /\ s \notin lapsed /\ scans[s].src = "network"
      BY <1>3, <1>4, <1>5, <1>7 DEF TypeOK
    <2>2. CASE v = w
      BY <2>2, <1>5, <1>11, Constants DEF Claimed, Mine
    <2>3. CASE v # w
      <3>1. s \in poll[v] /\ s \notin ids
        BY <2>1, <2>3, <1>9, <1>10
      <3>2. Claimed(v, s, LeaseTTL - Interval)
        BY <3>1, <2>1 DEF IInv, FreshPoll
      <3> QED BY <3>1, <3>2, <2>1, <1>4 DEF Claimed, Mine
    <2> QED BY <2>2, <2>3
  <1>13. ASSUME HeartbeatInTime, NEW x \in Runs, run[x].scan \in Scans \ lapsed, scans'[run[x].scan].src = "network"
         PROVE  scans'[run[x].scan] = scans[run[x].scan]
    BY <1>13, <1>4, <1>5, <1>9
  <1>14. FreshRun'
    <2>1. \A x \in Runs : run'[x] = run[x] /\ (Active(x)' <=> Active(x))
      BY <1>3 DEF Active
    <2>2. \A x \in Runs : Active(x) => run[x].scan \in Scans
      BY <1>0, Typed DEF Active
    <2> QED BY <2>1, <2>2, <1>3, <1>13 DEF IInv, FreshRun, Claimed, Mine
  <1>15. FreshRelease'
    <2>1. \A x \in Runs : run'[x] = run[x]
      BY <1>3
    <2>2. \A x \in Runs : run[x].pc = "release" => run[x].scan \in Scans
      BY <1>0, Typed
    <2> QED BY <2>1, <2>2, <1>3, <1>13 DEF IInv, FreshRelease, Claimed, Mine
  <1>16. OnePlace'
    <2> SUFFICES ASSUME HeartbeatInTime, NEW s \in Scans \ lapsed', scans'[s].src = "network"
                 PROVE  /\ \A u, v \in Workers : s \in poll'[u] /\ s \in poll'[v] => u = v
                        /\ \A v \in Workers, x \in Runs : s \in poll'[v] => run'[x].scan # s
                        /\ \A x, y \in Runs : run'[x].scan = s /\ run'[y].scan = s => x = y
      BY DEF OnePlace
    <2>1. s \notin lapsed /\ scans[s].src = "network"
      BY <1>3, <1>4, <1>5
    <2>2. CASE s \in ids
      BY <2>1, <2>2, <1>3, <1>9, <1>10
    <2>3. CASE s \notin ids
      BY <2>1, <2>3, <1>3, <1>10, <1>11 DEF IInv, OnePlace
    <2> QED BY <2>2, <2>3
  <1> QED BY <1>7, <1>8, <1>12, <1>14, <1>15, <1>16 DEF IInv

\* A batch that is dropped is held by nobody.
LEMMA DropSafe ==
  ASSUME IInv, NEW w \in Workers, poll' = [poll EXCEPT ![w] = {}],
         UNCHANGED <<scans, run, posts, collect, lapsed>>, FaultOK
  PROVE  IInv'
  <1>0. TypeOK
    BY DEF IInv
  <1>1. \A v \in Workers : poll'[v] \subseteq poll[v]
    BY <1>0 DEF TypeOK
  <1>2. RowsTyped /\ \A s \in Scans : SameClaim(s) /\ SameRow(s)
    BY <1>0, NoWrite
  <1>3. TypeOK'
    BY <1>0, <1>2, TypeFrom DEF TypeOK
  <1>4. OwnRows'
    BY <1>2, KeepRows
  <1>5. \A x \in Runs : KeptRun(x)
    BY DEF KeptRun, Active
  <1>6. \A s \in Scans : KeptRow(s)
    BY <1>2 DEF KeptRow, SameClaim
  <1> QED BY <1>1, <1>3, <1>4, <1>5, <1>6, Keep

\* A claimed scan moves from the batch to a slot.
LEMMA StartSafe ==
  ASSUME IInv, NEW w \in Workers, StartScans(w)
  PROVE  IInv'
  <1>0. TypeOK
    BY DEF IInv
  <1>1. poll' = [poll EXCEPT ![w] = {}] /\ UNCHANGED <<scans, posts, collect, lapsed>>
    BY DEF StartScans
  <1>2. CASE UNCHANGED run
    <2>1. FaultOK
      BY <1>0, FaultType DEF StartScans
    <2> QED BY <1>1, <1>2, <2>1, DropSafe
  <1>3. CASE /\ \E got \in [Free(w) -> poll[w] \cup {NULL}] :
                  /\ \A s \in poll[w] : \E x \in Free(w) : got[x] = s
                  /\ \A x, y \in Free(w) : got[x] = got[y] /\ got[x] # NULL => x = y
                  /\ run' = [x \in Runs |-> IF x \in Free(w) /\ got[x] # NULL
                                  THEN [pc |-> "start", scan |-> got[x], beat |-> 0]
                                  ELSE run[x]]
             /\ NoFault
    <2>1. PICK got \in [Free(w) -> poll[w] \cup {NULL}] :
                  /\ \A x, y \in Free(w) : got[x] = got[y] /\ got[x] # NULL => x = y
                  /\ run' = [x \in Runs |-> IF x \in Free(w) /\ got[x] # NULL
                                  THEN [pc |-> "start", scan |-> got[x], beat |-> 0]
                                  ELSE run[x]]
      BY <1>3
    <2>2. PICK new : new = {x \in Free(w) : got[x] # NULL}
      OBVIOUS
    <2>3. /\ new \subseteq Runs /\ \A x \in new : x[1] = w /\ got[x] \in poll[w]
          /\ \A x, y \in new : got[x] = got[y] => x = y
      BY <2>1, <2>2 DEF Free
    <2>4. \A x \in new : run'[x].pc = "start" /\ run'[x].scan = got[x] /\ run'[x].beat = 0
      BY <2>1, <2>2, <2>3
    <2>5. \A x \in Runs \ new : run'[x] = run[x]
      BY <2>1, <2>2
    <2>6. \A x \in new : [pc |-> "start", scan |-> got[x], beat |-> 0] \in Run
      BY <2>3, <1>0, Typed, Constants DEF Run
    <2>7. run' \in [Runs -> Run]
      <3>1. \A x \in Runs : run[x] \in Run
        BY <1>0 DEF TypeOK
      <3> QED BY <2>1, <2>2, <2>6, <3>1
    <2>8. \A x \in Runs : run'[x].pc = "free" <=> run'[x].scan = NULL
      BY <2>3, <2>4, <2>5, <1>0, Typed, Constants DEF TypeOK
    <2>9. TypeOK'
      BY <1>0, <1>1, <1>3, <2>7, <2>8, NoWrite, FaultType, TypeFrom DEF TypeOK
    <2>10. poll'[w] = {} /\ \A v \in Workers \ {w} : poll'[v] = poll[v]
      BY <1>0, <1>1 DEF TypeOK
    <2>11. FreshPoll'
      BY <1>1, <2>10 DEF IInv, FreshPoll, Claimed, Mine
    <2>12. FreshRun'
      <3> SUFFICES ASSUME HeartbeatInTime, NEW x \in Runs, Active(x)', run'[x].scan \notin lapsed',
                          scans'[run'[x].scan].src = "network"
                   PROVE  Claimed(x[1], run[x].scan, LeaseTTL - Interval + run[x].beat)'
        BY DEF FreshRun
      <3>1. CASE x \in new
        <4>1. Claimed(w, got[x], LeaseTTL - Interval)
          BY <3>1, <2>3, <2>4, <1>1 DEF IInv, FreshPoll
        <4>2. LeaseTTL - Interval + run'[x].beat = LeaseTTL - Interval
          BY <3>1, <2>4, Constants
        <4> QED BY <3>1, <4>1, <4>2, <2>3, <2>4, <1>1 DEF Claimed, Mine
      <3>2. CASE x \notin new
        <4>1. run'[x] = run[x]
          BY <3>2, <2>5
        <4>2. Active(x)
          BY <4>1 DEF Active
        <4>3. Claimed(x[1], run[x].scan, LeaseTTL - Interval + run[x].beat)
          BY <4>1, <4>2, <1>1 DEF IInv, FreshRun
        <4> QED BY <4>1, <4>3, <1>1 DEF Claimed, Mine
      <3> QED BY <3>1, <3>2
    <2>13. FreshRelease'
      <3>1. \A x \in Runs : run'[x].pc = "release" => run'[x] = run[x]
        BY <2>4, <2>5
      <3> QED BY <3>1, <1>1 DEF IInv, FreshRelease, Claimed, Mine
    <2>14. OnePlace'
      <3> SUFFICES ASSUME HeartbeatInTime, NEW s \in Scans \ lapsed', scans'[s].src = "network"
                   PROVE  /\ \A u, v \in Workers : s \in poll'[u] /\ s \in poll'[v] => u = v
                          /\ \A v \in Workers, x \in Runs : s \in poll'[v] => run'[x].scan # s
                          /\ \A x, y \in Runs : run'[x].scan = s /\ run'[y].scan = s => x = y
        BY DEF OnePlace
      <3>1. /\ \A u, v \in Workers : s \in poll[u] /\ s \in poll[v] => u = v
            /\ \A v \in Workers, x \in Runs : s \in poll[v] => run[x].scan # s
            /\ \A x, y \in Runs : run[x].scan = s /\ run[y].scan = s => x = y
        BY <1>1 DEF IInv, OnePlace
      <3>2. \A x \in new : run'[x].scan = s => s \in poll[w]
        BY <2>3, <2>4
      <3>3. \A v \in Workers : s \in poll'[v] => s \in poll[v] /\ v # w
        BY <2>10
      <3>4. \A v \in Workers, x \in Runs : s \in poll'[v] => run'[x].scan # s
        BY <3>1, <3>2, <3>3, <2>5
      <3>5. \A x, y \in Runs : run'[x].scan = s /\ run'[y].scan = s => x = y
        BY <3>1, <3>2, <2>3, <2>4, <2>5
      <3> QED BY <3>1, <3>3, <3>4, <3>5
    <2>15. OwnRows'
      BY <1>0, <1>1, NoWrite, KeepRows
    <2> QED BY <2>9, <2>11, <2>12, <2>13, <2>14, <2>15 DEF IInv
  <1> QED BY <1>2, <1>3 DEF StartScans

\* A heartbeat renews the claim of the worker that sends it, or is recorded
\* as late.
LEMMA HeartbeatSafe ==
  ASSUME IInv, NEW x \in Runs, Heartbeat(x)
  PROVE  IInv'
  <1>0. TypeOK /\ x[1] \in Workers
    BY Constants DEF IInv
  <1>1. Active(x) /\ UNCHANGED <<poll, posts, collect>>
    BY DEF Heartbeat
  <1>2. PICK s \in Scans : s = run[x].scan
    BY <1>0, <1>1, Typed DEF Active
  <1>3. run' = [run EXCEPT ![x] = [run[x] EXCEPT !.beat = 0]]
    BY DEF Heartbeat
  <1>4. /\ run' \in [Runs -> Run] /\ \A y \in Runs \ {x} : run'[y] = run[y]
        /\ run'[x].pc = run[x].pc /\ run'[x].scan = run[x].scan /\ run'[x].beat = 0
    <2>1. run \in [Runs -> Run] /\ run[x] \in Run
      BY <1>0 DEF TypeOK
    <2>2. [run[x] EXCEPT !.beat = 0] \in Run
      BY <2>1, Constants DEF Run
    <2>3. run'[x] = [run[x] EXCEPT !.beat = 0]
      BY <1>3, <2>1
    <2>4. run'[x].pc = run[x].pc /\ run'[x].scan = run[x].scan /\ run'[x].beat = 0
      BY <2>1, <2>3 DEF Run
    <2> QED BY <1>3, <2>1, <2>2, <2>4
  <1>5. /\ \A y \in Runs : run'[y].pc = run[y].pc /\ run'[y].scan = run[y].scan
        /\ \A y \in Runs : Active(y)' <=> Active(y)
    BY <1>4 DEF Active
  <1>6. /\ lapsed \subseteq lapsed' /\ lapsed' \subseteq Scans /\ FaultOK
        /\ (UNCHANGED scans /\ s \in lapsed') \/ HeartbeatScanClaim(x[1], s)
    BY <1>0, <1>2, FaultType DEF Heartbeat, TypeOK
  <1>7. /\ RowsTyped /\ OtherRows(s) /\ SameRow(s)
        /\ scans'[s].by = scans[s].by /\ scans'[s].st = scans[s].st
        /\ scans'[s].age = scans[s].age \/ scans'[s].age = 0
        /\ Mine(x[1], s) => s \in lapsed' \/ scans'[s].age = 0
    <2>1. CASE UNCHANGED scans
      BY <2>1, <1>0, <1>6, NoWrite DEF OtherRows, HeartbeatScanClaim, RowsTyped, TypeOK, Scan
    <2>2. CASE Mine(x[1], s) /\ scans' = [scans EXCEPT ![s] = [scans[s] EXCEPT !.age = 0]]
      <3>0. scans[s] \in Scan
        BY <1>0 DEF TypeOK
      <3>1. PICK row : row = [scans[s] EXCEPT !.age = 0]
        OBVIOUS
      <3>2. row \in Scan
        BY <3>0, <3>1, Constants DEF Scan
      <3>3. row.by = scans[s].by /\ row.st = scans[s].st /\ row.src = scans[s].src /\ row.age = 0
        BY <3>0, <3>1 DEF Scan
      <3>4. row.by # NULL /\ row.age # NULL
        BY <3>3, <2>2, <1>0, Constants DEF Mine
      <3>5. RowsTyped /\ OtherRows(s) /\ scans'[s] = row
        BY <3>1, <3>2, <3>4, <2>2, <1>0, WriteRow
      <3> QED BY <3>3, <3>5 DEF SameRow
    <2> QED BY <2>1, <2>2, <1>6 DEF HeartbeatScanClaim
  <1>8. TypeOK'
    <2>1. \A y \in Runs : run'[y].pc = "free" <=> run'[y].scan = NULL
      BY <1>0, <1>5, Typed
    <2> QED BY <1>0, <1>1, <1>4, <1>6, <1>7, <2>1, TypeFrom DEF TypeOK
  <1>9. \A r \in Scans : /\ SameRow(r) /\ scans'[r].by = scans[r].by
                         /\ scans'[r].st = scans[r].st /\ scans'[r].src = scans[r].src
                         /\ scans'[r].age = scans[r].age \/ scans'[r].age = 0
    BY <1>7, Untouched DEF OtherRows, SameRow
  <1>10. OwnRows'
    BY <1>1, <1>9, KeepRows
  <1>11. ASSUME NEW w \in Workers, NEW r \in Scans, NEW limit \in Nat, Claimed(w, r, limit)
         PROVE  Claimed(w, r, limit)'
    BY <1>9, <1>11 DEF Claimed, Mine
  <1>12. FreshPoll'
    <2> SUFFICES ASSUME HeartbeatInTime, NEW w \in Workers, NEW r \in poll'[w] \ lapsed', scans'[r].src = "network"
                 PROVE  Claimed(w, r, LeaseTTL - Interval)'
      BY DEF FreshPoll
    <2>0. LeaseTTL - Interval \in Nat
      BY Constants
    <2>1. r \in poll[w] \ lapsed /\ r \in Scans
      BY <1>0, <1>1, <1>6, Typed
    <2>2. Claimed(w, r, LeaseTTL - Interval)
      BY <2>1, <1>9 DEF IInv, FreshPoll
    <2> QED BY <2>0, <2>1, <2>2, <1>11
  <1>13. FreshRun'
    <2> SUFFICES ASSUME HeartbeatInTime, NEW y \in Runs, Active(y)', run'[y].scan \notin lapsed',
                        scans'[run'[y].scan].src = "network"
                 PROVE  Claimed(y[1], run[y].scan, LeaseTTL - Interval + run[y].beat)'
      BY DEF FreshRun
    <2>0. PICK r \in Scans : r = run[y].scan /\ r = run'[y].scan
      BY <1>0, <1>5, Typed DEF Active
    <2>1. Claimed(y[1], r, LeaseTTL - Interval + run[y].beat)
      BY <2>0, <1>5, <1>6, <1>9 DEF IInv, FreshRun
    <2>2. LeaseTTL - Interval + run[y].beat \in Nat /\ y[1] \in Workers
      BY <1>0, Typed, Constants
    <2>3. CASE y # x
      <3>1. run'[y].beat = run[y].beat
        BY <2>3, <1>4
      <3> QED BY <2>0, <2>1, <2>2, <3>1, <1>11 DEF Claimed, Mine
    <2>4. CASE y = x
      <3>1. scans[s].st = "gone" \/ Mine(x[1], s)
        BY <2>0, <2>1, <2>4, <1>2 DEF Claimed
      <3>2. scans'[s].st = "gone" \/ (scans'[s].age = 0 /\ Mine(x[1], s))
        BY <3>1, <2>0, <2>4, <1>2, <1>7
      <3>3. 0 <= LeaseTTL - Interval + run'[x].beat
        BY <1>4, Constants
      <3>4. s = run'[y].scan /\ run'[y].beat = run'[x].beat /\ y[1] = x[1]
        BY <2>0, <2>4, <1>2
      <3>5. Mine(x[1], s) => scans'[s].by = x[1] /\ scans'[s].st = "running"
        BY <1>9 DEF Mine
      <3> QED BY <3>2, <3>3, <3>4, <3>5 DEF Claimed, Mine
    <2> QED BY <2>3, <2>4
  <1>14. FreshRelease'
    <2> SUFFICES ASSUME HeartbeatInTime, NEW y \in Runs, run'[y].pc = "release", run'[y].scan \notin lapsed',
                        scans'[run'[y].scan].src = "network"
                 PROVE  Claimed(y[1], run[y].scan, LeaseTTL)'
      BY DEF FreshRelease
    <2>0. PICK r \in Scans : r = run[y].scan /\ r = run'[y].scan
      BY <1>0, <1>5, Typed
    <2>1. Claimed(y[1], r, LeaseTTL)
      BY <2>0, <1>5, <1>6, <1>9 DEF IInv, FreshRelease
    <2>2. LeaseTTL \in Nat /\ y[1] \in Workers
      BY Constants
    <2>3. Claimed(y[1], r, LeaseTTL)'
      BY <2>1, <2>2, <1>11
    <2> QED BY <2>0, <2>3
  <1>15. OnePlace'
    BY <1>1, <1>5, <1>6, <1>9 DEF IInv, OnePlace
  <1> QED BY <1>8, <1>10, <1>12, <1>13, <1>14, <1>15 DEF IInv

\* The death of a process takes nothing from the other workers.
LEMMA CrashSafe ==
  ASSUME IInv, NEW w \in Workers, Crash(w)
  PROVE  IInv'
  <1>0. TypeOK
    BY DEF IInv
  <1>1. /\ UNCHANGED <<scans, posts, collect, lapsed>> /\ poll' = [poll EXCEPT ![w] = {}]
        /\ run' = [x \in Runs |-> IF x[1] = w THEN FreeSlot ELSE run[x]]
    BY DEF Crash
  <1>2. FreeSlot \in Run /\ FreeSlot.pc = "free" /\ FreeSlot.scan = NULL
    BY Constants DEF FreeSlot, Run
  <1>3. \A x \in Runs : run'[x] = FreeSlot \/ run'[x] = run[x]
    BY <1>1
  <1>4. RowsTyped /\ (\A s \in Scans : SameClaim(s) /\ SameRow(s)) /\ FaultOK
    BY <1>0, <1>1, NoWrite, FaultType DEF Crash
  <1>5. TypeOK'
    <2>1. run' \in [Runs -> Run]
      BY <1>0, <1>1, <1>2 DEF TypeOK
    <2>2. \A x \in Runs : run'[x].pc = "free" <=> run'[x].scan = NULL
      BY <1>0, <1>2, <1>3, Typed
    <2> QED BY <1>0, <1>1, <1>4, <2>1, <2>2, TypeFrom DEF TypeOK
  <1>6. OwnRows'
    BY <1>1, <1>4, KeepRows
  <1>7. \A x \in Runs : KeptRun(x)
    BY <1>2, <1>3 DEF KeptRun, Active
  <1>8. \A s \in Scans : KeptRow(s)
    BY <1>4 DEF KeptRow, SameClaim
  <1>9. \A v \in Workers : poll'[v] \subseteq poll[v]
    BY <1>0, <1>1 DEF TypeOK
  <1> QED BY <1>1, <1>5, <1>6, <1>7, <1>8, <1>9, Keep

\* Shutdown releases only claims of scans that nobody goes on to run.
LEMMA ShutdownSafe ==
  ASSUME IInv, NEW w \in Workers, Shutdown(w)
  PROVE  IInv'
  <1>0. TypeOK
    BY DEF IInv
  <1>1. /\ UNCHANGED <<posts, collect, lapsed>> /\ poll' = [poll EXCEPT ![w] = {}]
        /\ run' = [x \in Runs |-> IF x[1] = w /\ run[x].pc # "free"
                                  THEN [run[x] EXCEPT !.pc = "release"] ELSE run[x]]
    BY DEF Shutdown
  <1>2. PICK m \in 0 .. NumScans :
          scans' = [s \in Scans |-> IF s \in poll[w] /\ s <= m /\ Mine(w, s)
                                    THEN Unclaimed(scans[s]) ELSE scans[s]]
    BY DEF Shutdown
  <1>3. ASSUME NEW s \in Scans
        PROVE  scans'[s] = scans[s] \/ (s \in poll[w] /\ scans'[s] = Unclaimed(scans[s]))
    BY <1>2
  <1>4. ASSUME NEW s \in Scans
        PROVE  /\ scans'[s] \in Scan /\ (scans'[s].by = NULL <=> scans'[s].age = NULL)
               /\ SameRow(s) /\ (SameClaim(s) \/ s \in poll[w])
    <2>1. CASE scans'[s] = scans[s]
      BY <2>1, <1>0, Untouched DEF TypeOK
    <2>2. CASE s \in poll[w] /\ scans'[s] = Unclaimed(scans[s])
      BY <2>2, <1>0, UnclaimedType DEF SameRow
    <2> QED BY <2>1, <2>2, <1>3
  <1>5. RowsTyped
    BY <1>2, <1>4 DEF RowsTyped
  <1>6. \A x \in Runs : /\ run'[x] \in Run /\ run'[x].scan = run[x].scan
                        /\ run'[x].beat = run[x].beat
                        /\ run'[x].pc = run[x].pc \/ (run[x].pc # "free" /\ run'[x].pc = "release")
    <2> SUFFICES ASSUME NEW x \in Runs
                 PROVE  /\ run'[x] \in Run /\ run'[x].scan = run[x].scan
                        /\ run'[x].beat = run[x].beat
                        /\ run'[x].pc = run[x].pc \/ (run[x].pc # "free" /\ run'[x].pc = "release")
      OBVIOUS
    <2>0. run[x] \in Run
      BY <1>0 DEF TypeOK
    <2>1. CASE x[1] = w /\ run[x].pc # "free"
      <3>1. run'[x] = [run[x] EXCEPT !.pc = "release"]
        BY <1>1, <2>1
      <3> QED BY <3>1, <2>0, <2>1 DEF Run
    <2>2. CASE ~(x[1] = w /\ run[x].pc # "free")
      BY <2>0, <2>2, <1>1
    <2> QED BY <2>1, <2>2
  <1>7. TypeOK'
    <2>1. run' \in [Runs -> Run]
      BY <1>1, <1>6
    <2>2. \A x \in Runs : run'[x].pc = "free" <=> run'[x].scan = NULL
      BY <1>0, <1>6, Typed
    <2>3. FaultOK
      BY <1>0, FaultType DEF Shutdown
    <2> QED BY <1>0, <1>1, <1>5, <2>1, <2>2, <2>3, TypeFrom DEF TypeOK
  <1>8. OwnRows'
    BY <1>1, <1>4, KeepRows
  <1>9. \A x \in Runs : KeptRun(x)
    BY <1>6 DEF KeptRun, Active
  <1>10. \A v \in Workers : poll'[v] \subseteq poll[v]
    BY <1>0, <1>1 DEF TypeOK
  <1>11. ASSUME NEW s \in Scans PROVE KeptRow(s)
    <2>1. CASE SameClaim(s) \/ s \in lapsed
      BY <2>1, <1>1 DEF KeptRow, SameClaim
    <2>2. CASE HeartbeatInTime /\ s \in poll[w] /\ s \notin lapsed /\ scans[s].src = "network"
      <3>1. /\ \A v \in Workers : s \in poll[v] => v = w
            /\ \A x \in Runs : run[x].scan # s
        BY <2>2 DEF IInv, OnePlace
      <3>2. Unheld(s)
        BY <3>1, <1>0, <1>1, <1>6 DEF Unheld, TypeOK
      <3> QED BY <3>2, <1>4 DEF KeptRow, SameRow
    <2>3. scans[s].src \in {"network", "collector"}
      BY <1>0, Typed
    <2> QED BY <2>1, <2>2, <2>3, <1>4 DEF KeptRow, SameRow
  <1> QED BY <1>1, <1>7, <1>8, <1>9, <1>10, <1>11, Keep

\* A request writes a row; workers and slots are not involved.
LEMMA ApiKeeps ==
  ASSUME IInv, TypeOK', OwnRows', UNCHANGED <<poll, run, lapsed>>, \A s \in Scans : KeptRow(s)
  PROVE  IInv'
  <1>1. \A x \in Runs : KeptRun(x)
    BY DEF KeptRun, Active
  <1> QED BY <1>1, Keep

\* A request writes its own row, and the row is still its own.
LEMMA ApiRow ==
  ASSUME IInv, NEW s \in Scans, RowsTyped, OtherRows(s), SameRow(s), KeptRow(s), FaultOK,
         collect' \in [Scans -> CollectPc], \A r \in Scans : collect'[r] # "none" => collect[r] # "none",
         UNCHANGED <<poll, run, posts, lapsed>>
  PROVE  IInv'
  <1>1. TypeOK'
    BY DEF IInv, TypeOK, RowsTyped, FaultOK
  <1>2. \A r \in Scans : SameRow(r)
    BY Untouched DEF OtherRows
  <1>3. OwnRows'
    BY <1>2, KeepRows
  <1>4. \A r \in Scans : KeptRow(r)
    BY Untouched DEF OtherRows, KeptRow, SameClaim
  <1> QED BY <1>1, <1>3, <1>4, ApiKeeps

\* A row that does not exist is in nobody's hands.
LEMMA AbsentUnheld ==
  ASSUME IInv, HeartbeatInTime, NEW s \in Scans \ lapsed, scans[s].st = "absent",
         UNCHANGED <<poll, run>>
  PROVE  Unheld(s)
  <1>0. TypeOK /\ s # NULL /\ scans[s].src = "network"
    BY Constants DEF IInv, OwnRows
  <1>1. \A w \in Workers, limit \in Int : ~Claimed(w, s, limit)
    BY DEF Claimed, Mine
  <1>2. \A w \in Workers : s \notin poll[w]
    BY <1>0, <1>1, Constants DEF IInv, FreshPoll
  <1>3. ASSUME NEW x \in Runs, run[x].scan = s PROVE FALSE
    <2>1. run[x].pc # "free" /\ run[x].beat \in Int /\ x[1] \in Workers
      BY <1>0, <1>3, Typed, Constants
    <2>2. LeaseTTL - Interval + run[x].beat \in Int /\ LeaseTTL \in Int
      BY <2>1, Constants
    <2>3. CASE Active(x)
      BY <2>3, <2>1, <2>2, <1>0, <1>1, <1>3 DEF IInv, FreshRun
    <2>4. CASE run[x].pc = "release"
      BY <2>4, <2>1, <2>2, <1>0, <1>1, <1>3 DEF IInv, FreshRelease
    <2> QED BY <2>1, <2>3, <2>4 DEF Active
  <1> QED BY <1>2, <1>3 DEF Unheld

\* The handlers.
LEMMA ApiSafe ==
  ASSUME IInv, \/ CountPending \/ InsertScan \/ CollectInsert \/ CollectMark
               \/ CollectFinish \/ DeleteScan
  PROVE  IInv'
  <1>1. CASE CountPending
    <2>1. PICK s \in Scans : NewScan(s) /\ posts' = posts \cup {s}
      BY <1>1 DEF CountPending
    <2>2. UNCHANGED <<scans, poll, run, collect, faults, lapsed>>
      BY <1>1 DEF CountPending
    <2>3. TypeOK'
      BY <2>1, <2>2 DEF IInv, TypeOK
    <2>4. OwnRows'
      BY <2>1, <2>2 DEF IInv, OwnRows, NewScan
    <2>5. \A r \in Scans : KeptRow(r)
      BY <2>2, NoWrite DEF IInv, KeptRow, SameClaim
    <2> QED BY <2>2, <2>3, <2>4, <2>5, ApiKeeps
  <1>2. ASSUME NEW src \in {"network", "collector"} PROVE
          /\ NewRow(src) \in Scan /\ NewRow(src).by = NULL /\ NewRow(src).age = NULL
          /\ NewRow(src).src = src /\ NewRow(src).st = "pending"
    BY DEF NewRow, Scan
  <1>3. CASE InsertScan
    <2>1. PICK s \in posts : /\ scans' = [scans EXCEPT ![s] = NewRow("network")]
                             /\ posts' = posts \ {s}
      BY <1>3 DEF InsertScan
    <2>2. UNCHANGED <<poll, run, collect, faults, lapsed>>
      BY <1>3 DEF InsertScan
    <2>3. s \in Scans /\ scans[s].st = "absent" /\ scans[s].src = "network"
      BY DEF IInv, OwnRows, TypeOK
    <2>4. RowsTyped /\ OtherRows(s) /\ scans'[s] = NewRow("network")
      BY <2>1, <2>3, <1>2, WriteRow DEF IInv
    <2>5. TypeOK'
      BY <2>1, <2>2, <2>4 DEF IInv, TypeOK, RowsTyped
    <2>6. OwnRows'
      BY <2>1, <2>2, <2>3, <2>4, <1>2 DEF IInv, OwnRows, OtherRows, TypeOK
    <2>7. \A r \in Scans \ {s} : KeptRow(r)
      BY <2>4, Untouched DEF OtherRows, KeptRow, SameClaim
    <2>8. KeptRow(s)
      BY <2>2, <2>3, <2>4, <1>2, AbsentUnheld DEF KeptRow
    <2> QED BY <2>2, <2>5, <2>6, <2>7, <2>8, ApiKeeps
  <1>4. CASE CollectInsert
    <2>1. PICK s \in Scans : /\ NewScan(s) /\ scans' = [scans EXCEPT ![s] = NewRow("collector")]
                             /\ collect' = [collect EXCEPT ![s] = "mark"]
      BY <1>4 DEF CollectInsert
    <2>2. UNCHANGED <<poll, run, posts, faults, lapsed>>
      BY <1>4 DEF CollectInsert
    <2>3. RowsTyped /\ OtherRows(s) /\ scans'[s] = NewRow("collector")
      BY <2>1, <1>2, WriteRow DEF IInv
    <2>4. TypeOK'
      BY <2>1, <2>2, <2>3 DEF IInv, TypeOK, RowsTyped, CollectPc
    <2>5. OwnRows'
      BY <2>1, <2>2, <2>3, <1>2 DEF IInv, OwnRows, OtherRows, TypeOK, NewScan
    <2>6. \A r \in Scans : KeptRow(r)
      BY <2>3, <1>2, Untouched DEF OtherRows, KeptRow, SameClaim
    <2> QED BY <2>2, <2>4, <2>5, <2>6, ApiKeeps
  <1>5. CASE CollectMark
    <2>1. PICK s \in Scans :
            /\ collect[s] = "mark"
            /\ \/ UpdateScanRunning(s) /\ collect' = [collect EXCEPT ![s] = "ingest"] /\ NoFault
               \/ /\ UNCHANGED scans /\ Fault
                  /\ \E pc \in {"ingest", "none"} : collect' = [collect EXCEPT ![s] = pc]
      BY <1>5 DEF CollectMark
    <2>2. UNCHANGED <<poll, run, posts, lapsed>>
      BY <1>5 DEF CollectMark
    <2>3. RowsTyped /\ OtherRows(s) /\ SameRow(s) /\ SameClaim(s) /\ FaultOK
      BY <2>1, RunningRow, NoWrite, FaultType DEF IInv, OtherRows
    <2>4. /\ collect' \in [Scans -> CollectPc]
          /\ \A r \in Scans : collect'[r] # "none" => collect[r] # "none"
      BY <2>1 DEF IInv, TypeOK, CollectPc
    <2>5. KeptRow(s)
      BY <2>3 DEF KeptRow, SameClaim
    <2> QED BY <2>2, <2>3, <2>4, <2>5, ApiRow
  <1>6. CASE CollectFinish
    <2>1. PICK s \in Scans : /\ collect[s] = "ingest"
                             /\ Stmt(End(s, "completed")) \/ Stmt(End(s, "failed"))
                             /\ collect' = [collect EXCEPT ![s] = "none"]
      BY <1>6 DEF CollectFinish, CompleteScan, FailScan, Stmt
    <2>2. UNCHANGED <<poll, run, posts, lapsed>>
      BY <1>6 DEF CollectFinish
    <2>3. RowsTyped /\ OtherRows(s) /\ SameRow(s) /\ FaultOK
      BY <2>1, StmtEnd
    <2>4. /\ collect' \in [Scans -> CollectPc]
          /\ \A r \in Scans : collect'[r] # "none" => collect[r] # "none"
      BY <2>1 DEF IInv, TypeOK, CollectPc
    <2>5. KeptRow(s)
      BY <2>1, <2>3 DEF IInv, OwnRows, KeptRow, SameRow
    <2> QED BY <2>2, <2>3, <2>4, <2>5, ApiRow
  <1>7. CASE DeleteScan
    <2>1. PICK s \in Scans : /\ Exists(s)
                             /\ scans' = [scans EXCEPT ![s] = [Unclaimed(scans[s]) EXCEPT !.st = "gone"]]
      BY <1>7 DEF DeleteScan
    <2>2. UNCHANGED <<poll, run, posts, collect, faults, lapsed>>
      BY <1>7 DEF DeleteScan
    <2>3. PICK row : row = [Unclaimed(scans[s]) EXCEPT !.st = "gone"]
      OBVIOUS
    <2>4. scans[s] \in Scan
      BY DEF IInv, TypeOK
    <2>5. row \in Scan /\ row.by = NULL /\ row.age = NULL
      BY <2>3, <2>4 DEF Unclaimed, Scan, Ended
    <2>6. row.src = scans[s].src /\ row.st = "gone"
      BY <2>3, <2>4 DEF Unclaimed, Scan
    <2>7. RowsTyped /\ OtherRows(s) /\ scans'[s] = row
      BY <2>1, <2>3, <2>5, WriteRow DEF IInv
    <2>8. SameRow(s) /\ KeptRow(s)
      BY <2>1, <2>6, <2>7 DEF SameRow, KeptRow, Exists
    <2>9. collect' \in [Scans -> CollectPc] /\ FaultOK
      BY <2>2 DEF IInv, TypeOK, FaultOK
    <2> QED BY <2>2, <2>7, <2>8, <2>9, ApiRow
  <1> QED BY <1>1, <1>3, <1>4, <1>5, <1>6, <1>7

\* Time passes: every run still has its heartbeat ahead of it, and a batch or
\* a cancelled run that does not is recorded as late.
LEMMA ElapseSafe ==
  ASSUME IInv, Elapse
  PROVE  IInv'
  <1>0. TypeOK
    BY DEF IInv
  <1>1. /\ UNCHANGED <<poll, posts, collect, faults>>
        /\ \A x \in Runs : Active(x) => run[x].beat < Interval
        /\ scans' = [s \in Scans |-> IF scans[s].age \in 0 .. LeaseTTL
                        THEN [scans[s] EXCEPT !.age = scans[s].age + 1] ELSE scans[s]]
        /\ run' = [x \in Runs |-> IF Active(x)
                        THEN [run[x] EXCEPT !.beat = run[x].beat + 1] ELSE run[x]]
        /\ lapsed' = lapsed \cup {s \in Scans : Overdue(s, scans'[s].age)}
    BY DEF Elapse
  <1>2. ASSUME NEW s \in Scans
        PROVE  /\ scans'[s] \in Scan /\ scans'[s].by = scans[s].by /\ scans'[s].st = scans[s].st
               /\ scans'[s].src = scans[s].src
               /\ scans[s].age = NULL => scans'[s].age = NULL
               /\ scans[s].age # NULL => /\ scans[s].age \in 0 .. Stale
                                         /\ scans'[s].age \in 0 .. Stale
                                         /\ scans'[s].age <= scans[s].age + 1
    <2>0. scans[s] \in Scan /\ scans[s].age \in (0 .. Stale) \cup {NULL}
      BY <1>0, Typed
    <2>1. CASE scans[s].age \in 0 .. LeaseTTL
      <3>1. scans'[s] = [scans[s] EXCEPT !.age = scans[s].age + 1]
        BY <1>1, <2>1
      <3>2. scans[s].age + 1 \in 0 .. Stale /\ scans[s].age # NULL /\ scans[s].age \in 0 .. Stale
        BY <2>1, Constants
      <3>3. /\ scans'[s] \in Scan /\ scans'[s].by = scans[s].by /\ scans'[s].st = scans[s].st
            /\ scans'[s].src = scans[s].src /\ scans'[s].age = scans[s].age + 1
        BY <3>1, <3>2, <2>0 DEF Scan
      <3> QED BY <3>2, <3>3
    <2>2. CASE scans[s].age \notin 0 .. LeaseTTL
      <3>1. scans'[s] = scans[s]
        BY <1>1, <2>2
      <3> QED BY <3>1, <2>0, Constants
    <2> QED BY <2>1, <2>2
  <1>3. RowsTyped
    BY <1>0, <1>1, <1>2, Constants DEF RowsTyped, TypeOK
  <1>4. ASSUME NEW x \in Runs
        PROVE  /\ run'[x] \in Run /\ run'[x].pc = run[x].pc /\ run'[x].scan = run[x].scan
               /\ Active(x) => run'[x].beat = run[x].beat + 1
    <2>0. run[x] \in Run /\ run[x].beat \in 0 .. Interval
      BY <1>0, Typed
    <2>1. CASE Active(x)
      <3>1. run'[x] = [run[x] EXCEPT !.beat = run[x].beat + 1]
        BY <1>1, <2>1
      <3>2. run[x].beat + 1 \in 0 .. Interval
        BY <1>1, <2>0, <2>1, Constants
      <3> QED BY <3>1, <3>2, <2>0 DEF Run
    <2>2. CASE ~Active(x)
      BY <2>0, <2>2, <1>1
    <2> QED BY <2>1, <2>2
  <1>5. TypeOK'
    <2>1. run' \in [Runs -> Run]
      BY <1>1, <1>4
    <2>2. \A x \in Runs : run'[x].pc = "free" <=> run'[x].scan = NULL
      BY <1>0, <1>4, Typed
    <2>3. FaultOK /\ lapsed' \subseteq Scans /\ poll' \in [Workers -> SUBSET Scans]
      BY <1>0, <1>1 DEF TypeOK, FaultOK
    <2> QED BY <1>0, <1>1, <1>3, <2>1, <2>2, <2>3, TypeFrom
  <1>6. OwnRows'
    <2>1. \A s \in Scans : SameRow(s)
      BY <1>2 DEF SameRow
    <2> QED BY <1>1, <2>1, KeepRows
  <1>7. ASSUME NEW w \in Workers, NEW s \in Scans, Mine(w, s)
        PROVE  /\ Mine(w, s)' /\ scans[s].age \in 0 .. Stale /\ scans'[s].age \in 0 .. Stale
               /\ scans'[s].age <= scans[s].age + 1 /\ scans'[s].age # NULL
    <2>1. scans[s].age # NULL
      BY <1>0, <1>7, Typed, Constants DEF Mine
    <2> QED BY <2>1, <1>2, <1>7, Constants DEF Mine
  <1>8. FreshPoll'
    <2> SUFFICES ASSUME HeartbeatInTime, NEW w \in Workers, NEW s \in poll'[w] \ lapsed', scans'[s].src = "network"
                 PROVE  Claimed(w, s, LeaseTTL - Interval)'
      BY DEF FreshPoll
    <2>1. s \in poll[w] \ lapsed /\ s \in Scans /\ ~Overdue(s, scans'[s].age)
      BY <1>0, <1>1, Typed
    <2>2. Claimed(w, s, LeaseTTL - Interval)
      BY <2>1, <1>2 DEF IInv, FreshPoll
    <2>3. scans'[s].age # NULL => ~(scans'[s].age > LeaseTTL - Interval)
      BY <2>1 DEF Overdue
    <2>4. CASE scans[s].st = "gone"
      BY <2>1, <2>4, <1>2 DEF Claimed
    <2>5. CASE Mine(w, s)
      <3>1. scans'[s].age <= LeaseTTL - Interval
        BY <2>1, <2>3, <2>5, <1>7, Constants
      <3> QED BY <3>1, <2>1, <2>5, <1>7 DEF Claimed
    <2> QED BY <2>2, <2>4, <2>5 DEF Claimed
  <1>9. FreshRun'
    <2> SUFFICES ASSUME HeartbeatInTime, NEW x \in Runs, Active(x)', run'[x].scan \notin lapsed',
                        scans'[run'[x].scan].src = "network"
                 PROVE  Claimed(x[1], run[x].scan, LeaseTTL - Interval + run[x].beat)'
      BY DEF FreshRun
    <2>1. Active(x) /\ x[1] \in Workers
      BY <1>4, Constants DEF Active
    <2>2. PICK s \in Scans : s = run[x].scan /\ s = run'[x].scan
      BY <1>0, <1>4, <2>1, Typed DEF Active
    <2>3. Claimed(x[1], s, LeaseTTL - Interval + run[x].beat)
      <3>1. s \notin lapsed /\ scans[s].src = "network"
        BY <2>2, <1>1, <1>2
      <3> QED BY <3>1, <2>1, <2>2 DEF IInv, FreshRun
    <2>4. CASE scans[s].st = "gone"
      BY <2>2, <2>4, <1>2 DEF Claimed
    <2>5. CASE Mine(x[1], s) /\ scans[s].age <= LeaseTTL - Interval + run[x].beat
      <3>1. run'[x].beat = run[x].beat + 1 /\ run[x].beat \in 0 .. Interval
        BY <1>0, <1>4, <2>1, Typed
      <3>2. /\ Mine(x[1], s)' /\ scans[s].age \in 0 .. Stale /\ scans'[s].age \in 0 .. Stale
            /\ scans'[s].age <= scans[s].age + 1
        BY <2>1, <2>5, <1>7
      <3>3. scans'[s].age <= LeaseTTL - Interval + run'[x].beat
        BY <2>5, <3>1, <3>2, Constants
      <3> QED BY <3>2, <3>3, <2>2 DEF Claimed
    <2> QED BY <2>3, <2>4, <2>5 DEF Claimed
  <1>10. FreshRelease'
    <2> SUFFICES ASSUME HeartbeatInTime, NEW x \in Runs, run'[x].pc = "release", run'[x].scan \notin lapsed',
                        scans'[run'[x].scan].src = "network"
                 PROVE  Claimed(x[1], run[x].scan, LeaseTTL)'
      BY DEF FreshRelease
    <2>1. run[x].pc = "release" /\ x[1] \in Workers
      BY <1>4, Constants
    <2>2. PICK s \in Scans : s = run[x].scan /\ s = run'[x].scan
      BY <1>0, <1>4, <2>1, Typed
    <2>3. Claimed(x[1], s, LeaseTTL)
      BY <2>1, <2>2, <1>1, <1>2 DEF IInv, FreshRelease
    <2>4. CASE scans[s].st = "gone"
      BY <2>2, <2>4, <1>2 DEF Claimed
    <2>5. CASE Mine(x[1], s)
      <3>1. s \notin lapsed' /\ lapsed' = lapsed \cup {r \in Scans : Overdue(r, scans'[r].age)}
        BY <2>2, <1>1
      <3>2. ~Overdue(s, scans'[s].age)
        BY <3>1
      <3>3. scans'[s].age # Stale
        BY <3>2, <2>1, <2>2 DEF Overdue
      <3>4. Mine(x[1], s)' /\ scans'[s].age \in 0 .. Stale
        BY <2>1, <2>5, <1>7
      <3>5. scans'[s].age <= LeaseTTL
        BY <3>3, <3>4, Constants
      <3> QED BY <3>4, <3>5, <2>2 DEF Claimed
    <2> QED BY <2>3, <2>4, <2>5 DEF Claimed
  <1>11. OnePlace'
    BY <1>1, <1>2, <1>4 DEF IInv, OnePlace
  <1> QED BY <1>5, <1>6, <1>8, <1>9, <1>10, <1>11 DEF IInv

\* The invariant is inductive.
LEMMA NextIInv == IInv /\ [Next]_vars => IInv'
  <1> SUFFICES ASSUME IInv, [Next]_vars PROVE IInv'
    OBVIOUS
  <1>1. CASE UNCHANGED vars
    BY <1>1 DEF vars, IInv, TypeOK, FreshPoll, FreshRun, FreshRelease, OnePlace, OwnRows,
                Claimed, Mine, Active
  <1>2. ASSUME NEW x \in Runs, RunStep(x) \/ Heartbeat(x) PROVE IInv'
    BY <1>2, RunSafe, HeartbeatSafe
  <1>3. ASSUME NEW w \in Workers, PollStep(w) \/ Shutdown(w) \/ Crash(w) PROVE IInv'
    BY <1>3, ClaimSafe, StartSafe, ShutdownSafe, CrashSafe DEF PollStep
  <1> QED BY <1>1, <1>2, <1>3, ApiSafe, ElapseSafe DEF Next

\* The inductive invariant always holds.
LEMMA AlwaysIInv == Spec => []IInv
  BY InitIInv, NextIInv, PTL DEF Spec

\* Every state of the scan queue is well typed: a row has a claim time exactly
\* when it has a claimant, a slot a scan exactly when it is not free.
THEOREM TypeCorrect == Spec => []TypeOK
  <1>1. IInv => TypeOK
    BY DEF IInv
  <1> QED BY <1>1, AlwaysIInv, PTL

\* "At most one replica runs a given scan id", for any number of workers,
\* slots and faults, as long as claims are renewed in time, which takes a
\* heartbeat interval within the lease.
THEOREM OneRunnerAlways == HeartbeatInTime => (Spec => []OneRunner)
  <1> SUFFICES ASSUME HeartbeatInTime PROVE Spec => []OneRunner
    OBVIOUS
  <1>1. ASSUME IInv PROVE OneRunner
    <2> SUFFICES ASSUME NEW s \in Scans \ lapsed, scans[s].src = "network"
                 PROVE  /\ \A v, w \in Workers : Holds(v, s) /\ Holds(w, s) => v = w
                        /\ \A x, y \in Runs : run[x].scan = s /\ run[y].scan = s => x = y
      BY DEF OneRunner
    <2>1. /\ \A v, w \in Workers : s \in poll[v] /\ s \in poll[w] => v = w
          /\ \A w \in Workers, x \in Runs : s \in poll[w] => run[x].scan # s
          /\ \A x, y \in Runs : run[x].scan = s /\ run[y].scan = s => x = y
      BY <1>1 DEF IInv, OnePlace
    <2> QED BY <2>1 DEF Holds
  <1> QED BY <1>1, AlwaysIInv, PTL

\* "A healthy worker is never stolen": a heartbeat every Interval keeps the
\* claim of a run fresh and the worker's own, for every lease that is not
\* shorter than the interval.  (With a shorter one, a lease under a second,
\* the claim goes stale between two heartbeats.)
THEOREM HealthyNeverStolen == HeartbeatInTime => (Spec => []HealthyKeepsClaim)
  <1> SUFFICES ASSUME HeartbeatInTime PROVE Spec => []HealthyKeepsClaim
    OBVIOUS
  <1>1. ASSUME IInv PROVE HealthyKeepsClaim
    <2> SUFFICES ASSUME NEW x \in Runs, Active(x), run[x].scan \notin lapsed,
                        scans[run[x].scan].src = "network"
                 PROVE  scans[run[x].scan].st = "gone"
                        \/ (Mine(x[1], run[x].scan) /\ scans[run[x].scan].age <= LeaseTTL)
      BY DEF HealthyKeepsClaim
    <2>0. PICK s \in Scans : s = run[x].scan
      BY <1>1, Typed DEF IInv, Active
    <2>1. Claimed(x[1], s, LeaseTTL - Interval + run[x].beat)
      BY <1>1, <2>0 DEF IInv, FreshRun
    <2>2. run[x].beat \in 0 .. Interval
      BY <1>1, Typed DEF IInv
    <2>3. Mine(x[1], s) => scans[s].age \in 0 .. Stale
      BY <1>1, Typed, Constants DEF IInv, Mine
    <2> QED BY <2>0, <2>1, <2>2, <2>3, Constants DEF Claimed
  <1> QED BY <1>1, AlwaysIInv, PTL

\* A network scan that ended keeps its outcome: whoever writes a row holds a
\* claim on it, and a claimed row has not ended.
THEOREM OutcomesFinal == HeartbeatInTime => (Spec => OutcomeFinal)
  <1> SUFFICES ASSUME HeartbeatInTime PROVE Spec => OutcomeFinal
    OBVIOUS
  <1>1. ASSUME IInv, [Next]_vars, NEW s \in Scans \ lapsed',
               scans[s].st \in Ended, scans[s].src = "network"
        PROVE  scans'[s].st \in {scans[s].st, "gone"}
    <2>0. TypeOK /\ scans[s].st \notin {"running", "gone", "pending", "absent"}
      BY <1>1 DEF IInv, Ended
    <2>1. ASSUME NEW x \in Runs, Active(x), run[x].scan = s PROVE s \in lapsed
      BY <1>1, <2>0, <2>1 DEF IInv, FreshRun, Claimed, Mine
    <2>2. CASE UNCHANGED scans
      BY <2>2
    <2>3. ASSUME NEW x \in Runs, RunStep(x) PROVE scans'[s].st \in {scans[s].st, "gone"}
      <3>1. run[x].pc # "free" /\ lapsed' = lapsed
        BY <2>3 DEF RunStep, MarkRunning, FinishRun, FailRun, ReleaseRun
      <3>2. PICK r \in Scans : r = run[x].scan
        BY <3>1, <2>0, Typed
      <3>3. CASE MarkRunning(x) \/ FinishRun(x) \/ FailRun(x)
        <4>1. Active(x)
          BY <3>3 DEF Active, MarkRunning, FinishRun, FailRun
        <4>2. r # s
          BY <4>1, <3>1, <3>2, <2>1
        <4>3. OtherRows(r)
          BY <3>2, <3>3, <2>0, <1>1, RunningRow, StmtEnd, NoWrite
             DEF MarkRunning, FinishRun, FailRun, CompleteScan, FailScan, Stmt, OtherRows
        <4> QED BY <4>2, <4>3 DEF OtherRows
      <3>4. CASE ReleaseRun(x)
        <4>1. ReleaseScanClaim(x[1], r) \/ UNCHANGED scans
          BY <3>2, <3>4 DEF ReleaseRun, Stmt
        <4>2. OtherRows(r) /\ scans'[r].st = scans[r].st
          BY <4>1, <2>0, ReleaseRow, Constants DEF OtherRows
        <4> QED BY <4>2 DEF OtherRows
      <3> QED BY <2>3, <3>3, <3>4 DEF RunStep
    <2>4. ASSUME NEW x \in Runs, Heartbeat(x) PROVE scans'[s].st \in {scans[s].st, "gone"}
      <3>1. PICK r : r = run[x].scan
        OBVIOUS
      <3>2. UNCHANGED scans \/ scans' = [scans EXCEPT ![r] = [scans[r] EXCEPT !.age = 0]]
        BY <2>4, <3>1 DEF Heartbeat, HeartbeatScanClaim
      <3>3. scans \in [Scans -> Scan] /\ scans[s] \in Scan
        BY <2>0 DEF TypeOK
      <3> QED BY <3>2, <3>3 DEF Scan
    <2>5. ASSUME NEW w \in Workers, ClaimNextScans(w) PROVE scans'[s].st \in {scans[s].st, "gone"}
      <3>1. s \notin Claimable
        BY <2>0 DEF Claimable
      <3>2. s \notin Oldest(Claimable, Cardinality(Free(w)))
        BY <3>1 DEF Oldest
      <3> QED BY <2>5, <3>2 DEF ClaimNextScans
    <2>6. ASSUME NEW w \in Workers, StartScans(w) \/ Crash(w) PROVE UNCHANGED scans
      BY <2>6 DEF StartScans, Crash
    <2>7. ASSUME NEW w \in Workers, Shutdown(w) PROVE scans'[s].st \in {scans[s].st, "gone"}
      <3>1. scans'[s] = scans[s] \/ scans'[s] = Unclaimed(scans[s])
        BY <2>7 DEF Shutdown
      <3> QED BY <3>1, <2>0, UnclaimedType
    <2>8. CASE CountPending \/ InsertScan \/ CollectInsert
      BY <2>0, <2>8, <1>1 DEF CountPending, InsertScan, CollectInsert, NewScan, IInv, OwnRows, TypeOK
    <2>9. CASE CollectMark \/ CollectFinish
      <3>1. PICK r \in Scans : /\ collect[r] # "none"
                               /\ \/ UNCHANGED scans \/ UpdateScanRunning(r)
                                  \/ End(r, "completed") \/ End(r, "failed")
        BY <2>9 DEF CollectMark, CollectFinish, CompleteScan, FailScan, Stmt
      <3>2. r # s
        BY <3>1, <1>1 DEF IInv, OwnRows
      <3>3. OtherRows(r)
        BY <3>1, <2>0, RunningRow, EndRow, NoWrite DEF OtherRows
      <3> QED BY <3>2, <3>3 DEF OtherRows
    <2>10. CASE DeleteScan
      <3>1. PICK r \in Scans : scans' = [scans EXCEPT ![r] = [Unclaimed(scans[r]) EXCEPT !.st = "gone"]]
        BY <2>10 DEF DeleteScan
      <3>2. scans \in [Scans -> Scan] /\ scans[s] \in Scan
        BY <2>0 DEF TypeOK
      <3> QED BY <3>1, <3>2 DEF Unclaimed, Scan
    <2>11. CASE Elapse
      <3>1. scans'[s] = scans[s] \/ scans'[s] = [scans[s] EXCEPT !.age = scans[s].age + 1]
        BY <2>11 DEF Elapse
      <3>2. scans[s] \in Scan
        BY <2>0 DEF TypeOK
      <3> QED BY <3>1, <3>2 DEF Scan
    <2>12. CASE UNCHANGED vars
      BY <2>12, <2>2 DEF vars
    <2> QED BY <1>1, <2>2, <2>3, <2>4, <2>5, <2>6, <2>7, <2>8, <2>9, <2>10, <2>11, <2>12
            DEF Next, PollStep
  <1>2. IInv /\ [Next]_vars
          => [\A s \in Scans \ lapsed' : scans[s].st \in Ended /\ scans[s].src = "network"
                => scans'[s].st \in {scans[s].st, "gone"}]_vars
    BY <1>1
  <1> QED BY <1>2, AlwaysIInv, PTL DEF Spec, OutcomeFinal

-----------------------------------------------------------------------------
(* Backpressure.                                                           *)

Queued == {s \in Pending : scans[s].src = "network"} \cup posts
CapInv == Cardinality(posts) <= MaxPosts /\ QueueBounded

\* The queue is a finite set.
LEMMA QueueFinite ==
  ASSUME TypeOK
  PROVE  /\ IsFiniteSet(Scans) /\ IsFiniteSet(posts) /\ IsFiniteSet(Pending)
         /\ IsFiniteSet(Queued) /\ Queued \subseteq Pending \cup posts
         /\ Cardinality(posts) \in Nat /\ Cardinality(Pending) \in Nat /\ Cardinality(Queued) \in Nat
  <1>1. IsFiniteSet(Scans)
    BY FS_Interval, Constants DEF Scans
  <1>2. posts \subseteq Scans /\ Pending \subseteq Scans /\ Queued \subseteq Scans
    BY DEF TypeOK, Pending, Queued
  <1>3. IsFiniteSet(posts) /\ IsFiniteSet(Pending) /\ IsFiniteSet(Queued)
    BY <1>1, <1>2, FS_Subset
  <1> QED BY <1>1, <1>3, FS_CardinalityType DEF Queued

\* Only a request that counted the queue adds to it.
LEMMA QueueShrinks ==
  ASSUME IInv, TypeOK', CapInv, posts' \subseteq posts, Queued' \subseteq Queued
  PROVE  CapInv'
  <1>1. IsFiniteSet(posts) /\ IsFiniteSet(Queued)
    BY QueueFinite DEF IInv
  <1>2. Cardinality(posts') <= Cardinality(posts) /\ Cardinality(Queued') <= Cardinality(Queued)
    BY <1>1, FS_Subset
  <1>3. /\ Cardinality(posts) \in Nat /\ Cardinality(Queued) \in Nat
        /\ Cardinality(posts') \in Nat /\ Cardinality(Queued') \in Nat
    BY <1>1, FS_Subset, FS_CardinalityType
  <1> QED BY <1>2, <1>3, Constants DEF CapInv, QueueBounded, Queued

\* No other step puts a network scan back in the queue.
LEMMA RowsKept ==
  ASSUME IInv, [Next]_vars, ~CountPending, ~InsertScan, ~CollectInsert
  PROVE  posts' = posts /\ \A s \in Scans : SameRow(s)
  <1>0. TypeOK
    BY DEF IInv
  <1>1. CASE UNCHANGED vars
    BY <1>1, <1>0, NoWrite DEF vars
  <1>2. ASSUME NEW x \in Runs, RunStep(x) PROVE posts' = posts /\ \A s \in Scans : SameRow(s)
    <2>1. run[x].pc # "free" /\ posts' = posts
      BY <1>2 DEF RunStep, MarkRunning, FinishRun, FailRun, ReleaseRun
    <2>2. PICK r \in Scans : r = run[x].scan
      BY <1>0, <2>1, Typed
    <2>3. \/ UNCHANGED scans \/ UpdateScanRunning(r) \/ End(r, "completed") \/ End(r, "failed")
          \/ ReleaseScanClaim(x[1], r)
      BY <1>2, <2>2 DEF RunStep, MarkRunning, FinishRun, FailRun, ReleaseRun, CompleteScan,
                        FailScan, Stmt
    <2>4. OtherRows(r) /\ SameRow(r)
      BY <1>0, <2>3, NoWrite, RunningRow, EndRow, ReleaseRow, Constants DEF OtherRows
    <2> QED BY <2>1, <2>4, Untouched DEF OtherRows
  <1>3. ASSUME NEW x \in Runs, Heartbeat(x) PROVE posts' = posts /\ \A s \in Scans : SameRow(s)
    <2>1. PICK r : r = run[x].scan
      OBVIOUS
    <2>2. UNCHANGED scans \/ scans' = [scans EXCEPT ![r] = [scans[r] EXCEPT !.age = 0]]
      BY <1>3, <2>1 DEF Heartbeat, HeartbeatScanClaim
    <2>3. \A s \in Scans : scans'[s] = scans[s] \/ scans'[s] = [scans[s] EXCEPT !.age = 0]
      BY <1>0, <2>2 DEF TypeOK
    <2>4. ASSUME NEW s \in Scans PROVE SameRow(s)
      <3>1. scans[s] \in Scan
        BY <1>0 DEF TypeOK
      <3> QED BY <3>1, <2>3 DEF Scan, SameRow
    <2> QED BY <1>3, <2>4 DEF Heartbeat
  <1>4. ASSUME NEW w \in Workers, ClaimNextScans(w)
        PROVE  posts' = posts /\ \A s \in Scans : SameRow(s)
    <2>1. PICK ids : /\ ids = Oldest(Claimable, Cardinality(Free(w)))
                     /\ scans' = [s \in Scans |-> IF s \in ids
                          THEN [scans[s] EXCEPT !.st = "running", !.by = w, !.age = 0]
                          ELSE scans[s]]
      BY <1>4 DEF ClaimNextScans
    <2>2. \A s \in ids : scans[s].st # "absent"
      BY <2>1 DEF Oldest, Claimable
    <2>3. ASSUME NEW s \in Scans PROVE SameRow(s)
      <3>1. scans[s] \in Scan
        BY <1>0 DEF TypeOK
      <3>2. CASE s \in ids
        <4>1. scans'[s] = [scans[s] EXCEPT !.st = "running", !.by = w, !.age = 0]
          BY <2>1, <3>2
        <4> QED BY <3>1, <3>2, <4>1, <2>2 DEF Scan, SameRow
      <3>3. CASE s \notin ids
        BY <2>1, <3>3, Untouched
      <3> QED BY <3>2, <3>3
    <2> QED BY <1>4, <2>3 DEF ClaimNextScans
  <1>5. ASSUME NEW w \in Workers, StartScans(w) \/ Crash(w)
        PROVE  posts' = posts /\ \A s \in Scans : SameRow(s)
    BY <1>0, <1>5, NoWrite DEF StartScans, Crash
  <1>6. ASSUME NEW w \in Workers, Shutdown(w)
        PROVE  posts' = posts /\ \A s \in Scans : SameRow(s)
    <2>1. \A s \in Scans : scans'[s] = scans[s] \/ scans'[s] = Unclaimed(scans[s])
      BY <1>6 DEF Shutdown
    <2> QED BY <1>0, <1>6, <2>1, UnclaimedType DEF Shutdown, SameRow
  <1>7. CASE CollectMark \/ CollectFinish
    <2>1. PICK r \in Scans : \/ UNCHANGED scans \/ UpdateScanRunning(r)
                             \/ End(r, "completed") \/ End(r, "failed")
      BY <1>7 DEF CollectMark, CollectFinish, CompleteScan, FailScan, Stmt
    <2>2. OtherRows(r) /\ SameRow(r)
      BY <1>0, <2>1, NoWrite, RunningRow, EndRow DEF OtherRows
    <2>3. posts' = posts
      BY <1>7 DEF CollectMark, CollectFinish
    <2> QED BY <2>2, <2>3, Untouched DEF OtherRows
  <1>8. CASE DeleteScan
    <2>1. PICK r \in Scans : /\ Exists(r)
                             /\ scans' = [scans EXCEPT ![r] = [Unclaimed(scans[r]) EXCEPT !.st = "gone"]]
      BY <1>8 DEF DeleteScan
    <2>2. scans \in [Scans -> Scan] /\ scans[r] \in Scan
      BY <1>0 DEF TypeOK
    <2>3. scans'[r].src = scans[r].src /\ scans'[r].st = "gone"
      BY <2>1, <2>2 DEF Unclaimed, Scan
    <2>4. \A s \in Scans \ {r} : scans'[s] = scans[s]
      BY <2>1, <2>2
    <2> QED BY <1>8, <2>1, <2>3, <2>4, Untouched DEF DeleteScan, SameRow, Exists
  <1>9. CASE Elapse
    <2>1. ASSUME NEW s \in Scans PROVE SameRow(s)
      <3>1. scans'[s] = scans[s] \/ scans'[s] = [scans[s] EXCEPT !.age = scans[s].age + 1]
        BY <1>9 DEF Elapse
      <3>2. scans[s] \in Scan
        BY <1>0 DEF TypeOK
      <3> QED BY <3>1, <3>2 DEF Scan, SameRow
    <2> QED BY <1>9, <2>1 DEF Elapse
  <1> QED BY <1>1, <1>2, <1>3, <1>4, <1>5, <1>6, <1>7, <1>8, <1>9 DEF Next, PollStep

\* SCAN_QUEUE_MAX_PENDING is exceeded by less than the number of requests
\* served at a time, whatever the numbers are.
THEOREM QueueAlwaysBounded == Spec => []QueueBounded
  <1>1. Init => CapInv
    <2> SUFFICES ASSUME Init PROVE CapInv
      OBVIOUS
    <2>1. posts = {} /\ Queued = {}
      BY DEF Init, Queued, Pending, NoScan
    <2>2. Cardinality(posts) = 0 /\ Cardinality(Queued) = 0
      BY <2>1, FS_EmptySet
    <2>3. 0 <= MaxPosts /\ 0 <= MaxPending - 1 + MaxPosts
      BY Constants
    <2>4. Cardinality(posts) <= MaxPosts /\ Cardinality(Queued) <= MaxPending - 1 + MaxPosts
      BY <2>2, <2>3
    <2> QED BY <2>4 DEF CapInv, QueueBounded, Queued
  <1>2. ASSUME IInv, TypeOK', CapInv, [Next]_vars PROVE CapInv'
    <2>1. CASE CountPending
      <3>1. PICK s \in Scans : NewScan(s) /\ posts' = posts \cup {s}
        BY <2>1 DEF CountPending
      <3>2. /\ UNCHANGED scans /\ Cardinality(posts) < MaxPosts
            /\ Cardinality(Pending) < MaxPending
        BY <2>1 DEF CountPending
      <3>3. /\ IsFiniteSet(posts) /\ IsFiniteSet(Pending)
            /\ Cardinality(posts) \in Nat /\ Cardinality(Pending) \in Nat
        BY <1>2, QueueFinite DEF IInv
      <3>4. IsFiniteSet(posts') /\ Cardinality(posts') <= MaxPosts /\ Cardinality(posts') \in Nat
        <4>1. s \notin posts
          BY <3>1 DEF NewScan
        <4>2. IsFiniteSet(posts \cup {s}) /\ Cardinality(posts \cup {s}) = Cardinality(posts) + 1
          BY <4>1, <3>3, FS_AddElement
        <4> QED BY <4>2, <3>1, <3>2, <3>3, Constants
      <3>5. PICK P : P = Pending
        OBVIOUS
      <3>6. PICK Q : Q = posts'
        OBVIOUS
      <3>7. /\ IsFiniteSet(P \cup Q)
            /\ Cardinality(P \cup Q) = Cardinality(P) + Cardinality(Q) - Cardinality(P \cap Q)
        BY <3>3, <3>4, <3>5, <3>6, FS_Union
      <3>8. Cardinality(P \cap Q) \in Nat /\ Cardinality(P \cup Q) \in Nat
        BY <3>3, <3>5, <3>7, FS_Subset, FS_CardinalityType
      <3>9. Queued' \subseteq P \cup Q
        BY <3>2, <3>5, <3>6 DEF Queued, Pending
      <3>10. Cardinality(Queued') <= Cardinality(P \cup Q) /\ Cardinality(Queued') \in Nat
        BY <3>7, <3>9, FS_Subset, FS_CardinalityType
      <3>11. Cardinality(Queued') <= MaxPending - 1 + MaxPosts
        BY <3>2, <3>3, <3>4, <3>5, <3>6, <3>7, <3>8, <3>10, Constants
      <3> QED BY <3>4, <3>11 DEF CapInv, QueueBounded, Queued
    <2>2. CASE InsertScan
      <3>1. PICK s \in posts : /\ scans' = [scans EXCEPT ![s] = NewRow("network")]
                               /\ posts' = posts \ {s}
        BY <2>2 DEF InsertScan
      <3>2. scans \in [Scans -> Scan] /\ s \in Scans
        BY <1>2 DEF IInv, TypeOK
      <3>3. \A r \in Scans \ {s} : scans'[r] = scans[r]
        BY <3>1, <3>2
      <3>4. Queued' \subseteq Queued
        BY <3>1, <3>2, <3>3 DEF Queued, Pending
      <3> QED BY <1>2, <3>1, <3>4, QueueShrinks
    <2>3. CASE CollectInsert
      <3>1. PICK s \in Scans : scans' = [scans EXCEPT ![s] = NewRow("collector")]
        BY <2>3 DEF CollectInsert
      <3>2. scans \in [Scans -> Scan] /\ posts' = posts
        BY <1>2, <2>3 DEF IInv, TypeOK, CollectInsert
      <3>3. scans'[s].src = "collector" /\ \A r \in Scans \ {s} : scans'[r] = scans[r]
        BY <3>1, <3>2 DEF NewRow
      <3>4. Queued' \subseteq Queued
        BY <3>2, <3>3 DEF Queued, Pending
      <3> QED BY <1>2, <3>2, <3>4, QueueShrinks
    <2>4. CASE ~CountPending /\ ~InsertScan /\ ~CollectInsert
      <3>1. posts' = posts /\ \A s \in Scans : SameRow(s)
        BY <1>2, <2>4, RowsKept
      <3>2. Queued' \subseteq Queued
        BY <3>1 DEF Queued, Pending, SameRow
      <3> QED BY <1>2, <3>1, <3>2, QueueShrinks
    <2> QED BY <2>1, <2>2, <2>3, <2>4
  <1>3. IInv => TypeOK
    BY DEF IInv
  <1>4. CapInv => QueueBounded
    BY DEF CapInv
  <1> QED BY <1>1, <1>2, <1>3, <1>4, AlwaysIInv, PTL DEF Spec
=============================================================================
