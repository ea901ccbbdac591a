---------------------------- MODULE ScanRun_proofs ----------------------------
(***************************************************************************)
(* Proofs about one run of a scan, for any targets and any number of       *)
(* slots.                                                                  *)
(*                                                                         *)
(* The counters never agree with the targets while goroutines are under    *)
(* way; what is invariant is each counter together with the number of      *)
(* goroutines that still have to count (Sums).                             *)
(***************************************************************************)
EXTENDS ScanRun, FiniteSetTheorems, TLAPS

\* Goroutines at one of the points S.
Count(P, S) == Cardinality({t \in Targets : P[t].pc \in S})

\* What is still to be counted as scanned, as succeeded or failed, and as a
\* certificate or a failed upsert.
Unscanned == {"waiting", "probe"}
Unjudged == {"waiting", "probe", "failed", "succeeded"}
Unsaved == {"upsert", "found", "upsertFailed"}
Untaken == {"waiting", "upsert", "found", "upsertFailed"}

NetworkSums(s, P) ==
  /\ s.scanned + Count(P, Unscanned) = N
  /\ s.succeeded + s.failed + Count(P, Unjudged) = N
  /\ s.certs + s.upsertFailures + Count(P, Unsaved) = s.succeeded
CollectorSums(s, P) ==
  /\ s.succeeded + s.failed + Count(P, Untaken) = N
  /\ s.certs = s.succeeded /\ s.upsertFailures = 0 /\ s.scanned = 0
Sums ==
  /\ run.kind = "network" => NetworkSums(stats, probe)
  /\ Collector => CollectorSums(stats, probe)

\* Nobody works for a run that has ended.
Quiet == run.pc = "ended" => \A t \in Targets : probe[t].pc \in {"waiting", "done"}

\* A collector has at most one item in hand.
Alone ==
  run.kind = "collector" =>
    /\ \A t \in Targets : probe[t].pc \in Untaken \cup {"done"}
    /\ \A t, u \in Targets : probe[t].pc \in Working /\ probe[u].pc \in Working => t = u

Rows == [st : {"running", "completed", "failed", "gone"}, n : Counters, own : BOOLEAN]

\* What the run has written into its row is not ahead of the counters s; what
\* an earlier run left there may be.
Shows(r, s) == r.own => r.n.scanned <= s.scanned /\ r.n.certs <= s.certs

\* What a goroutine has read was true earlier.
Behind ==
  /\ \A t \in Targets : probe[t].curScanned <= stats.scanned /\ probe[t].curCerts <= stats.certs
  /\ row.st = "completed" => run.pc = "ended"

RInv == TypeOK /\ Sums /\ Quiet /\ Alone /\ Behind /\ CountersTruthful /\ SlotsConserved

-----------------------------------------------------------------------------
(* Counting goroutines.                                                    *)

NatCounters == [scanned : Nat, succeeded : Nat, failed : Nat, certs : Nat, upsertFailures : Nat,
                samples : Nat]
Points == Working \cup {"waiting", "done"}

LEMMA Constants ==
  /\ IsFiniteSet(Targets) /\ N \in Nat /\ Concurrency \in Nat /\ MaxSamples \in Nat
  /\ MaxFaults \in Nat
  BY RunAssumption, FS_CardinalityType DEF N

LEMMA CountNat ==
  ASSUME NEW P, NEW S
  PROVE  Count(P, S) \in Nat /\ IsFiniteSet({t \in Targets : P[t].pc \in S})
<1>1. IsFiniteSet({t \in Targets : P[t].pc \in S})
  BY Constants, FS_Subset
<1> QED BY <1>1, FS_CardinalityType DEF Count

\* How a count changes when one goroutine goes from a to b.
Shift(S, a, b) == (IF b \in S THEN 1 ELSE 0) - (IF a \in S THEN 1 ELSE 0)

LEMMA OneMoves ==
  ASSUME NEW A \in SUBSET Targets, NEW B \in SUBSET Targets, NEW t \in Targets,
         \A u \in Targets \ {t} : u \in A <=> u \in B
  PROVE  /\ Cardinality(A) \in Nat
         /\ (t \in A <=> t \in B) => Cardinality(B) = Cardinality(A)
         /\ t \in A /\ t \notin B => Cardinality(B) = Cardinality(A) - 1
         /\ t \notin A /\ t \in B => Cardinality(B) = Cardinality(A) + 1
<1>1. IsFiniteSet(A) /\ Cardinality(A) \in Nat
  BY Constants, FS_Subset, FS_CardinalityType
<1>2. (t \in A <=> t \in B) => A = B
  OBVIOUS
<1>3. t \in A /\ t \notin B => B = A \ {t}
  OBVIOUS
<1>4. t \notin A /\ t \in B => B = A \cup {t}
  OBVIOUS
<1> QED BY <1>1, <1>2, <1>3, <1>4, FS_RemoveElement, FS_AddElement

\* The goroutines that have a slot.
LEMMA Slots ==
  ASSUME NEW P, NEW network \in BOOLEAN
  PROVE  Cardinality({t \in Targets : network /\ P[t].pc \in Working}) =
           IF network THEN Count(P, Working) ELSE 0
<1>1. CASE network
  <2>1. {t \in Targets : network /\ P[t].pc \in Working} = {t \in Targets : P[t].pc \in Working}
    BY <1>1
  <2> QED BY <1>1, <2>1 DEF Count
<1>2. CASE ~network
  <2>1. {t \in Targets : network /\ P[t].pc \in Working} = {}
    BY <1>2
  <2> QED BY <1>2, <2>1, FS_EmptySet
<1> QED BY <1>1, <1>2

\* The counters stay within the number of targets.
LEMMA Fit ==
  ASSUME NEW s \in NatCounters, s.samples <= MaxSamples, NEW P,
         NetworkSums(s, P) \/ CollectorSums(s, P)
  PROVE  s \in Counters
<1>1. /\ Count(P, Unscanned) \in Nat /\ Count(P, Unjudged) \in Nat
      /\ Count(P, Unsaved) \in Nat /\ Count(P, Untaken) \in Nat
  BY CountNat
<1>2. /\ s.scanned \in 0 .. N /\ s.succeeded \in 0 .. N /\ s.failed \in 0 .. N
      /\ s.certs \in 0 .. N /\ s.upsertFailures \in 0 .. N /\ s.samples \in 0 .. MaxSamples
  <2>1. /\ s.scanned \in Nat /\ s.succeeded \in Nat /\ s.failed \in Nat
        /\ s.certs \in Nat /\ s.upsertFailures \in Nat /\ s.samples \in Nat
    BY DEF NatCounters
  <2>2. CASE NetworkSums(s, P)
    BY <1>1, <2>1, <2>2, Constants DEF NetworkSums
  <2>3. CASE CollectorSums(s, P)
    BY <1>1, <2>1, <2>3, Constants DEF CollectorSums
  <2> QED BY <2>2, <2>3
<1> QED BY <1>2 DEF NatCounters, Counters

LEMMA InitRInv == Init => RInv
<1> SUFFICES ASSUME Init PROVE RInv
  OBVIOUS
<1>1. \A t \in Targets : probe[t] = NoProbe
  BY DEF Init
<1>2. NoProbe.pc = "waiting" /\ NoProbe \in Probe /\ NoProbe.curScanned = 0 /\ NoProbe.curCerts = 0
  BY Constants DEF NoProbe, Probe
<1>3. /\ Zero \in Counters /\ Zero.scanned = 0 /\ Zero.succeeded = 0 /\ Zero.failed = 0
      /\ Zero.certs = 0 /\ Zero.upsertFailures = 0
  BY Constants DEF Zero, Counters
<1>4. TypeOK
  <2>1. row \in Rows
    <3>1. PICK scanned \in 0 .. N, certs \in 0 .. N :
            row = [st |-> "running", own |-> FALSE,
                   n |-> [Zero EXCEPT !.scanned = scanned, !.certs = certs]]
      BY DEF Init
    <3>2. [Zero EXCEPT !.scanned = scanned, !.certs = certs] \in Counters
      BY <1>3 DEF Counters
    <3> QED BY <3>1, <3>2 DEF Rows
  <2> QED BY <1>1, <1>2, <1>3, <2>1, Constants DEF Init, TypeOK, Rows
<1>5. ASSUME NEW S PROVE Count(probe, S) = IF "waiting" \in S THEN N ELSE 0
  <2>1. CASE "waiting" \in S
    <3>1. {t \in Targets : probe[t].pc \in S} = Targets
      BY <1>1, <1>2, <2>1
    <3> QED BY <2>1, <3>1 DEF Count, N
  <2>2. CASE "waiting" \notin S
    <3>1. {t \in Targets : probe[t].pc \in S} = {}
      BY <1>1, <1>2, <2>2
    <3> QED BY <2>2, <3>1, FS_EmptySet DEF Count
  <2> QED BY <2>1, <2>2
<1>6. Sums
  <2>1. /\ Count(probe, Unscanned) = N /\ Count(probe, Unjudged) = N /\ Count(probe, Untaken) = N
        /\ Count(probe, Unsaved) = 0
    BY <1>5 DEF Unscanned, Unjudged, Unsaved, Untaken
  <2> QED BY <1>3, <2>1, Constants DEF Init, Sums, NetworkSums, CollectorSums
<1>7. Quiet /\ Alone
  BY <1>1, <1>2 DEF Init, Quiet, Alone, Untaken, Working
<1>8. Behind
  BY <1>1, <1>2, <1>3 DEF Init, Behind
<1>9. CountersTruthful
  BY <1>3 DEF Init, CountersTruthful
<1>10. SlotsConserved
  <2>1. Count(probe, Working) = 0
    BY <1>5 DEF Working
  <2>2. Network \in BOOLEAN
    BY DEF Network
  <2>3. Cardinality({t \in Targets : Network /\ probe[t].pc \in Working}) = 0
    BY <2>1, <2>2, Slots
  <2> QED BY <2>3, Constants DEF Init, SlotsConserved
<1> QED BY <1>4, <1>6, <1>7, <1>8, <1>9, <1>10 DEF RInv

-----------------------------------------------------------------------------
(* Steps of a goroutine.                                                   *)

\* What each count becomes when the goroutine of t goes on.
LEMMA Moved ==
  ASSUME TypeOK, NEW t \in Targets, NEW x, probe' = [probe EXCEPT ![t] = x], NEW S
  PROVE  Count(probe', S) = Count(probe, S) + Shift(S, probe[t].pc, x.pc)
<1> DEFINE A == {u \in Targets : probe[u].pc \in S}
           B == {u \in Targets : probe'[u].pc \in S}
<1>1. probe'[t] = x /\ \A u \in Targets \ {t} : probe'[u] = probe[u]
  BY DEF TypeOK
<1>2. /\ \A u \in Targets \ {t} : u \in A <=> u \in B
      /\ t \in A <=> probe[t].pc \in S
      /\ t \in B <=> x.pc \in S
  BY <1>1
<1>3. A \in SUBSET Targets /\ B \in SUBSET Targets
  OBVIOUS
<1>4. Count(probe, S) = Cardinality(A) /\ Count(probe', S) = Cardinality(B)
  BY DEF Count
<1> HIDE DEF A, B
<1>5. /\ Cardinality(A) \in Nat
      /\ (t \in A <=> t \in B) => Cardinality(B) = Cardinality(A)
      /\ t \in A /\ t \notin B => Cardinality(B) = Cardinality(A) - 1
      /\ t \notin A /\ t \in B => Cardinality(B) = Cardinality(A) + 1
  BY <1>2, <1>3, OneMoves
<1> QED BY <1>2, <1>4, <1>5 DEF Shift

\* A goroutine goes on: what is left to show of the counters, the row and the
\* semaphore.
NatProbe == [pc : Points, curScanned : Nat, curCerts : Nat]
Stepped(t, x, s) ==
  /\ x \in NatProbe
  /\ s \in NatCounters /\ s.samples <= MaxSamples
  /\ s.scanned >= stats.scanned /\ s.certs >= stats.certs
  /\ x.curScanned <= s.scanned /\ x.curCerts <= s.certs
  /\ run.kind = "collector" =>
       /\ x.pc \in Untaken \cup {"done"}
       /\ x.pc \in Working => \A u \in Targets \ {t} : probe[u].pc \notin Working

LEMMA ProbeMoves ==
  ASSUME RInv, NEW t \in Targets, NEW x, NEW s, Stepped(t, x, s),
         probe' = [probe EXCEPT ![t] = x], stats' = s, run' = run, run.pc = "running",
         Sums', SlotsConserved', slots' \in 0 .. Concurrency, faults' \in 0 .. MaxFaults,
         row' \in Rows,
         row'.st # "completed", Shows(row', s)
  PROVE  RInv'
<1>1. /\ probe \in [Targets -> Probe] /\ run \in [kind : {"network", "collector"}, pc : {"running", "ended"}]
      /\ stats \in Counters
  BY DEF RInv, TypeOK
<1>2. stats' \in Counters
  <2>1. s \in NatCounters /\ s.samples <= MaxSamples
    BY DEF Stepped
  <2>2. NetworkSums(s, probe') \/ CollectorSums(s, probe')
    BY <1>1 DEF Sums, Collector
  <2> QED BY <2>1, <2>2, Fit
<1>3. x \in Probe
  <2>1. s.scanned \in 0 .. N /\ s.certs \in 0 .. N
    BY <1>2 DEF Counters
  <2>2. x.curScanned \in 0 .. N /\ x.curCerts \in 0 .. N /\ x.pc \in Working \cup {"waiting", "done"}
    BY <2>1, Constants DEF Stepped, NatProbe, Points
  <2> QED BY <2>2 DEF Stepped, NatProbe, Probe
<1>4. probe' \in [Targets -> Probe] /\ probe'[t] = x /\ \A u \in Targets \ {t} : probe'[u] = probe[u]
  BY <1>1, <1>3
<1>5. TypeOK'
  BY <1>1, <1>2, <1>4 DEF TypeOK, Rows
<1>6. Quiet'
  BY DEF Quiet
<1>7. Alone'
  BY <1>4 DEF RInv, Alone, Stepped
<1>8. Behind'
  <2>1. ASSUME NEW u \in Targets
        PROVE  probe'[u].curScanned <= s.scanned /\ probe'[u].curCerts <= s.certs
    <3>1. CASE u = t
      BY <1>4, <3>1 DEF Stepped
    <3>2. CASE u # t
      <4>1. /\ probe'[u] = probe[u] /\ probe[u].curScanned \in Nat /\ probe[u].curCerts \in Nat
            /\ stats.scanned \in Nat /\ stats.certs \in Nat /\ s.scanned \in Nat /\ s.certs \in Nat
        BY <1>1, <1>4, <3>2, Constants DEF Probe, Counters, Stepped, NatCounters
      <4>2. probe[u].curScanned <= stats.scanned /\ probe[u].curCerts <= stats.certs
        BY DEF RInv, Behind
      <4> QED BY <4>1, <4>2 DEF Stepped
    <3> QED BY <3>1, <3>2
  <2> QED BY <2>1 DEF Behind
<1>9. CountersTruthful'
  BY DEF CountersTruthful, Shows
<1> QED BY <1>5, <1>6, <1>7, <1>8, <1>9 DEF RInv

\* Someone who works does so for a run that goes on, whose row is not yet
\* complete.
LEMMA AtWork ==
  ASSUME RInv, NEW t \in Targets, probe[t].pc \notin {"waiting", "done"}
  PROVE  run.pc = "running" /\ row.st # "completed"
  BY DEF RInv, Quiet, Behind, TypeOK

\* The row stays behind the counters while they grow.
LEMMA RowBehind ==
  ASSUME RInv, row.st # "completed", NEW s \in NatCounters, s.scanned >= stats.scanned,
         s.certs >= stats.certs
  PROVE  /\ row \in Rows
         /\ Shows(row, s)
<1>1. /\ row.n.scanned \in Nat /\ row.n.certs \in Nat /\ stats.scanned \in Nat /\ stats.certs \in Nat
      /\ row \in Rows
  BY Constants DEF RInv, TypeOK, Counters, Rows
<1>2. Shows(row, stats)
  BY DEF RInv, CountersTruthful, Shows
<1> QED BY <1>1, <1>2 DEF NatCounters, Shows

\* The fields of a goroutine and of the counters.
LEMMA Fields ==
  ASSUME TypeOK, NEW t \in Targets
  PROVE  /\ probe[t].pc \in Points /\ probe[t].curScanned \in Nat /\ probe[t].curCerts \in Nat
         /\ probe[t] \in NatProbe
         /\ stats \in NatCounters /\ stats.samples <= MaxSamples
<1>1. probe[t] \in Probe /\ stats \in Counters
  BY DEF TypeOK
<1>2. probe[t].pc \in Points /\ probe[t].curScanned \in Nat /\ probe[t].curCerts \in Nat
      /\ probe[t] \in NatProbe
  BY <1>1, Constants DEF Probe, Points, NatProbe
<1>3. stats \in NatCounters /\ stats.samples <= MaxSamples
  BY <1>1, Constants DEF Counters, NatCounters
<1> QED BY <1>1, <1>2, <1>3

LEMMA GotoFields ==
  ASSUME NEW r \in NatProbe, NEW pc \in Points
  PROVE  LET x == [r EXCEPT !.pc = pc] IN
         x \in NatProbe /\ x.pc = pc /\ x.curScanned = r.curScanned /\ x.curCerts = r.curCerts
  BY DEF NatProbe

LEMMA GotoOK ==
  ASSUME TypeOK, NEW t \in Targets, NEW pc, Goto(t, pc)
  PROVE  probe' = [probe EXCEPT ![t] = [probe[t] EXCEPT !.pc = pc]]
  BY DEF TypeOK, Goto

\* A step that leaves row and semaphore alone.
LEMMA InnerStep ==
  ASSUME RInv, NEW t \in Targets, NEW x, NEW s, Stepped(t, x, s),
         probe' = [probe EXCEPT ![t] = x], stats' = s, UNCHANGED <<run, row, slots, faults>>,
         run.pc = "running", row.st # "completed", Sums',
         Network => probe[t].pc \in Working /\ x.pc \in Working
  PROVE  RInv'
<1>1. /\ row' \in Rows
      /\ Shows(row', s)
  BY RowBehind DEF Stepped
<1>2. slots' \in 0 .. Concurrency /\ faults' \in 0 .. MaxFaults /\ slots \in Nat
  BY Constants DEF RInv, TypeOK
<1>3. SlotsConserved'
  <2>1. Network \in BOOLEAN /\ Network' = Network
    BY DEF Network
  <2>2. Network => Count(probe', Working) = Count(probe, Working)
    <3>1. Count(probe, Working) \in Nat
      BY CountNat
    <3>2. Count(probe', Working) = Count(probe, Working) + Shift(Working, probe[t].pc, x.pc)
      BY Moved DEF RInv
    <3> QED BY <3>1, <3>2 DEF Shift
  <2>3. /\ Cardinality({u \in Targets : Network /\ probe[u].pc \in Working}) =
             IF Network THEN Count(probe, Working) ELSE 0
        /\ Cardinality({u \in Targets : Network /\ probe'[u].pc \in Working}) =
             IF Network THEN Count(probe', Working) ELSE 0
    BY <2>1, Slots
  <2> QED BY <2>1, <2>2, <2>3 DEF RInv, SlotsConserved
<1> QED BY <1>1, <1>2, <1>3, ProbeMoves

LEMMA ShiftInt == ASSUME NEW S, NEW a, NEW b PROVE Shift(S, a, b) \in Int
  BY DEF Shift

\* The sums are kept by a step that counts what it takes off the counts.
Settles(t, x, s) ==
  /\ s.scanned = stats.scanned - Shift(Unscanned, probe[t].pc, x.pc)
  /\ s.succeeded + s.failed = (stats.succeeded + stats.failed) - Shift(Unjudged, probe[t].pc, x.pc)
  /\ (s.certs + s.upsertFailures) - s.succeeded =
       ((stats.certs + stats.upsertFailures) - stats.succeeded) - Shift(Unsaved, probe[t].pc, x.pc)

LEMMA NetworkSumsKept ==
  ASSUME RInv, run.kind = "network", NEW t \in Targets, NEW x, probe' = [probe EXCEPT ![t] = x],
         NEW s \in NatCounters, stats' = s, UNCHANGED run, Settles(t, x, s)
  PROVE  Sums'
<1> DEFINE i == Shift(Unscanned, probe[t].pc, x.pc)
           j == Shift(Unjudged, probe[t].pc, x.pc)
           k == Shift(Unsaved, probe[t].pc, x.pc)
           C(S) == Count(probe, S)
           D(S) == Count(probe', S)
<1>1. TypeOK /\ stats \in NatCounters /\ NetworkSums(stats, probe)
  BY Fields DEF RInv, Sums
<1>2. D(Unscanned) = C(Unscanned) + i /\ D(Unjudged) = C(Unjudged) + j /\ D(Unsaved) = C(Unsaved) + k
  BY <1>1, Moved
<1>3. /\ C(Unscanned) \in Int /\ C(Unjudged) \in Int /\ C(Unsaved) \in Int
      /\ i \in Int /\ j \in Int /\ k \in Int /\ N \in Int
  <2>1. C(Unscanned) \in Nat /\ C(Unjudged) \in Nat /\ C(Unsaved) \in Nat
    BY CountNat
  <2>2. i \in Int /\ j \in Int /\ k \in Int
    BY ShiftInt
  <2> QED BY <2>1, <2>2, Constants
<1>4. /\ stats.scanned \in Int /\ stats.succeeded \in Int /\ stats.failed \in Int
      /\ stats.certs \in Int /\ stats.upsertFailures \in Int
      /\ s.scanned \in Int /\ s.succeeded \in Int /\ s.failed \in Int
      /\ s.certs \in Int /\ s.upsertFailures \in Int
  BY <1>1 DEF NatCounters
<1>5. /\ stats.scanned + C(Unscanned) = N
      /\ stats.succeeded + stats.failed + C(Unjudged) = N
      /\ stats.certs + stats.upsertFailures + C(Unsaved) = stats.succeeded
  BY <1>1 DEF NetworkSums
<1>6. /\ s.scanned = stats.scanned - i
      /\ s.succeeded + s.failed = (stats.succeeded + stats.failed) - j
      /\ (s.certs + s.upsertFailures) - s.succeeded =
           ((stats.certs + stats.upsertFailures) - stats.succeeded) - k
  BY DEF Settles
<1> HIDE DEF i, j, k, C, D
<1>7. s.scanned + D(Unscanned) = N
  BY <1>2, <1>3, <1>4, <1>5, <1>6
<1>8. s.succeeded + s.failed + D(Unjudged) = N
  BY <1>2, <1>3, <1>4, <1>5, <1>6
<1>9. s.certs + s.upsertFailures + D(Unsaved) = s.succeeded
  <2> DEFINE a == stats.certs + stats.upsertFailures
             b == s.certs + s.upsertFailures
  <2>1. a \in Int /\ b \in Int /\ a + C(Unsaved) = stats.succeeded
    BY <1>4, <1>5
  <2>2. b - s.succeeded = (a - stats.succeeded) - k
    BY <1>6
  <2> HIDE DEF a, b
  <2>3. b + D(Unsaved) = s.succeeded
    BY <1>2, <1>3, <1>4, <2>1, <2>2
  <2> QED BY <2>3 DEF b
<1>10. NetworkSums(s, probe')
  BY <1>7, <1>8, <1>9 DEF NetworkSums, D
<1> QED BY <1>10 DEF Sums, Collector

\* The same for the items of a collector.
Takes(t, x, s) ==
  /\ s.succeeded + s.failed = (stats.succeeded + stats.failed) - Shift(Untaken, probe[t].pc, x.pc)
  /\ s.certs - s.succeeded = stats.certs - stats.succeeded
  /\ s.upsertFailures = stats.upsertFailures /\ s.scanned = stats.scanned

LEMMA CollectorSumsKept ==
  ASSUME RInv, Collector, NEW t \in Targets, NEW x, probe' = [probe EXCEPT ![t] = x],
         NEW s \in NatCounters, stats' = s, UNCHANGED run, Takes(t, x, s)
  PROVE  Sums'
<1> DEFINE i == Shift(Untaken, probe[t].pc, x.pc)
           C == Count(probe, Untaken)
           D == Count(probe', Untaken)
<1>1. TypeOK /\ stats \in NatCounters /\ CollectorSums(stats, probe)
  BY Fields DEF RInv, Sums
<1>2. D = C + i /\ C \in Int /\ i \in Int /\ N \in Int
  <2>1. D = C + i
    BY <1>1, Moved
  <2>2. C \in Nat
    BY CountNat
  <2>3. i \in Int
    BY ShiftInt
  <2> QED BY <2>1, <2>2, <2>3, Constants
<1>3. /\ stats.succeeded \in Int /\ stats.failed \in Int /\ stats.certs \in Int
      /\ s.succeeded \in Int /\ s.failed \in Int /\ s.certs \in Int
  BY <1>1 DEF NatCounters
<1>4. /\ stats.succeeded + stats.failed + C = N /\ stats.certs = stats.succeeded
      /\ stats.upsertFailures = 0 /\ stats.scanned = 0
  BY <1>1 DEF CollectorSums
<1>5. s.succeeded + s.failed = (stats.succeeded + stats.failed) - i
  BY DEF Takes
<1> HIDE DEF i, C, D
<1>6. s.succeeded + s.failed + D = N
  BY <1>2, <1>3, <1>4, <1>5
<1>7. s.certs = s.succeeded
  BY <1>3, <1>4 DEF Takes
<1>8. CollectorSums(s, probe')
  BY <1>4, <1>6, <1>7 DEF CollectorSums, D, Takes
<1> QED BY <1>8 DEF Sums, Collector

\* Points only a goroutine of a network scan reaches.
LEMMA NetworkOnly ==
  ASSUME RInv, NEW t \in Targets,
         probe[t].pc \in {"probe", "failed", "succeeded", "read", "enrich", "progress"}
  PROVE  Network /\ run.kind = "network" /\ ~Collector /\ row.st # "completed"
<1>1. run.pc = "running" /\ row.st # "completed"
  BY AtWork
<1>2. run.kind # "collector"
  BY DEF RInv, Alone, Untaken
<1> QED BY <1>1, <1>2 DEF RInv, TypeOK, Network, Collector

LEMMA HandshakeStep == ASSUME RInv, NEW t \in Targets, Handshake(t) PROVE RInv'
<1>1. PICK outcome \in {"failed", "succeeded"} :
        probe' = [probe EXCEPT ![t].pc = outcome, ![t].curScanned = stats.scanned + 1]
  BY DEF Handshake
<1> DEFINE x == [probe[t] EXCEPT !.pc = outcome, !.curScanned = stats.scanned + 1]
           s == [stats EXCEPT !.scanned = @ + 1]
<1>2. probe' = [probe EXCEPT ![t] = x] /\ stats' = s /\ UNCHANGED <<run, row, slots, faults>>
  BY <1>1 DEF Handshake, RInv, TypeOK
<1>3. probe[t].pc = "probe" /\ Network /\ run.kind = "network" /\ ~Collector /\ row.st # "completed"
  BY NetworkOnly DEF Handshake
<1>4. /\ probe[t] \in NatProbe /\ probe[t].curCerts \in Nat /\ stats \in NatCounters
      /\ stats.samples <= MaxSamples /\ probe[t].curCerts <= stats.certs
  BY Fields DEF RInv, Behind
<1>5. x \in NatProbe /\ x.pc = outcome /\ x.curScanned = stats.scanned + 1 /\ x.curCerts = probe[t].curCerts
  <2>1. outcome \in Points /\ stats.scanned + 1 \in Nat
    BY <1>1, <1>4 DEF Points, Working, NatCounters
  <2> QED BY <1>4, <2>1 DEF NatProbe
<1>6. /\ s \in NatCounters /\ s.scanned = stats.scanned + 1 /\ s.succeeded = stats.succeeded
      /\ s.failed = stats.failed /\ s.certs = stats.certs /\ s.upsertFailures = stats.upsertFailures
      /\ s.samples = stats.samples
  BY <1>4 DEF NatCounters
<1> HIDE DEF x, s
<1>7. Settles(t, x, s)
  <2>1. /\ Shift(Unscanned, probe[t].pc, x.pc) = -1 /\ Shift(Unjudged, probe[t].pc, x.pc) = 0
        /\ Shift(Unsaved, probe[t].pc, x.pc) = 0
    BY <1>1, <1>3, <1>5 DEF Shift, Unscanned, Unjudged, Unsaved
  <2> QED BY <1>4, <1>6, <2>1 DEF Settles, NatCounters
<1>8. Stepped(t, x, s)
  BY <1>3, <1>4, <1>5, <1>6 DEF Stepped, NatCounters
<1> QED BY <1>1, <1>2, <1>3, <1>5, <1>6, <1>7, <1>8, NetworkSumsKept, InnerStep DEF Working, Network

\* addSample never goes past the cap.
LEMMA SampleOK ==
  ASSUME NEW n \in Nat, n <= MaxSamples
  PROVE  addSample(n) \in Nat /\ addSample(n) <= MaxSamples
  BY Constants DEF addSample

LEMMA FailureFields ==
  ASSUME NEW r \in NatCounters, NEW v \in Nat
  PROVE  LET s == [r EXCEPT !.failed = @ + 1, !.samples = v] IN
         /\ s \in NatCounters /\ s.samples = v /\ s.failed = r.failed + 1
         /\ s.scanned = r.scanned /\ s.succeeded = r.succeeded
         /\ s.certs = r.certs /\ s.upsertFailures = r.upsertFailures
<1> DEFINE w == r.failed + 1
<1>1. w \in Nat
  BY DEF NatCounters
<1> HIDE DEF w
<1>2. LET s == [r EXCEPT !.failed = w, !.samples = v] IN
      /\ s \in NatCounters /\ s.samples = v /\ s.failed = w
      /\ s.scanned = r.scanned
      /\ s.succeeded = r.succeeded
      /\ s.certs = r.certs
      /\ s.upsertFailures = r.upsertFailures
  BY <1>1 DEF NatCounters
<1> QED BY <1>2 DEF w

LEMMA UpsertFailureFields ==
  ASSUME NEW r \in NatCounters, NEW v \in Nat
  PROVE  LET s == [r EXCEPT !.upsertFailures = @ + 1, !.samples = v] IN
         /\ s \in NatCounters /\ s.samples = v /\ s.failed = r.failed
         /\ s.scanned = r.scanned /\ s.succeeded = r.succeeded
         /\ s.certs = r.certs /\ s.upsertFailures = r.upsertFailures + 1
<1> DEFINE w == r.upsertFailures + 1
<1>1. w \in Nat
  BY DEF NatCounters
<1> HIDE DEF w
<1>2. LET s == [r EXCEPT !.upsertFailures = w, !.samples = v] IN
      /\ s \in NatCounters /\ s.samples = v /\ s.upsertFailures = w
      /\ s.scanned = r.scanned
      /\ s.succeeded = r.succeeded
      /\ s.failed = r.failed
      /\ s.certs = r.certs
  BY <1>1 DEF NatCounters
<1> QED BY <1>2 DEF w

LEMMA RecordProbeFailureStep == ASSUME RInv, NEW t \in Targets, RecordProbeFailure(t) PROVE RInv'
<1> DEFINE x == [probe[t] EXCEPT !.pc = "read"]
           s == [stats EXCEPT !.failed = @ + 1, !.samples = addSample(@)]
<1>1. probe' = [probe EXCEPT ![t] = x] /\ stats' = s /\ UNCHANGED <<run, row, slots, faults>>
  BY GotoOK DEF RecordProbeFailure, RInv
<1>2. probe[t].pc = "failed" /\ Network /\ run.kind = "network" /\ ~Collector /\ row.st # "completed"
  BY NetworkOnly DEF RecordProbeFailure, Network, Collector
<1>3. /\ probe[t] \in NatProbe /\ stats \in NatCounters /\ stats.samples <= MaxSamples
      /\ probe[t].curCerts <= stats.certs /\ probe[t].curScanned <= stats.scanned
  BY Fields DEF RInv, Behind
<1>4. /\ x \in NatProbe /\ x.pc = "read" /\ x.curScanned = probe[t].curScanned
      /\ x.curCerts = probe[t].curCerts
  BY <1>3, GotoFields DEF Points, Working
<1>5. /\ s \in NatCounters /\ s.samples <= MaxSamples
      /\ s.scanned = stats.scanned
      /\ s.succeeded = stats.succeeded
      /\ s.failed = stats.failed + 1
      /\ s.certs = stats.certs
      /\ s.upsertFailures = stats.upsertFailures
  <2> DEFINE v == addSample(stats.samples)
  <2>1. stats.samples \in Nat /\ v \in Nat /\ v <= MaxSamples
    BY <1>3, SampleOK DEF NatCounters
  <2>2. s = [stats EXCEPT !.failed = @ + 1, !.samples = v]
    OBVIOUS
  <2> HIDE DEF v, s
  <2> QED BY <1>3, <2>1, <2>2, FailureFields
<1> HIDE DEF x, s
<1>6. Settles(t, x, s)
  <2>1. /\ Shift(Unscanned, probe[t].pc, x.pc) = 0 /\ Shift(Unjudged, probe[t].pc, x.pc) = -1
        /\ Shift(Unsaved, probe[t].pc, x.pc) = 0
    BY <1>2, <1>4 DEF Shift, Unscanned, Unjudged, Unsaved
  <2> QED BY <1>3, <1>5, <2>1 DEF Settles, NatCounters
<1>7. Stepped(t, x, s)
  BY <1>2, <1>3, <1>4, <1>5 DEF Stepped, NatCounters
<1> QED BY <1>1, <1>2, <1>4, <1>5, <1>6, <1>7, NetworkSumsKept, InnerStep DEF Working, Network

LEMMA RecordProbeSuccessStep == ASSUME RInv, NEW t \in Targets, RecordProbeSuccess(t) PROVE RInv'
<1> DEFINE x == [probe[t] EXCEPT !.pc = "upsert"]
           s == [stats EXCEPT !.succeeded = @ + 1]
<1>1. probe' = [probe EXCEPT ![t] = x] /\ stats' = s /\ UNCHANGED <<run, row, slots, faults>>
  BY GotoOK DEF RecordProbeSuccess, RInv
<1>2. probe[t].pc = "succeeded" /\ Network /\ run.kind = "network" /\ ~Collector /\ row.st # "completed"
  BY NetworkOnly DEF RecordProbeSuccess, Network, Collector
<1>3. /\ probe[t] \in NatProbe /\ stats \in NatCounters /\ stats.samples <= MaxSamples
      /\ probe[t].curCerts <= stats.certs /\ probe[t].curScanned <= stats.scanned
  BY Fields DEF RInv, Behind
<1>4. /\ x \in NatProbe /\ x.pc = "upsert" /\ x.curScanned = probe[t].curScanned
      /\ x.curCerts = probe[t].curCerts
  BY <1>3, GotoFields DEF Points, Working
<1>5. /\ s \in NatCounters /\ s.samples <= MaxSamples
      /\ s.scanned = stats.scanned
      /\ s.succeeded = stats.succeeded + 1
      /\ s.failed = stats.failed
      /\ s.certs = stats.certs
      /\ s.upsertFailures = stats.upsertFailures
  BY <1>3 DEF NatCounters
<1> HIDE DEF x, s
<1>6. Settles(t, x, s)
  <2>1. /\ Shift(Unscanned, probe[t].pc, x.pc) = 0 /\ Shift(Unjudged, probe[t].pc, x.pc) = -1
        /\ Shift(Unsaved, probe[t].pc, x.pc) = 1
    BY <1>2, <1>4 DEF Shift, Unscanned, Unjudged, Unsaved
  <2> QED BY <1>3, <1>5, <2>1 DEF Settles, NatCounters
<1>7. Stepped(t, x, s)
  BY <1>2, <1>3, <1>4, <1>5 DEF Stepped, NatCounters
<1> QED BY <1>1, <1>2, <1>4, <1>5, <1>6, <1>7, NetworkSumsKept, InnerStep DEF Working, Network

LEMMA EnrichStep == ASSUME RInv, NEW t \in Targets, Enrich(t) PROVE RInv'
<1> DEFINE x == [probe[t] EXCEPT !.pc = "progress"]
           s == stats
<1>1. probe' = [probe EXCEPT ![t] = x] /\ stats' = s /\ UNCHANGED <<run, row, slots, faults>>
  BY GotoOK DEF Enrich, RInv
<1>2. probe[t].pc = "enrich" /\ Network /\ run.kind = "network" /\ ~Collector /\ row.st # "completed"
  BY NetworkOnly DEF Enrich, Network, Collector
<1>3. /\ probe[t] \in NatProbe /\ stats \in NatCounters /\ stats.samples <= MaxSamples
      /\ probe[t].curCerts <= stats.certs /\ probe[t].curScanned <= stats.scanned
  BY Fields DEF RInv, Behind
<1>4. /\ x \in NatProbe /\ x.pc = "progress" /\ x.curScanned = probe[t].curScanned
      /\ x.curCerts = probe[t].curCerts
  BY <1>3, GotoFields DEF Points, Working
<1>5. /\ s \in NatCounters /\ s.samples <= MaxSamples
      /\ s.scanned = stats.scanned
      /\ s.succeeded = stats.succeeded
      /\ s.failed = stats.failed
      /\ s.certs = stats.certs
      /\ s.upsertFailures = stats.upsertFailures
  BY <1>3 DEF NatCounters
<1> HIDE DEF x, s
<1>6. Settles(t, x, s)
  <2>1. /\ Shift(Unscanned, probe[t].pc, x.pc) = 0 /\ Shift(Unjudged, probe[t].pc, x.pc) = 0
        /\ Shift(Unsaved, probe[t].pc, x.pc) = 0
    BY <1>2, <1>4 DEF Shift, Unscanned, Unjudged, Unsaved
  <2> QED BY <1>3, <1>5, <2>1 DEF Settles, NatCounters
<1>7. Stepped(t, x, s)
  BY <1>2, <1>3, <1>4, <1>5 DEF Stepped, NatCounters
<1> QED BY <1>1, <1>2, <1>4, <1>5, <1>6, <1>7, NetworkSumsKept, InnerStep DEF Working, Network

LEMMA RecordUpsertFailureStep == ASSUME RInv, NEW t \in Targets, RecordUpsertFailure(t) PROVE RInv'
<1> DEFINE x == [probe[t] EXCEPT !.pc = "read"]
           s == [stats EXCEPT !.upsertFailures = @ + 1, !.samples = addSample(@)]
<1>1. probe' = [probe EXCEPT ![t] = x] /\ stats' = s /\ UNCHANGED <<run, row, slots, faults>>
  BY GotoOK DEF RecordUpsertFailure, RInv
<1>2. probe[t].pc = "upsertFailed" /\ Network /\ run.kind = "network" /\ ~Collector /\ row.st # "completed"
  BY AtWork DEF RecordUpsertFailure, Network, Collector
<1>3. /\ probe[t] \in NatProbe /\ stats \in NatCounters /\ stats.samples <= MaxSamples
      /\ probe[t].curCerts <= stats.certs /\ probe[t].curScanned <= stats.scanned
  BY Fields DEF RInv, Behind
<1>4. /\ x \in NatProbe /\ x.pc = "read" /\ x.curScanned = probe[t].curScanned
      /\ x.curCerts = probe[t].curCerts
  BY <1>3, GotoFields DEF Points, Working
<1>5. /\ s \in NatCounters /\ s.samples <= MaxSamples
      /\ s.scanned = stats.scanned
      /\ s.succeeded = stats.succeeded
      /\ s.failed = stats.failed
      /\ s.certs = stats.certs
      /\ s.upsertFailures = stats.upsertFailures + 1
  <2> DEFINE v == addSample(stats.samples)
  <2>1. stats.samples \in Nat /\ v \in Nat /\ v <= MaxSamples
    BY <1>3, SampleOK DEF NatCounters
  <2>2. s = [stats EXCEPT !.upsertFailures = @ + 1, !.samples = v]
    OBVIOUS
  <2> HIDE DEF v, s
  <2> QED BY <1>3, <2>1, <2>2, UpsertFailureFields
<1> HIDE DEF x, s
<1>6. Settles(t, x, s)
  <2>1. /\ Shift(Unscanned, probe[t].pc, x.pc) = 0 /\ Shift(Unjudged, probe[t].pc, x.pc) = 0
        /\ Shift(Unsaved, probe[t].pc, x.pc) = -1
    BY <1>2, <1>4 DEF Shift, Unscanned, Unjudged, Unsaved
  <2> QED BY <1>3, <1>5, <2>1 DEF Settles, NatCounters
<1>7. Stepped(t, x, s)
  BY <1>2, <1>3, <1>4, <1>5 DEF Stepped, NatCounters
<1> QED BY <1>1, <1>2, <1>4, <1>5, <1>6, <1>7, NetworkSumsKept, InnerStep DEF Working, Network

LEMMA ReadCertsFoundStep == ASSUME RInv, NEW t \in Targets, ReadCertsFound(t) PROVE RInv'
<1> DEFINE x == [probe[t] EXCEPT !.pc = "progress", !.curCerts = stats.certs]
           s == stats
<1>1. probe' = [probe EXCEPT ![t] = x] /\ stats' = s /\ UNCHANGED <<run, row, slots, faults>>
  BY DEF ReadCertsFound, RInv, TypeOK
<1>2. probe[t].pc = "read" /\ Network /\ run.kind = "network" /\ ~Collector /\ row.st # "completed"
  BY NetworkOnly DEF ReadCertsFound, Network, Collector
<1>3. /\ probe[t] \in NatProbe /\ stats \in NatCounters /\ stats.samples <= MaxSamples
      /\ probe[t].curCerts <= stats.certs /\ probe[t].curScanned <= stats.scanned
  BY Fields DEF RInv, Behind
<1>4. /\ x \in NatProbe /\ x.pc = "progress" /\ x.curScanned = probe[t].curScanned
      /\ x.curCerts = stats.certs
  BY <1>3 DEF NatProbe, NatCounters, Points, Working
<1>5. /\ s \in NatCounters /\ s.samples <= MaxSamples
      /\ s.scanned = stats.scanned
      /\ s.succeeded = stats.succeeded
      /\ s.failed = stats.failed
      /\ s.certs = stats.certs
      /\ s.upsertFailures = stats.upsertFailures
  BY <1>3 DEF NatCounters
<1> HIDE DEF x, s
<1>6. Settles(t, x, s)
  <2>1. /\ Shift(Unscanned, probe[t].pc, x.pc) = 0 /\ Shift(Unjudged, probe[t].pc, x.pc) = 0
        /\ Shift(Unsaved, probe[t].pc, x.pc) = 0
    BY <1>2, <1>4 DEF Shift, Unscanned, Unjudged, Unsaved
  <2> QED BY <1>3, <1>5, <2>1 DEF Settles, NatCounters
<1>7. Stepped(t, x, s)
  BY <1>2, <1>3, <1>4, <1>5 DEF Stepped, NatCounters
<1> QED BY <1>1, <1>2, <1>4, <1>5, <1>6, <1>7, NetworkSumsKept, InnerStep DEF Working, Network

LEMMA UpsertCertificateStep == ASSUME RInv, NEW t \in Targets, UpsertCertificate(t) PROVE RInv'
<1>1. PICK pc \in {"found", "upsertFailed"} : Goto(t, pc)
  BY DEF UpsertCertificate
<1> DEFINE x == [probe[t] EXCEPT !.pc = pc]
<1>2. probe' = [probe EXCEPT ![t] = x] /\ stats' = stats /\ UNCHANGED <<run, row, slots, faults>>
  BY <1>1, GotoOK DEF UpsertCertificate, RInv
<1>3. probe[t].pc = "upsert" /\ run.pc = "running" /\ row.st # "completed"
  BY AtWork DEF UpsertCertificate
<1>4. /\ probe[t] \in NatProbe /\ stats \in NatCounters /\ stats.samples <= MaxSamples
      /\ probe[t].curCerts <= stats.certs /\ probe[t].curScanned <= stats.scanned
  BY Fields DEF RInv, Behind
<1>5. /\ x \in NatProbe /\ x.pc = pc /\ x.curScanned = probe[t].curScanned
      /\ x.curCerts = probe[t].curCerts
  <2>1. pc \in Points
    BY <1>1 DEF Points, Working
  <2> QED BY <1>4, <2>1, GotoFields
<1> HIDE DEF x
<1>6. Sums'
  <2>1. /\ Shift(Unscanned, probe[t].pc, x.pc) = 0 /\ Shift(Unjudged, probe[t].pc, x.pc) = 0
        /\ Shift(Unsaved, probe[t].pc, x.pc) = 0 /\ Shift(Untaken, probe[t].pc, x.pc) = 0
    BY <1>1, <1>3, <1>5 DEF Shift, Unscanned, Unjudged, Unsaved, Untaken
  <2>2. Settles(t, x, stats) /\ Takes(t, x, stats)
    BY <1>4, <2>1 DEF Settles, Takes, NatCounters
  <2>3. run.kind = "network" \/ Collector
    BY <1>3 DEF Collector, RInv, TypeOK
  <2> QED BY <1>2, <1>4, <2>2, <2>3, NetworkSumsKept, CollectorSumsKept
<1>7. Stepped(t, x, stats)
  <2>1. run.kind = "collector" => \A u \in Targets \ {t} : probe[u].pc \notin Working
    BY <1>3 DEF RInv, Alone, Working
  <2>2. x.pc \in Untaken \cup {"done"}
    BY <1>1, <1>5 DEF Untaken
  <2> QED BY <1>4, <1>5, <2>1, <2>2 DEF Stepped, NatCounters
<1>8. probe[t].pc \in Working /\ x.pc \in Working
  BY <1>1, <1>3, <1>5 DEF Working
<1> QED BY <1>2, <1>3, <1>6, <1>7, <1>8, InnerStep

LEMMA FoundStep == ASSUME RInv, NEW t \in Targets, Found(t) PROVE RInv'
<1> DEFINE pc == IF Collector THEN "done" ELSE "enrich"
           v == IF Collector THEN stats.succeeded + 1 ELSE stats.succeeded
           c == stats.certs + 1
           x == [probe[t] EXCEPT !.pc = pc, !.curCerts = c]
           s == [stats EXCEPT !.certs = c, !.succeeded = v]
<1>1. probe' = [probe EXCEPT ![t] = x] /\ stats' = s /\ UNCHANGED <<run, row, slots, faults>>
  BY DEF Found, RInv, TypeOK, Counters
<1>2. probe[t].pc = "found" /\ run.pc = "running" /\ row.st # "completed"
  BY AtWork DEF Found
<1>3. /\ probe[t] \in NatProbe /\ stats \in NatCounters /\ stats.samples <= MaxSamples
      /\ probe[t].curCerts <= stats.certs /\ probe[t].curScanned <= stats.scanned
  BY Fields DEF RInv, Behind
<1>4. c \in Nat /\ v \in Nat /\ pc \in Points /\ c = stats.certs + 1
  BY <1>3 DEF NatCounters, Points, Working
<1>5. ~Collector => pc = "enrich" /\ v = stats.succeeded
  OBVIOUS
<1>6. Collector => pc = "done" /\ v = stats.succeeded + 1
  OBVIOUS
<1> HIDE DEF c, v, pc
<1>7. x \in NatProbe /\ x.pc = pc /\ x.curScanned = probe[t].curScanned /\ x.curCerts = c
  BY <1>3, <1>4 DEF NatProbe
<1>8. /\ s \in NatCounters /\ s.certs = c /\ s.succeeded = v /\ s.failed = stats.failed
      /\ s.scanned = stats.scanned /\ s.upsertFailures = stats.upsertFailures
      /\ s.samples = stats.samples
  BY <1>3, <1>4 DEF NatCounters
<1> HIDE DEF x, s
<1>9. CASE ~Collector
  <2>1. run.kind = "network"
    BY <1>2, <1>9 DEF Collector, RInv, TypeOK
  <2>2. Settles(t, x, s)
    <3>1. /\ Shift(Unscanned, probe[t].pc, x.pc) = 0 /\ Shift(Unjudged, probe[t].pc, x.pc) = 0
          /\ Shift(Unsaved, probe[t].pc, x.pc) = -1
      BY <1>2, <1>5, <1>7, <1>9 DEF Shift, Unscanned, Unjudged, Unsaved
    <3> QED BY <1>3, <1>4, <1>5, <1>8, <1>9, <3>1 DEF Settles, NatCounters
  <2>3. Stepped(t, x, s)
    BY <1>3, <1>4, <1>7, <1>8, <2>1 DEF Stepped, NatCounters
  <2>4. probe[t].pc \in Working /\ x.pc \in Working
    BY <1>2, <1>5, <1>7, <1>9 DEF Working
  <2> QED BY <1>1, <1>2, <1>8, <2>1, <2>2, <2>3, <2>4, NetworkSumsKept, InnerStep
<1>10. CASE Collector
  <2>1. Takes(t, x, s)
    <3>1. Shift(Untaken, probe[t].pc, x.pc) = -1
      BY <1>2, <1>6, <1>7, <1>10 DEF Shift, Untaken
    <3> QED BY <1>3, <1>4, <1>6, <1>8, <1>10, <3>1 DEF Takes, NatCounters
  <2>2. Stepped(t, x, s)
    <3>1. x.pc = "done" /\ x.pc \notin Working
      BY <1>6, <1>7, <1>10 DEF Working
    <3> QED BY <1>3, <1>4, <1>7, <1>8, <3>1 DEF Stepped, NatCounters
  <2>3. ~Network
    BY <1>10 DEF Collector, Network
  <2> QED BY <1>1, <1>2, <1>8, <1>10, <2>1, <2>2, <2>3, CollectorSumsKept, InnerStep
<1> QED BY <1>9, <1>10

\* IngestPublicPEMs takes an item when it has none in hand.
LEMMA NextItemStep == ASSUME RInv, NEW t \in Targets, NextItem(t) PROVE RInv'
<1>1. /\ Collector /\ ~Network /\ run.kind = "collector" /\ probe[t].pc = "waiting" /\ run.pc = "running"
      /\ \A u \in Targets : probe[u].pc \notin Working
      /\ row.st # "completed" /\ UNCHANGED <<run, row, slots, faults>>
  BY DEF NextItem, Collector, Network, RInv, Behind
<1>2. /\ probe[t] \in NatProbe /\ stats \in NatCounters /\ stats.samples <= MaxSamples
      /\ probe[t].curCerts <= stats.certs /\ probe[t].curScanned <= stats.scanned
  BY Fields DEF RInv, Behind
<1>3. ASSUME NEW pc \in {"upsert", "upsertFailed"}, Goto(t, pc), stats' = stats PROVE RInv'
  <2> DEFINE x == [probe[t] EXCEPT !.pc = pc]
  <2>1. probe' = [probe EXCEPT ![t] = x]
    BY <1>3, GotoOK DEF RInv
  <2>2. x \in NatProbe /\ x.pc = pc /\ x.curScanned = probe[t].curScanned /\ x.curCerts = probe[t].curCerts
    <3>1. pc \in Points
      BY DEF Points, Working
    <3> QED BY <1>2, <3>1, GotoFields
  <2> HIDE DEF x
  <2>3. Takes(t, x, stats)
    <3>1. Shift(Untaken, probe[t].pc, x.pc) = 0
      BY <1>1, <2>2 DEF Shift, Untaken
    <3> QED BY <1>2, <3>1 DEF Takes, NatCounters
  <2>4. Stepped(t, x, stats)
    <3>1. x.pc \in Untaken
      BY <2>2 DEF Untaken
    <3> QED BY <1>1, <1>2, <2>2, <3>1 DEF Stepped, NatCounters
  <2> QED BY <1>1, <1>2, <1>3, <2>1, <2>3, <2>4, CollectorSumsKept, InnerStep
<1>4. ASSUME Goto(t, "done"), stats' = [stats EXCEPT !.failed = @ + 1] PROVE RInv'
  <2> DEFINE x == [probe[t] EXCEPT !.pc = "done"]
             s == [stats EXCEPT !.failed = @ + 1]
  <2>1. probe' = [probe EXCEPT ![t] = x] /\ stats' = s
    BY <1>4, GotoOK DEF RInv
  <2>2. x \in NatProbe /\ x.pc = "done" /\ x.curScanned = probe[t].curScanned /\ x.curCerts = probe[t].curCerts
    BY <1>2, GotoFields DEF Points
  <2>3. /\ s \in NatCounters /\ s.failed = stats.failed + 1 /\ s.succeeded = stats.succeeded
        /\ s.certs = stats.certs /\ s.upsertFailures = stats.upsertFailures
        /\ s.scanned = stats.scanned /\ s.samples = stats.samples
    BY <1>2 DEF NatCounters
  <2> HIDE DEF x, s
  <2>4. Takes(t, x, s)
    <3>1. Shift(Untaken, probe[t].pc, x.pc) = -1
      BY <1>1, <2>2 DEF Shift, Untaken
    <3> QED BY <1>2, <2>3, <3>1 DEF Takes, NatCounters
  <2>5. Stepped(t, x, s)
    <3>1. x.pc \notin Working
      BY <2>2 DEF Working
    <3> QED BY <1>1, <1>2, <2>2, <2>3, <3>1 DEF Stepped, NatCounters
  <2> QED BY <1>1, <2>1, <2>3, <2>4, <2>5, CollectorSumsKept, InnerStep
<1> QED BY <1>3, <1>4 DEF NextItem

\* A goroutine takes a slot, or gives it back.
LEMMA SlotsMoved ==
  ASSUME RInv, Network, NEW t \in Targets, NEW x, probe' = [probe EXCEPT ![t] = x], UNCHANGED run,
         slots' \in Nat, slots' = slots - Shift(Working, probe[t].pc, x.pc)
  PROVE  SlotsConserved' /\ slots' \in 0 .. Concurrency
<1> DEFINE C == Count(probe, Working)
           D == Count(probe', Working)
           k == Shift(Working, probe[t].pc, x.pc)
<1>1. Network' = TRUE /\ Network = TRUE
  BY DEF Network
<1>2. C \in Nat /\ D \in Nat /\ slots \in Nat /\ slots' \in Nat
  <2>1. C \in Nat
    BY CountNat
  <2>2. D \in Nat
    BY CountNat
  <2>3. slots \in Nat
    BY Constants DEF RInv, TypeOK
  <2> QED BY <2>1, <2>2, <2>3
<1>3. D = C + k
  BY Moved DEF RInv
<1>4. k \in Int
  BY ShiftInt
<1>5. slots + C = Concurrency
  <2>1. Cardinality({u \in Targets : Network /\ probe[u].pc \in Working}) = C
    BY <1>1, Slots
  <2> QED BY <2>1 DEF RInv, SlotsConserved
<1>6. slots' = slots - k
  OBVIOUS
<1>7. Cardinality({u \in Targets : Network' /\ probe'[u].pc \in Working}) = D
  BY <1>1, Slots
<1> HIDE DEF C, D, k
<1>8. slots' + D = Concurrency
  <2> DEFINE a == slots
             b == slots'
  <2>1. a \in Nat /\ b \in Nat /\ a + C = Concurrency /\ b = a - k
    BY <1>2, <1>5, <1>6
  <2> HIDE DEF a, b
  <2>2. b + D = Concurrency
    BY <1>2, <1>3, <1>4, <2>1, Constants
  <2> QED BY <2>2 DEF b
<1>9. SlotsConserved'
  BY <1>7, <1>8 DEF SlotsConserved
<1> QED BY <1>2, <1>8, <1>9, Constants

LEMMA AcquireStep == ASSUME RInv, NEW t \in Targets, Acquire(t) PROVE RInv'
<1> DEFINE x == [probe[t] EXCEPT !.pc = "probe"]
<1>1. /\ probe' = [probe EXCEPT ![t] = x] /\ probe[t].pc = "waiting" /\ Network
      /\ run.kind = "network" /\ run.pc = "running" /\ row.st # "completed"
      /\ slots > 0 /\ slots' = slots - 1 /\ UNCHANGED <<run, row, stats, faults>>
  BY GotoOK DEF Acquire, Network, RInv, Behind
<1>2. /\ probe[t] \in NatProbe /\ stats \in NatCounters /\ stats.samples <= MaxSamples
      /\ probe[t].curCerts <= stats.certs /\ probe[t].curScanned <= stats.scanned
  BY Fields DEF RInv, Behind
<1>3. x \in NatProbe /\ x.pc = "probe" /\ x.curScanned = probe[t].curScanned /\ x.curCerts = probe[t].curCerts
  BY <1>2, GotoFields DEF Points, Working
<1> HIDE DEF x
<1>4. /\ Shift(Unscanned, probe[t].pc, x.pc) = 0 /\ Shift(Unjudged, probe[t].pc, x.pc) = 0
      /\ Shift(Unsaved, probe[t].pc, x.pc) = 0 /\ Shift(Working, probe[t].pc, x.pc) = 1
  BY <1>1, <1>3 DEF Shift, Unscanned, Unjudged, Unsaved, Working
<1>5. Sums'
  <2>1. Settles(t, x, stats)
    BY <1>2, <1>4 DEF Settles, NatCounters
  <2> QED BY <1>1, <1>2, <2>1, NetworkSumsKept
<1>6. SlotsConserved' /\ slots' \in 0 .. Concurrency
  <2>1. slots' \in Nat /\ slots' = slots - Shift(Working, probe[t].pc, x.pc)
    BY <1>1, <1>4, Constants DEF RInv, TypeOK
  <2> QED BY <1>1, <2>1, SlotsMoved
<1>7. Stepped(t, x, stats)
  BY <1>1, <1>2, <1>3 DEF Stepped, NatCounters
<1>8. faults' \in 0 .. MaxFaults
  BY <1>1 DEF RInv, TypeOK
<1>9. /\ row' \in Rows
      /\ Shows(row', stats) /\ row'.st # "completed"
  BY <1>1, <1>7, RowBehind DEF Stepped
<1> QED BY <1>1, <1>5, <1>6, <1>7, <1>8, <1>9, ProbeMoves

LEMMA FaultOK == ASSUME TypeOK, Fault \/ NoFault PROVE faults' \in 0 .. MaxFaults
  BY Constants DEF TypeOK, Fault, NoFault

\* The progress update and the end of the goroutine, which gives its slot back.
LEMMA UpdateScanProgressStep == ASSUME RInv, NEW t \in Targets, UpdateScanProgress(t) PROVE RInv'
<1> DEFINE x == [probe[t] EXCEPT !.pc = "done"]
           new == [row EXCEPT !.n = [@ EXCEPT !.scanned = probe[t].curScanned,
                                              !.certs = probe[t].curCerts],
                           !.own = TRUE]
<1>1. /\ probe' = [probe EXCEPT ![t] = x] /\ probe[t].pc = "progress"
      /\ slots' = slots + 1 /\ UNCHANGED <<run, stats>>
      /\ row' = row \/ row' = new
  BY GotoOK DEF UpdateScanProgress, UpdateRow, Freed, RInv
<1>2. Network /\ run.kind = "network" /\ row.st # "completed" /\ run.pc = "running"
  BY <1>1, NetworkOnly DEF Network
<1>3. /\ probe[t] \in NatProbe /\ stats \in NatCounters /\ stats.samples <= MaxSamples
      /\ probe[t].curCerts <= stats.certs /\ probe[t].curScanned <= stats.scanned
  BY Fields DEF RInv, Behind
<1>4. x \in NatProbe /\ x.pc = "done" /\ x.curScanned = probe[t].curScanned /\ x.curCerts = probe[t].curCerts
  BY <1>3, GotoFields DEF Points
<1> HIDE DEF x
<1>5. /\ Shift(Unscanned, probe[t].pc, x.pc) = 0 /\ Shift(Unjudged, probe[t].pc, x.pc) = 0
      /\ Shift(Unsaved, probe[t].pc, x.pc) = 0 /\ Shift(Working, probe[t].pc, x.pc) = -1
  BY <1>1, <1>4 DEF Shift, Unscanned, Unjudged, Unsaved, Working
<1>6. Sums'
  <2>1. Settles(t, x, stats)
    BY <1>3, <1>5 DEF Settles, NatCounters
  <2> QED BY <1>1, <1>2, <1>3, <2>1, NetworkSumsKept
<1>7. SlotsConserved' /\ slots' \in 0 .. Concurrency
  <2>1. slots' \in Nat /\ slots' = slots - Shift(Working, probe[t].pc, x.pc)
    BY <1>1, <1>5, Constants DEF RInv, TypeOK
  <2> QED BY <1>1, <1>2, <2>1, SlotsMoved
<1>8. Stepped(t, x, stats)
  BY <1>2, <1>3, <1>4 DEF Stepped, NatCounters
<1>9. faults' \in 0 .. MaxFaults
  BY FaultOK DEF UpdateScanProgress, RInv
<1>10. /\ row \in Rows
       /\ Shows(row, stats) /\ row.st # "completed"
  BY <1>2, <1>8, RowBehind DEF Stepped
<1>11. /\ new \in Rows
       /\ new.n.scanned = probe[t].curScanned /\ new.n.certs = probe[t].curCerts
       /\ new.st = row.st
  <2> DEFINE n == [row.n EXCEPT !.scanned = probe[t].curScanned, !.certs = probe[t].curCerts]
  <2>1. probe[t].curScanned \in 0 .. N /\ probe[t].curCerts \in 0 .. N
    BY DEF RInv, TypeOK, Probe
  <2>2. n \in Counters /\ n.scanned = probe[t].curScanned /\ n.certs = probe[t].curCerts
    <3>1. row.n \in Counters
      BY <1>10 DEF Rows
    <3> QED BY <2>1, <3>1 DEF Counters
  <2>3. new = [row EXCEPT !.n = n, !.own = TRUE]
    BY <1>10 DEF Rows
  <2> HIDE DEF n, new
  <2> QED BY <1>10, <2>2, <2>3 DEF Rows
<1> HIDE DEF new
<1>12. /\ row' \in Rows
       /\ Shows(row', stats) /\ row'.st # "completed"
  BY <1>1, <1>3, <1>10, <1>11 DEF Shows
<1> QED BY <1>1, <1>2, <1>6, <1>7, <1>8, <1>9, <1>12, ProbeMoves

-----------------------------------------------------------------------------
(* The end of the run.                                                     *)

\* The row while the run goes on.
LEMMA OpenRow ==
  ASSUME RInv, run.pc = "running"
  PROVE  /\ row \in Rows /\ row.st # "completed"
         /\ Shows(row, stats)
  BY DEF RInv, TypeOK, Behind, CountersTruthful, Rows, Shows

LEMMA FailScanStep == ASSUME RInv, NEW t \in Targets, FailScan(t) PROVE RInv'
<1> DEFINE x == [probe[t] EXCEPT !.pc = "done"]
<1>1. /\ run.kind = "collector" /\ run.pc = "running" /\ probe[t].pc = "upsertFailed"
      /\ run' = [run EXCEPT !.pc = "ended"] /\ UNCHANGED <<stats, slots>>
      /\ probe' = [probe EXCEPT ![t] = x]
  BY GotoOK DEF FailScan, Collector, RInv
<1>2. row' = row \/ row' = [row EXCEPT !.st = "failed"]
  BY DEF FailScan, UpdateRow
<1>3. faults' \in 0 .. MaxFaults
  BY FaultOK DEF FailScan, RInv
<1>4. run' \in [kind : {"network", "collector"}, pc : {"running", "ended"}]
      /\ run'.kind = "collector" /\ run'.pc = "ended"
  BY <1>1 DEF RInv, TypeOK
<1>5. probe[t] \in Probe /\ probe \in [Targets -> Probe]
  BY DEF RInv, TypeOK
<1>6. x \in Probe /\ x.pc = "done" /\ x.curScanned = probe[t].curScanned /\ x.curCerts = probe[t].curCerts
  BY <1>5 DEF Probe
<1> HIDE DEF x
<1>7. probe' \in [Targets -> Probe] /\ probe'[t] = x /\ \A u \in Targets \ {t} : probe'[u] = probe[u]
  BY <1>1, <1>5, <1>6
<1>8. row' \in Rows /\ row'.n = row.n /\ row'.own = row.own /\ (row' = row \/ row'.st = "failed")
  <2>1. row \in Rows
    BY <1>1, OpenRow
  <2> QED BY <1>2, <2>1 DEF Rows
<1>9. TypeOK'
  BY <1>1, <1>3, <1>4, <1>7, <1>8 DEF RInv, TypeOK, Rows
<1>10. Sums'
  BY <1>4 DEF Sums, Collector
<1>11. Quiet'
  <2>1. \A u \in Targets \ {t} : probe[u].pc \notin Working
    BY <1>1 DEF RInv, Alone, Working
  <2>2. \A u \in Targets : probe[u].pc \in Working \cup {"waiting", "done"}
    BY <1>5 DEF Probe
  <2> QED BY <1>6, <1>7, <2>1, <2>2 DEF Quiet
<1>12. Alone'
  <2>1. x.pc \notin Working /\ x.pc \in Untaken \cup {"done"}
    BY <1>6 DEF Working
  <2> QED BY <1>1, <1>7, <2>1 DEF RInv, Alone
<1>13. Behind'
  <2>1. \A u \in Targets : probe[u].curScanned <= stats.scanned /\ probe[u].curCerts <= stats.certs
    BY DEF RInv, Behind
  <2>2. \A u \in Targets : probe'[u].curScanned <= stats.scanned /\ probe'[u].curCerts <= stats.certs
    BY <1>6, <1>7, <2>1
  <2> QED BY <1>1, <1>4, <1>8, <2>2, OpenRow DEF Behind
<1>14. CountersTruthful'
  <2>1. row'.st # "completed" /\ Shows(row', stats')
    BY <1>1, <1>8, OpenRow DEF Shows
  <2> QED BY <2>1 DEF CountersTruthful, Shows
<1>15. SlotsConserved'
  <2>1. ~Network /\ ~Network'
    BY <1>1, <1>4 DEF Network
  <2>2. {u \in Targets : Network /\ probe[u].pc \in Working} =
          {u \in Targets : Network' /\ probe'[u].pc \in Working}
    BY <2>1
  <2> QED BY <1>1, <2>2 DEF RInv, SlotsConserved
<1> QED BY <1>9, <1>10, <1>11, <1>12, <1>13, <1>14, <1>15 DEF RInv

\* What the sums say once every goroutine is done.
LEMMA AllCounted ==
  ASSUME RInv, run.pc = "running", AllDone
  PROVE  /\ stats.succeeded + stats.failed = N
         /\ stats.certs + stats.upsertFailures = stats.succeeded
         /\ run.kind = "network" => stats.scanned = N
<1>1. \A t \in Targets : probe[t].pc = "done"
  BY DEF AllDone
<1>2. ASSUME NEW S, "done" \notin S PROVE Count(probe, S) = 0
  <2>1. {t \in Targets : probe[t].pc \in S} = {}
    BY <1>1, <1>2
  <2> QED BY <2>1, FS_EmptySet DEF Count
<1>3. /\ Count(probe, Unscanned) = 0 /\ Count(probe, Unjudged) = 0 /\ Count(probe, Untaken) = 0
      /\ Count(probe, Unsaved) = 0
  BY <1>2 DEF Unscanned, Unjudged, Unsaved, Untaken
<1>4. /\ stats.scanned \in Nat /\ stats.succeeded \in Nat /\ stats.failed \in Nat
      /\ stats.certs \in Nat /\ stats.upsertFailures \in Nat
  BY Constants DEF RInv, TypeOK, Counters
<1>5. CASE run.kind = "network"
  <2>1. NetworkSums(stats, probe)
    BY <1>5 DEF RInv, Sums
  <2> QED BY <1>3, <1>4, <2>1, Constants DEF NetworkSums
<1>6. CASE run.kind = "collector"
  <2>1. CollectorSums(stats, probe)
    BY <1>6 DEF RInv, Sums, Collector
  <2> QED BY <1>3, <1>4, <1>6, <2>1, Constants DEF CollectorSums
<1> QED BY <1>5, <1>6 DEF RInv, TypeOK

LEMMA CompleteScanStep == ASSUME RInv, CompleteScan PROVE RInv'
<1> DEFINE z == [stats EXCEPT !.scanned = N]
<1>1. /\ run.pc = "running" /\ AllDone /\ run' = [run EXCEPT !.pc = "ended"]
      /\ UNCHANGED <<stats, probe, slots>>
      /\ row' = row \/ row' = [st |-> "completed", n |-> Summary, own |-> TRUE]
  BY DEF CompleteScan, UpdateRow
<1>2. faults' \in 0 .. MaxFaults
  BY FaultOK DEF CompleteScan, RInv
<1>3. run' \in [kind : {"network", "collector"}, pc : {"running", "ended"}]
      /\ run'.kind = run.kind /\ run'.pc = "ended"
  BY <1>1 DEF RInv, TypeOK
<1>4. /\ stats.succeeded + stats.failed = N
      /\ stats.certs + stats.upsertFailures = stats.succeeded
      /\ run.kind = "network" => stats.scanned = N
  BY <1>1, AllCounted
<1>5. stats \in Counters /\ N \in 0 .. N
  BY Constants DEF RInv, TypeOK
<1>6. /\ z \in Counters /\ z.scanned = N /\ z.succeeded = stats.succeeded
      /\ z.failed = stats.failed /\ z.certs = stats.certs /\ z.upsertFailures = stats.upsertFailures
  BY <1>5 DEF Counters
<1>7. Summary = z
  <2>1. CASE Collector
    BY <2>1 DEF Summary
  <2>2. CASE ~Collector
    <3>1. stats.scanned = N
      BY <1>1, <1>4, <2>2 DEF Collector, RInv, TypeOK
    <3>2. stats = z
      BY <1>5, <3>1 DEF Counters
    <3> QED BY <2>2, <3>2 DEF Summary
  <2> QED BY <2>1, <2>2
<1>8. stats' = stats /\ [stats' EXCEPT !.scanned = N] = z
  BY <1>1
<1> HIDE DEF z
<1>9. row \in Rows /\ row.st # "completed" /\ Shows(row, stats)
  BY <1>1, OpenRow
<1>10. row' = row \/ row' = [st |-> "completed", n |-> z, own |-> TRUE]
  BY <1>1, <1>7
<1>11. row' \in Rows
  <2>1. [st |-> "completed", n |-> z, own |-> TRUE] \in Rows
    BY <1>6 DEF Rows
  <2> QED BY <1>9, <1>10, <2>1
<1>12. TypeOK'
  BY <1>1, <1>2, <1>3, <1>11 DEF RInv, TypeOK, Rows
<1>13. Sums'
  BY <1>1, <1>3 DEF RInv, Sums, Collector, NetworkSums, Count
<1>14. Quiet' /\ Alone'
  BY <1>1, <1>3 DEF RInv, Quiet, Alone, AllDone
<1>15. Behind'
  BY <1>1, <1>3, <1>9, <1>10 DEF RInv, Behind
<1>16. CountersTruthful'
  <2>1. CASE row' = row
    BY <1>8, <1>9, <2>1 DEF CountersTruthful, Shows
  <2>2. CASE row' = [st |-> "completed", n |-> z, own |-> TRUE]
    <3>1. row'.st = "completed" /\ row'.n = z
      BY <2>2
    <3>2. /\ z.succeeded + z.failed = N /\ z.certs + z.upsertFailures = z.succeeded
      BY <1>4, <1>6
    <3> QED BY <1>6, <1>8, <3>1, <3>2 DEF CountersTruthful
  <2> QED BY <1>10, <2>1, <2>2
<1>17. SlotsConserved'
  <2>1. \A u \in Targets : probe[u].pc \notin Working
    BY <1>1 DEF AllDone, Working
  <2>2. {u \in Targets : Network /\ probe[u].pc \in Working} =
          {u \in Targets : Network' /\ probe'[u].pc \in Working}
    BY <1>1, <2>1
  <2> QED BY <1>1, <2>2 DEF RInv, SlotsConserved
<1> QED BY <1>12, <1>13, <1>14, <1>15, <1>16, <1>17 DEF RInv

LEMMA DeleteScanStep == ASSUME RInv, DeleteScan PROVE RInv'
<1>1. UNCHANGED <<run, stats, probe, slots, faults>> /\ row' = [st |-> "gone", n |-> Zero, own |-> TRUE]
  BY DEF DeleteScan
<1>2. Zero \in Counters /\ Zero.scanned = 0 /\ Zero.certs = 0
  BY Constants DEF Zero, Counters
<1>3. stats.scanned \in Nat /\ stats.certs \in Nat
  BY Constants DEF RInv, TypeOK, Counters
<1>4. row'.st = "gone" /\ row'.n = Zero /\ row' \in Rows
  BY <1>1, <1>2 DEF Rows
<1>5. TypeOK'
  BY <1>1, <1>4 DEF RInv, TypeOK, Rows
<1>6. Sums' /\ Quiet' /\ Alone' /\ SlotsConserved'
  BY <1>1 DEF RInv, Sums, NetworkSums, CollectorSums, Collector, Count, Quiet, Alone,
              SlotsConserved, Network
<1>7. Behind' /\ CountersTruthful'
  BY <1>1, <1>2, <1>3, <1>4 DEF RInv, Behind, CountersTruthful
<1> QED BY <1>5, <1>6, <1>7 DEF RInv

LEMMA StutterRInv == ASSUME RInv, UNCHANGED vars PROVE RInv'
<1>1. UNCHANGED <<run, row, stats, probe, slots, faults>>
  BY DEF vars
<1> QED BY <1>1 DEF RInv, TypeOK, Sums, NetworkSums, CollectorSums, Collector, Count, Quiet,
               Alone, Behind, CountersTruthful, SlotsConserved, Network

LEMMA NextRInv == ASSUME RInv, [Next]_vars PROVE RInv'
<1>1. ASSUME NEW t \in Targets, ProbeStep(t) PROVE RInv'
  BY <1>1, AcquireStep, HandshakeStep, RecordProbeFailureStep, RecordProbeSuccessStep,
     UpsertCertificateStep, FoundStep, RecordUpsertFailureStep, ReadCertsFoundStep, EnrichStep,
     UpdateScanProgressStep, NextItemStep, FailScanStep DEF ProbeStep
<1> QED BY <1>1, CompleteScanStep, DeleteScanStep, StutterRInv DEF Next, RunStep

-----------------------------------------------------------------------------
(* Theorems.                                                               *)

\* RInv holds throughout a run, whatever its targets and its slots.
LEMMA InvariantHolds == Spec => []RInv
<1>1. Init => RInv
  BY InitRInv
<1>2. RInv /\ [Next]_vars => RInv'
  BY NextRInv
<1> QED BY <1>1, <1>2, PTL DEF Spec

\* The state keeps its shape: in particular the shared counters never exceed the
\* number of targets, the failure samples never their cap, and the semaphore
\* never its size, however the goroutines interleave.
THEOREM TypeCorrect == Spec => []TypeOK
<1>1. RInv => TypeOK
  BY DEF RInv
<1> QED BY <1>1, InvariantHolds, PTL

\* CompleteScan writes the whole truth for any number of targets and slots, and
\* no progress update sent outside the mutex overtakes it.
THEOREM CountersAlwaysTruthful == Spec => []CountersTruthful
<1>1. RInv => CountersTruthful
  BY DEF RInv
<1> QED BY <1>1, InvariantHolds, PTL

\* The deferred release gives every slot back, on whatever path a goroutine ends.
THEOREM SlotsAlwaysConserved == Spec => []SlotsConserved
<1>1. RInv => SlotsConserved
  BY DEF RInv
<1> QED BY <1>1, InvariantHolds, PTL

=============================================================================
