----------------------------- MODULE EventOutbox -----------------------------
(***************************************************************************)
(* The transactional event outbox (the events table, internal/store) and   *)
(* the replicas of the dispatcher that lease batches of it and post them   *)
(* to the EDA webhook and, optionally, the ITSM sink (internal/eventbus).  *)
(*                                                                         *)
(* One action is one SQL statement or one HTTP post.  Lease times are      *)
(* relative to the present, as in LifecycleJobs: a lease of d runs out     *)
(* when Elapse has happened d + 1 times.                                   *)
(***************************************************************************)
EXTENDS Integers, FiniteSets

CONSTANTS
  NumEvents,    \* events 1 .. NumEvents, in the order of created_at
  Dispatchers,  \* replicas
  Sinks,        \* configured sinks
  NULL,         \* SQL NULL
  LeaseTTL,     \* length of a claim's lease
  BatchSize,    \* events per claim
  MaxAttempts,  \* failed attempts after which an event is dead-lettered
  MaxFaults     \* bound: crashes, failed posts and failed statements

Events == 1 .. NumEvents

ASSUME SinksAssumption == Sinks \subseteq {"eda", "itsm"} /\ Sinks # {}
ASSUME NumbersAssumption ==
  /\ NumEvents \in Nat /\ LeaseTTL \in Nat /\ MaxFaults \in Nat
  /\ BatchSize \in Nat \ {0} /\ MaxAttempts \in Nat \ {0}
ASSUME NullAssumption == NULL \notin Int

VARIABLES
  present,    \* events appended so far
  delivered,  \* events with delivered_at set
  attempts,   \* failed attempts of each event
  lease,      \* lease_expires_at of each event
  disp,       \* local state of each dispatcher
  receipts,   \* how often each sink received each event
  faults,     \* faults so far
  lapsed,     \* history: leases that ran out under their holder
  hurt        \* history: events a crash or a failed statement hit

vars == <<present, delivered, attempts, lease, disp, receipts, faults, lapsed, hurt>>
table == <<present, delivered, attempts, lease>>
history == <<faults, lapsed, hurt>>

\* batch: claimed, not yet handled; ev: the event being handled.
IdleDispatcher == [pc |-> "idle", batch |-> {}, ev |-> NULL]
Dispatcher == [pc : {"idle", "next", "eda", "itsm", "deliver", "fail"},
               batch : SUBSET Events, ev : Events \cup {NULL}]

TypeOK ==
  /\ present \subseteq Events
  /\ delivered \subseteq Events
  /\ attempts \in [Events -> Nat]
  /\ lease \in [Events -> Int \cup {NULL}]
  /\ disp \in [Dispatchers -> Dispatcher]
  /\ \A d \in Dispatchers : disp[d].ev # NULL <=> disp[d].pc \notin {"idle", "next"}
  /\ receipts \in [Events -> [Sinks -> Nat]]
  /\ faults \in Nat
  /\ lapsed \subseteq Events
  /\ hurt \subseteq Events

Init ==
  /\ present = {} /\ delivered = {}
  /\ attempts = [e \in Events |-> 0]
  /\ lease = [e \in Events |-> NULL]
  /\ disp = [d \in Dispatchers |-> IdleDispatcher]
  /\ receipts = [e \in Events |-> [s \in Sinks |-> 0]]
  /\ faults = 0 /\ lapsed = {} /\ hurt = {}

-----------------------------------------------------------------------------

Fault == faults < MaxFaults /\ faults' = faults + 1
NoFault == UNCHANGED faults
Holds(d, e) == e \in disp[d].batch \/ disp[d].ev = e

\* appendEventTx in the transaction of the change, or appendEventStandalone in
\* one of its own after it: the oldest event not yet written is written.  What
\* becomes of the change when the second fails is a matter for LifecycleJobs and
\* CertificateInventory.
AppendEvent ==
  \E e \in Events \ present :
    /\ \A f \in Events \ present : e <= f
    /\ present' = present \cup {e}
    /\ UNCHANGED <<delivered, attempts, lease, disp, receipts>>
    /\ UNCHANGED history

\* Mutants: leases are ignored; a lease that ran out is never taken over.
Claimable_AnyLease == {e \in present \ delivered : attempts[e] < MaxAttempts}
Claimable_NoTakeover ==
  {e \in present \ delivered : attempts[e] < MaxAttempts /\ lease[e] = NULL}

\* ClaimUndeliveredEvents: the BatchSize oldest claimable events.
Claimable == {e \in present \ delivered :
                attempts[e] < MaxAttempts /\ (lease[e] = NULL \/ lease[e] < 0)}
Oldest(E) == {e \in E : Cardinality({f \in E : f <= e}) <= BatchSize}
ClaimUndeliveredEvents(d) ==
  LET es == Oldest(Claimable) IN
  /\ disp[d].pc = "idle"
  /\ es # {}
  /\ lease' = [e \in Events |-> IF e \in es THEN LeaseTTL ELSE lease[e]]
  /\ disp' = [disp EXCEPT ![d] = [pc |-> "next", batch |-> es, ev |-> NULL]]
  /\ UNCHANGED <<present, delivered, attempts, receipts>>
  /\ UNCHANGED history

\* RunOnce: the events of the batch in order, each to the EDA webhook when
\* that is configured, then to the ITSM sink when that is.
FirstPost == IF "eda" \in Sinks THEN "eda" ELSE "itsm"
\* Mutant: an accepted EDA post is enough.
AfterEda_Done == "deliver"
AfterEda  == IF "itsm" \in Sinks THEN "itsm" ELSE "deliver"
TakeNext(d) ==
  /\ disp[d].pc = "next"
  /\ IF disp[d].batch = {} THEN disp' = [disp EXCEPT ![d] = IdleDispatcher]
     ELSE \E e \in disp[d].batch :
            /\ \A f \in disp[d].batch : e <= f
            /\ disp' = [disp EXCEPT ![d] = [pc |-> FirstPost, batch |-> @.batch \ {e},
                                            ev |-> e]]
  /\ UNCHANGED table /\ UNCHANGED receipts /\ UNCHANGED history

\* One post to sink s: accepted; refused; or accepted with the answer lost.
Post(d, s, then) ==
  LET e == disp[d].ev IN
  /\ disp[d].pc = s
  /\ \/ /\ receipts' = [receipts EXCEPT ![e][s] = @ + 1]
        /\ disp' = [disp EXCEPT ![d].pc = then]
        /\ NoFault
     \/ /\ Fault
        /\ \/ UNCHANGED receipts
           \/ receipts' = [receipts EXCEPT ![e][s] = @ + 1]
        /\ disp' = [disp EXCEPT ![d].pc = "fail"]
  /\ UNCHANGED table /\ UNCHANGED <<lapsed, hurt>>
PostEda(d)  == "eda" \in Sinks /\ Post(d, "eda", AfterEda)
PostItsm(d) == "itsm" \in Sinks /\ Post(d, "itsm", "deliver")

\* Done with the current event.
NextEvent(d) ==
  disp' = [disp EXCEPT ![d] = [pc |-> "next", batch |-> @.batch, ev |-> NULL]]

\* Mutants: an unrecorded delivery is retried and not counted; the event
\* stays the current one.
MarkEventDelivered_Uncounted(d) ==
  LET e == disp[d].ev IN
  /\ disp[d].pc = "deliver"
  /\ \/ delivered' = delivered \cup {e} /\ NoFault
     \/ Fault /\ UNCHANGED delivered
  /\ lease' = [lease EXCEPT ![e] = NULL]
  /\ NextEvent(d)
  /\ UNCHANGED <<present, attempts, receipts, lapsed, hurt>>
MarkEventDelivered_Keeps(d) ==
  LET e == disp[d].ev IN
  /\ disp[d].pc = "deliver"
  /\ delivered' = delivered \cup {e}
  /\ lease' = [lease EXCEPT ![e] = NULL]
  /\ disp' = [disp EXCEPT ![d].pc = "next"]
  /\ UNCHANGED <<present, attempts, receipts, faults, lapsed, hurt>>

\* MarkEventDelivered; when the statement fails the attempt counts as failed.
MarkEventDelivered(d) ==
  LET e == disp[d].ev IN
  /\ disp[d].pc = "deliver"
  /\ \/ /\ delivered' = delivered \cup {e}
        /\ lease' = [lease EXCEPT ![e] = NULL]
        /\ NextEvent(d) /\ NoFault
     \/ /\ Fault
        /\ disp' = [disp EXCEPT ![d].pc = "fail"]
        /\ UNCHANGED <<delivered, lease>>
  /\ UNCHANGED <<present, attempts, receipts, lapsed, hurt>>

\* MarkEventFailed; when the statement fails the lease stays and nothing is
\* counted.
MarkEventFailed(d) ==
  LET e == disp[d].ev IN
  /\ disp[d].pc = "fail"
  /\ \/ /\ attempts' = [attempts EXCEPT ![e] = @ + 1]
        /\ lease' = [lease EXCEPT ![e] = NULL]
        /\ NoFault /\ UNCHANGED hurt
     \/ /\ Fault /\ hurt' = hurt \cup {e}
        /\ UNCHANGED <<attempts, lease>>
  /\ NextEvent(d)
  /\ UNCHANGED <<present, delivered, receipts, lapsed>>

\* The process dies or is shut down in mid-batch, or re-reading the claimed
\* rows fails: the batch is dropped, the leases stay.
Crash(d) ==
  /\ disp[d].pc # "idle"
  /\ Fault
  /\ disp' = [disp EXCEPT ![d] = IdleDispatcher]
  /\ hurt' = hurt \cup {e \in Events : Holds(d, e)}
  /\ UNCHANGED table /\ UNCHANGED <<receipts, lapsed>>

Elapse ==
  /\ lease' = [e \in Events |-> IF lease[e] # NULL /\ lease[e] >= 0
                                THEN lease[e] - 1 ELSE lease[e]]
  /\ lapsed' = lapsed \cup {e \in Events : /\ lease[e] = 0
                                           /\ \E d \in Dispatchers : Holds(d, e)}
  /\ UNCHANGED <<present, delivered, attempts, disp, receipts, faults, hurt>>

DispatcherStep(d) ==
  \/ ClaimUndeliveredEvents(d) \/ TakeNext(d) \/ PostEda(d) \/ PostItsm(d)
  \/ MarkEventDelivered(d) \/ MarkEventFailed(d)

Next == \/ AppendEvent
        \/ \E d \in Dispatchers : DispatcherStep(d) \/ Crash(d)
        \/ Elapse

Spec == Init /\ [][Next]_vars

\* Every dispatcher runs on (Run ticks forever), time passes.
Fairness == WF_vars(Elapse) /\ \A d \in Dispatchers : WF_vars(DispatcherStep(d))
FairSpec == Spec /\ Fairness

-----------------------------------------------------------------------------
(* Properties.                                                             *)

\* An event is in the hands of one dispatcher at a time, as long as its lease
\* never ran out under its holder.
LeaseExclusion ==
  \A e \in Events \ lapsed : \A c, d \in Dispatchers :
    Holds(c, e) /\ Holds(d, e) => c = d

\* The dead-letter cap bounds redelivery (RunOnce: "count as a failed attempt
\* so the dead-letter cap still bounds redelivery"): unless the lease ran out
\* under its holder, or a crash or a failed MarkEventFailed hit the event, no
\* sink receives it more than once per counted attempt, and attempts stop at
\* MaxAttempts.
RedeliveryBounded ==
  /\ \A e \in Events \ lapsed : attempts[e] <= MaxAttempts
  /\ \A e \in Events \ (lapsed \cup hurt), s \in Sinks :
       /\ receipts[e][s] <= attempts[e] + 1
       /\ receipts[e][s] <= MaxAttempts

\* Refinement: the outbox with its leases, faults and replicas is the
\* at-least-once outbox of OutboxPromise.
StateOf(e) == IF e \notin present THEN "absent"
              ELSE IF e \in delivered THEN "delivered"
              ELSE IF attempts[e] >= MaxAttempts THEN "dead" ELSE "pending"
Promise == INSTANCE OutboxPromise WITH
  state <- [e \in Events |-> StateOf(e)],
  got <- [e \in Events |-> {s \in Sinks : receipts[e][s] > 0}]

\* Events stay pending until every configured sink has received them and
\* they are marked delivered for good, or until they are dead-lettered.
KeepsPromise == Promise!PSpec

\* Every appended event is delivered or dead-lettered in the end, whatever
\* replica crashed with its lease.
EveryEventSettles ==
  \A e \in Events : e \in present ~> e \in delivered \/ attempts[e] >= MaxAttempts

-----------------------------------------------------------------------------
(* What the repository says of the program and the program does not do.    *)

\* "FOR UPDATE SKIP LOCKED so two EDA dispatchers cannot deliver the same
\* event" (ClaimUndeliveredEvents): as long as nothing fails, every sink
\* receives an event at most once.
NoDoubleDelivery ==
  faults = 0 => \A e \in Events, s \in Sinks : receipts[e][s] <= 1

=============================================================================
