-------------------------- MODULE EventOutbox_proofs --------------------------
(***************************************************************************)
(* Proofs about the event outbox, for any number of events, dispatchers,   *)
(* faults and attempts.                                                    *)
(***************************************************************************)
EXTENDS EventOutbox, TLAPS

\* What a dispatcher holds has been appended; its current event is no longer
\* in its batch.  Events not yet appended have no failed attempts.
HeldPresent ==
  /\ delivered \subseteq present
  /\ \A d \in Dispatchers : /\ disp[d].batch \subseteq present
                            /\ disp[d].ev # NULL => disp[d].ev \in present
                            /\ disp[d].ev \notin disp[d].batch
                            /\ disp[d].pc = "idle" => disp[d].batch = {}
  /\ \A e \in Events \ present : attempts[e] = 0

\* A dispatcher gets to the ITSM post through the EDA post, and to
\* MarkEventDelivered through the posts to every configured sink.
Posted ==
  \A d \in Dispatchers :
    /\ disp[d].pc = "deliver" => \A s \in Sinks : receipts[disp[d].ev][s] > 0
    /\ disp[d].pc = "itsm" /\ "eda" \in Sinks => receipts[disp[d].ev]["eda"] > 0
    /\ disp[d].pc \in {"eda", "itsm"} => disp[d].pc \in Sinks

IInv == TypeOK /\ HeldPresent /\ Posted

\* The assumptions in one fact.
LEMMA Constants ==
  /\ Sinks \subseteq {"eda", "itsm"} /\ Sinks # {}
  /\ NumEvents \in Nat /\ LeaseTTL \in Nat /\ MaxFaults \in Nat
  /\ BatchSize \in Nat \ {0} /\ MaxAttempts \in Nat \ {0}
  /\ Events \subseteq Int /\ NULL \notin Int
  BY SinksAssumption, NumbersAssumption, NullAssumption DEF Events

\* The initial state satisfies the inductive invariant.
LEMMA InitIInv == Init => IInv
  BY Constants, NullAssumption
     DEF Init, IInv, TypeOK, HeldPresent, Posted, Dispatcher, IdleDispatcher

\* No step can break the invariant: one case per action.
LEMMA NextIInv == IInv /\ [Next]_vars => IInv'
<1> SUFFICES ASSUME IInv, [Next]_vars PROVE IInv'
  OBVIOUS
<1> USE Constants DEF IInv, TypeOK, HeldPresent, Posted
<1>1. CASE AppendEvent
  BY <1>1 DEF AppendEvent, history
<1>2. ASSUME NEW d \in Dispatchers, ClaimUndeliveredEvents(d) PROVE IInv'
  <2> DEFINE es == Oldest(Claimable)
  <2>1. es \subseteq present
    BY DEF Oldest, Claimable
  <2> HIDE DEF es
  <2>2. /\ UNCHANGED <<present, delivered, attempts, receipts, faults, lapsed, hurt>>
        /\ lease' = [e \in Events |-> IF e \in es THEN LeaseTTL ELSE lease[e]]
        /\ disp[d].pc = "idle"
        /\ disp' = [disp EXCEPT ![d] = [pc |-> "next", batch |-> es, ev |-> NULL]]
    BY <1>2 DEF ClaimUndeliveredEvents, history, es
  <2>3. /\ disp' \in [Dispatchers -> Dispatcher]
        /\ \A c \in Dispatchers \ {d} : disp'[c] = disp[c]
        /\ disp'[d].pc = "next" /\ disp'[d].batch = es /\ disp'[d].ev = NULL
    BY <2>1, <2>2 DEF Dispatcher
  <2>4. lease' \in [Events -> Int \cup {NULL}]
    BY <2>2
  <2> QED BY <2>1, <2>2, <2>3, <2>4
<1>3. ASSUME NEW d \in Dispatchers, TakeNext(d) PROVE IInv'
  <2>1. UNCHANGED <<present, delivered, attempts, lease, receipts, faults, lapsed, hurt>>
    BY <1>3 DEF TakeNext, table, history
  <2>2. CASE disp[d].batch = {}
    <3>1. /\ disp' \in [Dispatchers -> Dispatcher]
          /\ \A c \in Dispatchers \ {d} : disp'[c] = disp[c]
          /\ disp'[d].pc = "idle" /\ disp'[d].batch = {} /\ disp'[d].ev = NULL
      BY <1>3, <2>2 DEF TakeNext, Dispatcher, IdleDispatcher
    <3> QED BY <2>1, <3>1
  <2>3. CASE disp[d].batch # {}
    <3>1. PICK e \in disp[d].batch :
            disp' = [disp EXCEPT ![d] = [pc |-> FirstPost, batch |-> disp[d].batch \ {e},
                                         ev |-> e]]
      BY <1>3, <2>3 DEF TakeNext
    <3>2. /\ e \in Events /\ e \in present
          /\ FirstPost \in Sinks /\ (FirstPost = "itsm" => "eda" \notin Sinks)
      BY DEF FirstPost, Dispatcher
    <3>3. /\ disp' \in [Dispatchers -> Dispatcher]
          /\ \A c \in Dispatchers \ {d} : disp'[c] = disp[c]
          /\ disp'[d].pc = FirstPost /\ disp'[d].batch = disp[d].batch \ {e}
          /\ disp'[d].ev = e
      BY <3>1, <3>2 DEF Dispatcher
    <3> QED BY <2>1, <3>2, <3>3
  <2> QED BY <2>2, <2>3
<1>4. ASSUME NEW d \in Dispatchers, NEW s \in Sinks, NEW then \in {"itsm", "deliver"},
             Post(d, s, then),
             then = "itsm" => s = "eda" /\ "itsm" \in Sinks,
             then = "deliver" => s = "itsm" \/ "itsm" \notin Sinks
      PROVE IInv'
  <2>1. PICK e \in Events : e = disp[d].ev
    BY <1>4 DEF Post, Dispatcher
  <2>2. UNCHANGED <<present, delivered, attempts, lease, lapsed, hurt>> /\ disp[d].pc = s
    BY <1>4 DEF Post, table
  <2>3. PICK p \in {"fail", then} :
          /\ disp' = [disp EXCEPT ![d].pc = p]
          /\ \/ receipts' = [receipts EXCEPT ![e][s] = @ + 1]
             \/ receipts' = receipts /\ p = "fail"
    BY <1>4, <2>1 DEF Post
  <2>4. /\ receipts' \in [Events -> [Sinks -> Nat]]
        /\ \A f \in Events, t \in Sinks : receipts'[f][t] >= receipts[f][t]
        /\ p # "fail" => receipts'[e][s] > 0
    <3>1. CASE receipts' = receipts /\ p = "fail"
      BY <3>1
    <3>2. CASE receipts' = [receipts EXCEPT ![e][s] = @ + 1]
      BY <3>2
    <3> QED BY <2>3, <3>1, <3>2
  <2>5. faults' \in Nat
    BY <1>4 DEF Post, Fault, NoFault
  <2>6. /\ disp' \in [Dispatchers -> Dispatcher]
        /\ \A c \in Dispatchers \ {d} : disp'[c] = disp[c]
        /\ disp'[d].pc = p /\ disp'[d].batch = disp[d].batch /\ disp'[d].ev = disp[d].ev
    BY <2>3 DEF Dispatcher
  <2>7. TypeOK'
    BY <1>4, <2>1, <2>2, <2>4, <2>5, <2>6
  <2>8. HeldPresent'
    BY <1>4, <2>1, <2>2, <2>6
  <2>9. ASSUME NEW c \in Dispatchers
        PROVE  /\ disp'[c].pc = "deliver" => \A t \in Sinks : receipts'[disp'[c].ev][t] > 0
               /\ disp'[c].pc = "itsm" /\ "eda" \in Sinks => receipts'[disp'[c].ev]["eda"] > 0
               /\ disp'[c].pc \in {"eda", "itsm"} => disp'[c].pc \in Sinks
    <3>1. CASE c # d
      <4>1. disp[c].pc \notin {"idle", "next"} => disp[c].ev \in Events
        BY DEF Dispatcher
      <4>2. disp'[c] = disp[c]
        BY <2>6, <3>1
      <4>3. CASE disp[c].pc \in {"eda", "itsm", "deliver"}
        <5> USE DEF Dispatcher
        <5>1. PICK f \in Events : f = disp[c].ev
          BY <4>1, <4>3
        <5>2. \A t \in Sinks : receipts[f][t] \in Nat /\ receipts'[f][t] \in Nat
          BY <2>4
        <5> QED BY <2>4, <4>2, <5>1, <5>2
      <4> QED BY <4>2, <4>3
    <3>2. CASE c = d
      <4>1. s = "itsm" /\ "eda" \in Sinks => receipts'[e]["eda"] > 0
        BY <2>1, <2>2, <2>4
      <4> QED BY <1>4, <2>1, <2>2, <2>4, <2>6, <3>2, <4>1
    <3> QED BY <3>1, <3>2
  <2> QED BY <2>7, <2>8, <2>9
<1>5. ASSUME NEW d \in Dispatchers, PostEda(d) \/ PostItsm(d) PROVE IInv'
  BY <1>4, <1>5 DEF PostEda, PostItsm, AfterEda
<1>6. ASSUME NEW d \in Dispatchers, MarkEventDelivered(d) \/ MarkEventFailed(d) PROVE IInv'
  <2>1. PICK e \in Events : e = disp[d].ev /\ e \in present
    BY <1>6 DEF MarkEventDelivered, MarkEventFailed, Dispatcher
  <2>2. /\ UNCHANGED <<present, receipts, lapsed>>
        /\ delivered' \in {delivered, delivered \cup {e}}
        /\ attempts' \in {attempts, [attempts EXCEPT ![e] = @ + 1]}
        /\ lease' \in {lease, [lease EXCEPT ![e] = NULL]}
        /\ hurt' \in {hurt, hurt \cup {e}}
        /\ faults' \in {faults, faults + 1}
    BY <1>6, <2>1 DEF MarkEventDelivered, MarkEventFailed, Fault, NoFault
  <2>3. \/ disp' = [disp EXCEPT ![d].pc = "fail"]
        \/ disp' = [disp EXCEPT ![d] = [pc |-> "next", batch |-> @.batch, ev |-> NULL]]
    BY <1>6 DEF MarkEventDelivered, MarkEventFailed, NextEvent
  <2>4. /\ disp' \in [Dispatchers -> Dispatcher]
        /\ \A c \in Dispatchers \ {d} : disp'[c] = disp[c]
        /\ disp'[d].batch = disp[d].batch
        /\ \/ disp'[d].pc = "fail" /\ disp'[d].ev = disp[d].ev
           \/ disp'[d].pc = "next" /\ disp'[d].ev = NULL
    <3>1. CASE disp' = [disp EXCEPT ![d].pc = "fail"]
      BY <3>1 DEF Dispatcher
    <3>2. CASE disp' = [disp EXCEPT ![d] = [pc |-> "next", batch |-> @.batch, ev |-> NULL]]
      BY <3>2 DEF Dispatcher
    <3> QED BY <2>3, <3>1, <3>2
  <2>5. disp'[d].ev \notin disp'[d].batch
    <3>1. disp[d].ev \notin disp[d].batch /\ disp[d].batch \subseteq Events
      OBVIOUS
    <3>2. NULL \notin disp[d].batch
      BY <3>1, Constants
    <3> QED BY <2>4, <3>1, <3>2
  <2>6. TypeOK'
    <3>1. attempts' \in [Events -> Nat] /\ lease' \in [Events -> Int \cup {NULL}]
      BY <2>1, <2>2
    <3>2. delivered' \subseteq Events /\ hurt' \subseteq Events /\ faults' \in Nat
      BY <2>2
    <3>3. \A c \in Dispatchers : disp'[c].ev # NULL <=> disp'[c].pc \notin {"idle", "next"}
      BY <2>1, <2>4
    <3> QED BY <2>2, <2>4, <3>1, <3>2, <3>3
  <2>7. HeldPresent'
    BY <2>1, <2>2, <2>4, <2>5
  <2>8. Posted'
    BY <2>2, <2>4
  <2> QED BY <2>6, <2>7, <2>8
<1>8. ASSUME NEW d \in Dispatchers, Crash(d) PROVE IInv'
  <2>1. /\ disp' \in [Dispatchers -> Dispatcher]
        /\ \A c \in Dispatchers \ {d} : disp'[c] = disp[c]
        /\ disp'[d].pc = "idle" /\ disp'[d].batch = {} /\ disp'[d].ev = NULL
    BY <1>8 DEF Crash, Dispatcher, IdleDispatcher
  <2>2. /\ UNCHANGED <<present, delivered, attempts, lease, receipts, lapsed>>
        /\ faults' \in Nat
    BY <1>8 DEF Crash, Fault, table
  <2>3. hurt' \subseteq Events
    BY <1>8 DEF Crash
  <2> QED BY <2>1, <2>2, <2>3
<1>9. CASE Elapse
  <2>1. \A e \in Events : lease[e] # NULL => lease[e] - 1 \in Int
    OBVIOUS
  <2>2. lease' \in [Events -> Int \cup {NULL}]
    BY <1>9, <2>1 DEF Elapse
  <2>3. lapsed' \subseteq Events
    BY <1>9 DEF Elapse
  <2> QED BY <1>9, <2>2, <2>3 DEF Elapse
<1>10. CASE UNCHANGED vars
  BY <1>10 DEF vars
<1> HIDE DEF IInv
<1> QED
  BY <1>1, <1>2, <1>3, <1>5, <1>6, <1>8, <1>9, <1>10 DEF Next, DispatcherStep

\* Type correctness of the outbox and its dispatchers.
THEOREM TypeCorrect == Spec => []TypeOK
<1>1. IInv => TypeOK
  BY DEF IInv
<1> QED BY InitIInv, NextIInv, <1>1, PTL DEF Spec

-----------------------------------------------------------------------------
(* The outbox implements OutboxPromise.                                    *)

\* Every step of the outbox is a step of the abstract one or leaves it alone.
LEMMA StepRefines == IInv /\ [Next]_vars => [Promise!PNext]_(Promise!pvars)
<1> SUFFICES ASSUME IInv, [Next]_vars PROVE [Promise!PNext]_(Promise!pvars)
  OBVIOUS
<1> DEFINE st == [e \in Events |-> StateOf(e)]
           rcv == [e \in Events |-> {s \in Sinks : receipts[e][s] > 0}]
<1> USE Constants
<1>1. CASE AppendEvent
  <2>1. PICK e \in Events \ present :
          /\ present' = present \cup {e}
          /\ UNCHANGED <<delivered, attempts, receipts>>
    BY <1>1 DEF AppendEvent
  <2>2. StateOf(e) = "absent" /\ StateOf(e)' = "pending"
    BY <2>1 DEF StateOf, IInv, TypeOK, HeldPresent
  <2>3. \A f \in Events : f # e => StateOf(f)' = StateOf(f)
    BY <2>1 DEF StateOf
  <2>4. st' = [st EXCEPT ![e] = "pending"] /\ st[e] = "absent"
    BY <2>1, <2>2, <2>3
  <2>5. rcv' = rcv
    BY <2>1
  <2>6. Promise!Publish(e)
    BY <2>4, <2>5 DEF Promise!Publish
  <2> QED BY <2>1, <2>6 DEF Promise!PNext
<1>2. ASSUME NEW d \in Dispatchers, PostEda(d) \/ PostItsm(d)
      PROVE  [Promise!PNext]_(Promise!pvars)
  <2>1. PICK s \in Sinks, then \in {"itsm", "deliver"} : Post(d, s, then)
    BY <1>2 DEF PostEda, PostItsm, AfterEda
  <2>2. PICK e \in present : e = disp[d].ev /\ e \in Events
    BY <2>1 DEF Post, IInv, TypeOK, HeldPresent, Dispatcher
  <2>3. st' = st /\ st[e] # "absent"
    BY <2>1, <2>2 DEF Post, table, StateOf
  <2>4. CASE receipts' = receipts
    BY <2>3, <2>4 DEF Promise!pvars
  <2>5. CASE receipts' = [receipts EXCEPT ![e][s] = @ + 1]
    <3> USE DEF IInv, TypeOK
    <3>a. \A f \in Events : f # e => receipts'[f] = receipts[f]
      BY <2>2, <2>5
    <3>b. \A t \in Sinks : t # s => receipts'[e][t] = receipts[e][t]
      BY <2>2, <2>5
    <3>c. receipts'[e][s] > 0
      BY <2>2, <2>5
    <3>d. {t \in Sinks : receipts'[e][t] > 0} = {t \in Sinks : receipts[e][t] > 0} \cup {s}
      BY <3>b, <3>c
    <3>1. rcv' = [rcv EXCEPT ![e] = @ \cup {s}]
      BY <2>2, <3>a, <3>d
    <3>2. Promise!Receive(e, s)
      BY <2>3, <3>1 DEF Promise!Receive
    <3> QED BY <2>2, <3>2 DEF Promise!PNext
  <2> QED BY <2>1, <2>2, <2>4, <2>5 DEF Post
<1>3. ASSUME NEW d \in Dispatchers, MarkEventDelivered(d)
      PROVE  [Promise!PNext]_(Promise!pvars)
  <2>1. PICK e \in present : /\ e = disp[d].ev /\ e \in Events
                             /\ \A s \in Sinks : receipts[e][s] > 0
    BY <1>3 DEF MarkEventDelivered, IInv, TypeOK, HeldPresent, Posted, Dispatcher
  <2>2. UNCHANGED <<present, attempts, receipts>> /\ rcv' = rcv
    BY <1>3 DEF MarkEventDelivered
  <2>3. CASE delivered' = delivered
    <3>1. st' = st
      BY <2>2, <2>3 DEF StateOf
    <3> QED BY <2>2, <3>1 DEF Promise!pvars
  <2>4. CASE delivered' = delivered \cup {e} /\ e \notin delivered
    <3>1. \A f \in Events : f # e => StateOf(f)' = StateOf(f)
      BY <2>2, <2>4 DEF StateOf
    <3>2. StateOf(e) \in {"pending", "dead"} /\ StateOf(e)' = "delivered"
      BY <2>1, <2>2, <2>4 DEF StateOf
    <3>3. st' = [st EXCEPT ![e] = "delivered"] /\ st[e] \in {"pending", "dead"}
      BY <2>1, <3>1, <3>2
    <3>4. rcv[e] = Sinks
      BY <2>1
    <3>5. Promise!Deliver(e)
      BY <2>2, <3>3, <3>4 DEF Promise!Deliver
    <3> QED BY <2>1, <3>5 DEF Promise!PNext
  <2> QED BY <1>3, <2>1, <2>3, <2>4 DEF MarkEventDelivered
<1>4. ASSUME NEW d \in Dispatchers, MarkEventFailed(d)
      PROVE  [Promise!PNext]_(Promise!pvars)
  <2>1. PICK e \in present : e = disp[d].ev /\ e \in Events
    BY <1>4 DEF MarkEventFailed, IInv, TypeOK, HeldPresent, Dispatcher
  <2>2. UNCHANGED <<present, delivered, receipts>> /\ rcv' = rcv
    BY <1>4 DEF MarkEventFailed
  <2>3. \/ attempts' = attempts
        \/ attempts' = [attempts EXCEPT ![e] = @ + 1]
    BY <1>4, <2>1 DEF MarkEventFailed
  <2>4. \A f \in Events : f # e => StateOf(f)' = StateOf(f)
    BY <2>2, <2>3 DEF StateOf, IInv, TypeOK
  <2>5. \/ StateOf(e)' = StateOf(e)
        \/ StateOf(e) = "pending" /\ StateOf(e)' = "dead"
    BY <2>1, <2>2, <2>3 DEF StateOf, IInv, TypeOK
  <2>6. CASE StateOf(e)' = StateOf(e)
    <3>1. \A f \in Events : StateOf(f)' = StateOf(f)
      BY <2>4, <2>6
    <3>2. st' = st
      BY <3>1
    <3> QED BY <2>2, <3>2 DEF Promise!pvars
  <2>7. CASE StateOf(e) = "pending" /\ StateOf(e)' = "dead"
    <3>1. st' = [st EXCEPT ![e] = "dead"] /\ st[e] = "pending"
      BY <2>1, <2>4, <2>7
    <3>2. Promise!DeadLetter(e)
      BY <2>2, <3>1 DEF Promise!DeadLetter
    <3> QED BY <2>1, <3>2 DEF Promise!PNext
  <2> QED BY <2>5, <2>6, <2>7
<1>5. ASSUME UNCHANGED <<present, delivered, attempts, receipts>>
      PROVE  UNCHANGED Promise!pvars
  BY <1>5 DEF Promise!pvars, StateOf
<1>6. ASSUME NEW d \in Dispatchers,
             ClaimUndeliveredEvents(d) \/ TakeNext(d) \/ Crash(d)
      PROVE  UNCHANGED Promise!pvars
  BY <1>5, <1>6 DEF ClaimUndeliveredEvents, TakeNext, Crash, table
<1>7. CASE Elapse
  BY <1>5, <1>7 DEF Elapse
<1>8. CASE UNCHANGED vars
  BY <1>5, <1>8 DEF vars
<1> QED
  BY <1>1, <1>2, <1>3, <1>4, <1>6, <1>7, <1>8 DEF Next, DispatcherStep

\* The outbox keeps the promise of at-least-once delivery (RunOnce, deliver,
\* MarkEventDelivered, MarkEventFailed).
THEOREM OutboxKeepsPromise == Spec => KeepsPromise
<1>1. Init => Promise!PInit
  BY Constants DEF Init, Promise!PInit, StateOf
<1> QED BY <1>1, InitIInv, NextIInv, StepRefines, PTL DEF Spec, KeepsPromise, Promise!PSpec

-----------------------------------------------------------------------------
(* Mutual exclusion and the bound on redelivery.                           *)

\* As long as no lease ran out under its holder, whoever holds an event has
\* its lease, alone, and the event was claimable.
LeaseInv ==
  \A e \in Events \ lapsed, d \in Dispatchers :
    Holds(d, e) => /\ lease[e] # NULL /\ lease[e] >= 0
                   /\ \A c \in Dispatchers : Holds(c, e) => c = d
                   /\ e \notin delivered /\ attempts[e] < MaxAttempts

\* Attempts stop at the cap; a delivered event had an attempt left.
CapInv ==
  \A e \in Events \ lapsed : /\ attempts[e] <= MaxAttempts
                             /\ e \in delivered => attempts[e] < MaxAttempts

\* Dispatcher d may have posted e to s since it claimed e.
Sent(d, e, s) == /\ disp[d].ev = e
                 /\ disp[d].pc \in {"deliver", "fail"} \/ (disp[d].pc = "itsm" /\ s = "eda")

\* A sink has received an event once per counted attempt, and once more only
\* if it is delivered or in the hands of a dispatcher that posted it.
CountInv ==
  \A e \in Events \ (lapsed \cup hurt), s \in Sinks :
    /\ receipts[e][s] <= attempts[e] + 1
    /\ e \notin delivered /\ (\A d \in Dispatchers : ~Sent(d, e, s))
         => receipts[e][s] <= attempts[e]

BInv == IInv /\ LeaseInv /\ CapInv /\ CountInv

\* A step after which nobody holds more and nothing was posted keeps the
\* bounds, if it only ran on events whose columns it left alone.
LEMMA Quiet ==
  ASSUME BInv, IInv',
         UNCHANGED <<delivered, attempts, lease, receipts, lapsed>>,
         hurt \subseteq hurt',
         \A d \in Dispatchers, e \in Events : Holds(d, e)' => Holds(d, e),
         \A d \in Dispatchers, e \in Events \ hurt', s \in Sinks :
           Sent(d, e, s) => Sent(d, e, s)'
  PROVE  BInv'
<1>1. LeaseInv'
  BY DEF BInv, LeaseInv
<1>2. CapInv'
  BY DEF BInv, CapInv
<1>3. CountInv'
  BY DEF BInv, CountInv
<1> QED BY <1>1, <1>2, <1>3 DEF BInv

\* The strengthened invariant is inductive.
LEMMA NextBInv == BInv /\ [Next]_vars => BInv'
<1> SUFFICES ASSUME BInv, [Next]_vars PROVE BInv'
  OBVIOUS
<1>0. IInv /\ IInv'
  BY NextIInv DEF BInv
<1> USE <1>0, Constants
<1>1. CASE AppendEvent
  BY <1>1, Quiet DEF AppendEvent, history, Holds, Sent
<1>2. ASSUME NEW d \in Dispatchers, ClaimUndeliveredEvents(d) PROVE BInv'
  <2> DEFINE es == Oldest(Claimable)
  <2>1. es \subseteq Claimable
    BY DEF Oldest
  <2> HIDE DEF es
  <2>2. /\ UNCHANGED <<present, delivered, attempts, receipts, faults, lapsed, hurt>>
        /\ lease' = [e \in Events |-> IF e \in es THEN LeaseTTL ELSE lease[e]]
        /\ disp[d].pc = "idle"
        /\ disp' = [disp EXCEPT ![d] = [pc |-> "next", batch |-> es, ev |-> NULL]]
    BY <1>2 DEF ClaimUndeliveredEvents, history, es
  <2>3. /\ \A c \in Dispatchers \ {d} : disp'[c] = disp[c]
        /\ disp'[d].pc = "next" /\ disp'[d].batch = es /\ disp'[d].ev = NULL
        /\ disp[d].batch = {} /\ disp[d].ev = NULL
    BY <2>2 DEF IInv, TypeOK, HeldPresent
  <2>4. \A e \in Events, c \in Dispatchers :
          Holds(c, e)' <=> (IF c = d THEN e \in es ELSE Holds(c, e))
    BY <2>3 DEF Holds
  <2>5. \A e \in es : /\ e \in Events /\ e \notin delivered /\ attempts[e] < MaxAttempts
                      /\ e \notin lapsed => \A c \in Dispatchers : ~Holds(c, e)
    BY <2>1 DEF Claimable, BInv, LeaseInv, IInv, TypeOK
  <2>6. LeaseInv'
    BY <2>2, <2>4, <2>5 DEF BInv, LeaseInv, IInv, TypeOK
  <2>7. CapInv'
    BY <2>2 DEF BInv, CapInv
  <2>8. \A c \in Dispatchers, e \in Events, s \in Sinks : Sent(c, e, s)' <=> Sent(c, e, s)
    BY <2>3 DEF Sent
  <2>9. CountInv'
    BY <2>2, <2>8 DEF BInv, CountInv
  <2> QED BY <2>6, <2>7, <2>9 DEF BInv
<1>3. ASSUME NEW d \in Dispatchers, TakeNext(d) PROVE BInv'
  <2>1. UNCHANGED <<present, delivered, attempts, lease, receipts, faults, lapsed, hurt>>
    BY <1>3 DEF TakeNext, table, history
  <2>2. disp[d].ev = NULL /\ disp[d].pc = "next"
    BY <1>3 DEF TakeNext, IInv, TypeOK
  <2>3. \A c \in Dispatchers \ {d} : disp'[c] = disp[c]
    BY <1>3 DEF TakeNext, IInv, TypeOK
  <2>4. \A e \in Events : Holds(d, e)' => Holds(d, e)
    BY <1>3, <2>2 DEF TakeNext, IInv, TypeOK, Holds, IdleDispatcher
  <2>5. ASSUME NEW c \in Dispatchers, NEW e \in Events, Holds(c, e)' PROVE Holds(c, e)
    <3>1. CASE c = d
      BY <2>4, <2>5, <3>1
    <3>2. CASE c # d
      BY <2>3, <2>5, <3>2 DEF Holds
    <3> QED BY <3>1, <3>2
  <2>6. \A c \in Dispatchers, e \in Events, s \in Sinks : Sent(c, e, s) => Sent(c, e, s)'
    BY <2>2, <2>3 DEF Sent
  <2> QED BY <2>1, <2>5, <2>6, Quiet
<1>4. ASSUME NEW d \in Dispatchers, PostEda(d) \/ PostItsm(d) PROVE BInv'
  <2>1. PICK s \in Sinks, then \in {"itsm", "deliver"} :
          Post(d, s, then) /\ (s = "itsm" => then = "deliver")
    BY <1>4 DEF PostEda, PostItsm, AfterEda
  <2>2. PICK e \in Events : e = disp[d].ev
    BY <2>1 DEF Post, IInv, TypeOK, Dispatcher
  <2>3. UNCHANGED <<present, delivered, attempts, lease, lapsed, hurt>> /\ disp[d].pc = s
    BY <2>1 DEF Post, table
  <2>4. PICK p \in {"fail", then} :
          /\ disp' = [disp EXCEPT ![d].pc = p]
          /\ \/ receipts' = [receipts EXCEPT ![e][s] = @ + 1]
             \/ receipts' = receipts /\ p = "fail"
    BY <2>1, <2>2 DEF Post
  <2>5. /\ \A c \in Dispatchers \ {d} : disp'[c] = disp[c]
        /\ disp'[d].pc = p /\ disp'[d].batch = disp[d].batch /\ disp'[d].ev = disp[d].ev
    BY <2>4 DEF IInv, TypeOK, Dispatcher
  <2>6. \A c \in Dispatchers, f \in Events : Holds(c, f)' <=> Holds(c, f)
    BY <2>5 DEF Holds
  <2>7. \A c \in Dispatchers, f \in Events, t \in Sinks : Sent(c, f, t) => Sent(c, f, t)'
    BY <2>1, <2>3, <2>5 DEF Sent
  <2>8. Sent(d, e, s)'
    BY <2>1, <2>2, <2>4, <2>5 DEF Sent
  <2>9. LeaseInv'
    BY <2>3, <2>6 DEF BInv, LeaseInv
  <2>10. CapInv'
    BY <2>3 DEF BInv, CapInv
  <2>11. e \notin lapsed \cup hurt => receipts[e][s] <= attempts[e]
    <3>1. Holds(d, e)
      BY <2>2 DEF Holds
    <3>2. e \notin lapsed => e \notin delivered /\ \A c \in Dispatchers : Holds(c, e) => c = d
      BY <3>1 DEF BInv, LeaseInv
    <3>3. ~Sent(d, e, s)
      BY <2>3 DEF Sent
    <3>4. e \notin lapsed => \A c \in Dispatchers : ~Sent(c, e, s)
      BY <3>2, <3>3 DEF Sent, Holds
    <3> QED BY <3>2, <3>4 DEF BInv, CountInv
  <2>12. \A f \in Events, t \in Sinks :
           f # e \/ t # s => receipts'[f][t] = receipts[f][t]
    BY <2>2, <2>4 DEF IInv, TypeOK
  <2>13. receipts'[e][s] <= receipts[e][s] + 1 /\ receipts'[e][s] \in Nat
         /\ receipts[e][s] \in Nat /\ attempts[e] \in Nat
    BY <2>2, <2>4 DEF IInv, TypeOK
  <2>14. ASSUME NEW f \in Events, f \notin (lapsed \cup hurt), NEW t \in Sinks
         PROVE  /\ receipts'[f][t] <= attempts[f] + 1
                /\ f \notin delivered /\ (\A c \in Dispatchers : ~Sent(c, f, t)')
                     => receipts'[f][t] <= attempts[f]
    <3>1. CASE f = e /\ t = s
      <4>1. receipts'[f][t] <= attempts[f] + 1
        BY <2>11, <2>13, <2>14, <3>1
      <4>2. Sent(d, f, t)'
        BY <2>8, <3>1
      <4> QED BY <4>1, <4>2
    <3>2. CASE f # e \/ t # s
      BY <2>7, <2>12, <2>14, <3>2 DEF BInv, CountInv
    <3> QED BY <3>1, <3>2
  <2>15. CountInv'
    BY <2>3, <2>14 DEF CountInv
  <2> QED BY <2>9, <2>10, <2>15 DEF BInv
<1>5. ASSUME NEW d \in Dispatchers, NEW e \in Events, e = disp[d].ev, NextEvent(d)
      PROVE  /\ \A c \in Dispatchers, f \in Events : Holds(c, f)' => Holds(c, f)
             /\ e \notin lapsed => \A c \in Dispatchers : ~Holds(c, e)'
             /\ \A c \in Dispatchers, f \in Events, s \in Sinks :
                  f # e => (Sent(c, f, s)' <=> Sent(c, f, s))
  <2>1. /\ \A c \in Dispatchers \ {d} : disp'[c] = disp[c]
        /\ disp'[d].pc = "next" /\ disp'[d].batch = disp[d].batch /\ disp'[d].ev = NULL
    BY <1>5 DEF NextEvent, IInv, TypeOK
  <2>2. Holds(d, e) /\ e \notin disp[d].batch
    BY <1>5 DEF Holds, IInv, HeldPresent
  <2>3. e \notin lapsed => \A c \in Dispatchers : Holds(c, e) => c = d
    BY <2>2 DEF BInv, LeaseInv
  <2>4. \A c \in Dispatchers, f \in Events : Holds(c, f)' => Holds(c, f)
    BY <2>1 DEF Holds
  <2>5. ~Holds(d, e)'
    BY <2>1, <2>2 DEF Holds
  <2>6. \A c \in Dispatchers, f \in Events, s \in Sinks :
          f # e => (Sent(c, f, s)' <=> Sent(c, f, s))
    BY <1>5, <2>1 DEF Sent
  <2> QED BY <2>3, <2>4, <2>5, <2>6
<1>6. ASSUME NEW d \in Dispatchers, MarkEventDelivered(d) PROVE BInv'
  <2>1. PICK e \in Events : e = disp[d].ev
    BY <1>6 DEF MarkEventDelivered, IInv, TypeOK, Dispatcher
  <2>2. Holds(d, e)
    BY <2>1 DEF Holds
  <2>3. CASE /\ delivered' = delivered \cup {e}
             /\ lease' = [lease EXCEPT ![e] = NULL]
             /\ NextEvent(d)
             /\ UNCHANGED <<attempts, receipts, lapsed, hurt>>
    <3>1. LeaseInv'
      BY <1>5, <2>1, <2>3 DEF BInv, LeaseInv, IInv, TypeOK
    <3>2. CapInv'
      BY <2>2, <2>3 DEF BInv, LeaseInv, CapInv
    <3>3. CountInv'
      BY <1>5, <2>1, <2>3 DEF BInv, CountInv
    <3> QED BY <3>1, <3>2, <3>3 DEF BInv
  <2>4. CASE /\ disp' = [disp EXCEPT ![d].pc = "fail"] /\ disp[d].pc = "deliver"
             /\ UNCHANGED <<delivered, attempts, lease, receipts, lapsed, hurt>>
    <3>1. /\ \A c \in Dispatchers \ {d} : disp'[c] = disp[c]
          /\ disp'[d].pc = "fail" /\ disp'[d].batch = disp[d].batch
          /\ disp'[d].ev = disp[d].ev
      BY <2>4 DEF IInv, TypeOK, Dispatcher
    <3>2. \A c \in Dispatchers, f \in Events : Holds(c, f)' => Holds(c, f)
      BY <3>1 DEF Holds
    <3>3. \A c \in Dispatchers, f \in Events, s \in Sinks : Sent(c, f, s) => Sent(c, f, s)'
      BY <2>4, <3>1 DEF Sent
    <3> QED BY <2>4, <3>2, <3>3, Quiet
  <2> QED BY <1>6, <2>1, <2>3, <2>4 DEF MarkEventDelivered
<1>7. ASSUME NEW d \in Dispatchers, MarkEventFailed(d) PROVE BInv'
  <2>1. PICK e \in Events : e = disp[d].ev
    BY <1>7 DEF MarkEventFailed, IInv, TypeOK, Dispatcher
  <2>2. Holds(d, e) /\ NextEvent(d)
    BY <1>7, <2>1 DEF Holds, MarkEventFailed
  <2>3. CASE /\ attempts' = [attempts EXCEPT ![e] = @ + 1]
             /\ lease' = [lease EXCEPT ![e] = NULL]
             /\ UNCHANGED <<delivered, receipts, lapsed, hurt>>
    <3>1. e \notin lapsed => e \notin delivered /\ attempts[e] < MaxAttempts
      BY <2>2 DEF BInv, LeaseInv
    <3>2. /\ attempts'[e] = attempts[e] + 1 /\ attempts[e] \in Nat
          /\ \A f \in Events : f # e => attempts'[f] = attempts[f] /\ lease'[f] = lease[f]
      BY <2>3 DEF IInv, TypeOK
    <3>3. LeaseInv'
      BY <1>5, <2>1, <2>2, <2>3, <3>2 DEF BInv, LeaseInv
    <3>4. CapInv'
      BY <2>3, <3>1, <3>2 DEF BInv, CapInv
    <3>5. \A s \in Sinks : receipts[e][s] \in Nat
      BY DEF IInv, TypeOK
    <3>6. \A s \in Sinks : e \notin lapsed \cup hurt => receipts[e][s] <= attempts'[e]
      BY <3>2 DEF BInv, CountInv
    <3>7. CountInv'
      <4> SUFFICES ASSUME NEW f \in Events, f \notin (lapsed \cup hurt), NEW s \in Sinks
                   PROVE  /\ receipts[f][s] <= attempts'[f] + 1
                          /\ f \notin delivered /\ (\A c \in Dispatchers : ~Sent(c, f, s)')
                               => receipts[f][s] <= attempts'[f]
        BY <2>3 DEF CountInv
      <4>1. CASE f = e
        <5>1. receipts[e][s] <= attempts'[e]
          BY <3>6, <4>1
        <5>2. receipts[e][s] \in Nat /\ attempts'[e] \in Nat
          BY <3>2, <3>5
        <5>3. receipts[e][s] <= attempts'[e] + 1
          BY <5>1, <5>2
        <5> QED BY <4>1, <5>1, <5>3
      <4>2. CASE f # e
        BY <1>5, <2>1, <2>2, <3>2, <4>2 DEF BInv, CountInv
      <4> QED BY <4>1, <4>2
    <3> QED BY <3>3, <3>4, <3>7 DEF BInv
  <2>4. CASE /\ hurt' = hurt \cup {e}
             /\ UNCHANGED <<delivered, attempts, lease, receipts, lapsed>>
    BY <1>5, <2>1, <2>2, <2>4, Quiet
  <2> QED BY <1>7, <2>1, <2>3, <2>4 DEF MarkEventFailed
<1>8. ASSUME NEW d \in Dispatchers, Crash(d) PROVE BInv'
  <2>1. /\ \A c \in Dispatchers \ {d} : disp'[c] = disp[c]
        /\ disp'[d].batch = {} /\ disp'[d].ev = NULL
    BY <1>8 DEF Crash, IInv, TypeOK, IdleDispatcher
  <2>2. /\ UNCHANGED <<delivered, attempts, lease, receipts, lapsed>>
        /\ hurt' = hurt \cup {e \in Events : Holds(d, e)}
    BY <1>8 DEF Crash, table
  <2>3. \A c \in Dispatchers, f \in Events : Holds(c, f)' => Holds(c, f)
    BY <2>1 DEF Holds
  <2>4. \A c \in Dispatchers, f \in Events \ hurt', s \in Sinks :
          Sent(c, f, s) => Sent(c, f, s)'
    BY <2>1, <2>2 DEF Sent, Holds
  <2> QED BY <2>2, <2>3, <2>4, Quiet
<1>9. CASE Elapse
  <2>1. UNCHANGED <<present, delivered, attempts, disp, receipts, faults, hurt>>
    BY <1>9 DEF Elapse
  <2>2. \A c \in Dispatchers, e \in Events : Holds(c, e)' <=> Holds(c, e)
    BY <2>1 DEF Holds
  <2>3. \A c \in Dispatchers, e \in Events, s \in Sinks : Sent(c, e, s)' <=> Sent(c, e, s)
    BY <2>1 DEF Sent
  <2>4. ASSUME NEW e \in Events, e \notin lapsed', NEW d \in Dispatchers, Holds(d, e)
        PROVE  e \notin lapsed /\ lease'[e] # NULL /\ lease'[e] >= 0
    <3>1. e \notin lapsed /\ lease[e] # 0
      BY <1>9, <2>4 DEF Elapse
    <3>2. lease[e] # NULL /\ lease[e] >= 0 /\ lease[e] \in Int
      BY <2>4, <3>1 DEF BInv, LeaseInv, IInv, TypeOK
    <3>3. lease'[e] = lease[e] - 1
      BY <1>9, <3>2 DEF Elapse
    <3> QED BY <3>1, <3>2, <3>3
  <2>5. LeaseInv'
    BY <2>1, <2>2, <2>4 DEF BInv, LeaseInv
  <2>6. lapsed \subseteq lapsed'
    BY <1>9 DEF Elapse
  <2>7. CapInv'
    BY <2>1, <2>6 DEF BInv, CapInv
  <2>8. CountInv'
    BY <2>1, <2>3, <2>6 DEF BInv, CountInv
  <2> QED BY <2>5, <2>7, <2>8 DEF BInv
<1>10. CASE UNCHANGED vars
  BY <1>10, Quiet DEF vars, Holds, Sent
<1> QED
  BY <1>1, <1>2, <1>3, <1>4, <1>6, <1>7, <1>8, <1>9, <1>10 DEF Next, DispatcherStep

\* The invariant holds throughout.
LEMMA AlwaysBInv == Spec => []BInv
<1>1. Init => BInv
  BY InitIInv, Constants
     DEF Init, BInv, LeaseInv, CapInv, CountInv, Holds, Sent, IdleDispatcher
<1> QED BY <1>1, NextBInv, PTL DEF Spec

\* Leases are enough for mutual exclusion of the dispatchers, as long as none
\* runs out under its holder (ClaimUndeliveredEvents, MarkEvent*).
THEOREM DispatchersExclusive == Spec => []LeaseExclusion
<1>1. BInv => LeaseExclusion
  BY DEF BInv, LeaseInv, LeaseExclusion
<1> QED BY <1>1, AlwaysBInv, PTL

\* The dead-letter cap bounds how often a sink receives an event.
THEOREM CapBoundsRedelivery == Spec => []RedeliveryBounded
<1>1. BInv => RedeliveryBounded
  <2> SUFFICES ASSUME BInv PROVE RedeliveryBounded
    OBVIOUS
  <2>1. ASSUME NEW e \in Events, e \notin (lapsed \cup hurt), NEW s \in Sinks
        PROVE  receipts[e][s] <= MaxAttempts
    <3>1. /\ receipts[e][s] \in Nat /\ attempts[e] \in Nat
          /\ attempts[e] <= MaxAttempts /\ receipts[e][s] <= attempts[e] + 1
      BY <2>1 DEF BInv, IInv, TypeOK, CapInv, CountInv
    <3>2. CASE e \in delivered
      BY <2>1, <3>1, <3>2, Constants DEF BInv, CapInv
    <3>3. CASE \E d \in Dispatchers : Sent(d, e, s)
      BY <2>1, <3>1, <3>3, Constants DEF BInv, LeaseInv, Sent, Holds
    <3>4. CASE e \notin delivered /\ \A d \in Dispatchers : ~Sent(d, e, s)
      BY <2>1, <3>1, <3>4, Constants DEF BInv, CountInv
    <3> QED BY <3>2, <3>3, <3>4
  <2> QED BY <2>1 DEF RedeliveryBounded, BInv, CapInv, CountInv
<1> QED BY <1>1, AlwaysBInv, PTL

=============================================================================
