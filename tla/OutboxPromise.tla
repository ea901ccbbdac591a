---------------------------- MODULE OutboxPromise ----------------------------
(***************************************************************************)
(* What the event outbox promises to whoever appends an event: the event   *)
(* stays pending until every configured sink has received it and it is     *)
(* recorded as delivered, for good, or until it is dead-lettered.          *)
(* Receiving an event again changes nothing here: delivery is at least     *)
(* once.                                                                   *)
(***************************************************************************)
CONSTANTS Events, Sinks

VARIABLES
  state,  \* of each event
  got     \* the sinks that have received it

pvars == <<state, got>>

PInit == /\ state = [e \in Events |-> "absent"]
         /\ got = [e \in Events |-> {}]

Publish(e) == /\ state[e] = "absent"
              /\ state' = [state EXCEPT ![e] = "pending"]
              /\ UNCHANGED got

\* A post may still arrive after the event was given up.
Receive(e, s) == /\ state[e] # "absent"
                 /\ got' = [got EXCEPT ![e] = @ \cup {s}]
                 /\ UNCHANGED state

\* A late success overrides a dead letter.
Deliver(e) == /\ state[e] \in {"pending", "dead"}
              /\ got[e] = Sinks
              /\ state' = [state EXCEPT ![e] = "delivered"]
              /\ UNCHANGED got

DeadLetter(e) == /\ state[e] = "pending"
                 /\ state' = [state EXCEPT ![e] = "dead"]
                 /\ UNCHANGED got

PNext == \E e \in Events : \/ Publish(e) \/ Deliver(e) \/ DeadLetter(e)
                           \/ \E s \in Sinks : Receive(e, s)

PSpec == PInit /\ [][PNext]_pvars
=============================================================================
