---------------------------- MODULE MCEventOutbox ----------------------------
(* Bounded instances of EventOutbox for TLC. *)
EXTENDS EventOutbox, TLC

DispatcherSymmetry == Permutations(Dispatchers)
=============================================================================
