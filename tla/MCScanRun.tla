------------------------------ MODULE MCScanRun ------------------------------
(* Bounded instances of ScanRun for TLC. *)
EXTENDS ScanRun, TLC
=============================================================================
