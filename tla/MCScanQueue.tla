----------------------------- MODULE MCScanQueue -----------------------------
(* Bounded instances of ScanQueue for TLC. *)
EXTENDS ScanQueue, TLC

WorkerSymmetry == Permutations(Workers)

\* The last scan is posted only to try the cap beside the other two: while it
\* is counted, inserted or deleted no worker holds anything and nothing has
\* failed.  All behaviours of the other scans alone keep to this.
Last == NumScans
LastFillsQueue ==
  \/ scans[Last].st = "absent" /\ Last \notin posts
  \/ /\ scans[Last].st \in {"absent", "pending", "gone"} /\ collect[Last] = "none"
     /\ faults = 0 /\ \A s \in Scans, w \in Workers : ~Holds(w, s)
=============================================================================
