--------------------------- MODULE MCLifecycleJobs ---------------------------
(* Bounded instances of LifecycleJobs for TLC. *)
EXTENDS LifecycleJobs, TLC

MCBackoff == <<1, 2>>
WorkerSymmetry == Permutations(Workers)

\* The keys something has happened to.  OneRow follows one of them at a time
\* (rows meet only in the batch of a worker); the certificate of a migration
\* is not deleted.
Touched == {k \in Keys : \/ ~Absent(k) \/ inventory[k] # {} \/ k \in proven
                         \/ ~present[k] \/ \E i \in Ids : ctl[i].key = k}
OneRow ==
  /\ Touched \subseteq RenewKeys \/ Touched \subseteq MigrateKeys
  /\ \A k \in MigrateKeys : present[k]

\* For two workers: a renewal with a second launch but no EDA callback, or a
\* migration with callbacks but one launch; a successor that was found stays.
OneRowTwoWorkers ==
  /\ \A k \in proven : inventory[k] # {}
  /\ \/ Touched \subseteq RenewKeys /\ \A i \in Ids : ctl[i].by # "eda"
     \/ Touched \subseteq MigrateKeys /\ \A i \in Ids \ {1} : ctl[i].st = "none"
=============================================================================
