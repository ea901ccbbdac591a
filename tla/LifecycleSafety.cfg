SPECIFICATION Spec
CONSTANTS
  RenewKeys = {r1}
  MigrateKeys = {m1}
  Workers = {w1, w2}
  NULL = NULL
  LeaseTTL = 1
  VerifyTimeout = 2
  Backoff <- MCBackoff
  Routes = {"renew", "renew-expiring", "migrate", "migrate-eligible", "claim"}
  Offsets = {1}
  MaxAge = 1
  MaxLaunch = 2
  MaxFaults = 0
INVARIANTS TypeOK LeaseExclusion LaunchedOnce VerifiedHasSuccessor ProbeScheduled
PROPERTY OutcomeFinal
SYMMETRY WorkerSymmetry
CONSTRAINT OneRowTwoWorkers
