SPECIFICATION Spec
CONSTANTS
  RenewKeys = {}
  MigrateKeys = {m1}
  Workers = {w1}
  NULL = NULL
  LeaseTTL = 1
  VerifyTimeout = 2
  Backoff <- MCBackoff
  Routes = {"migrate"}
  Offsets = {1}
  MaxAge = 1
  MaxLaunch = 1
  MaxFaults = 1
INVARIANT OutcomeKeepsEvent
SYMMETRY WorkerSymmetry
