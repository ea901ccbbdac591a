SPECIFICATION Spec
CONSTANTS
  RenewKeys = {r1}
  MigrateKeys = {}
  Workers = {w1}
  NULL = NULL
  LeaseTTL = 1
  VerifyTimeout = 2
  Backoff <- MCBackoff
  Routes = {"renew"}
  Offsets = {1}
  MaxAge = 1
  MaxLaunch = 2
  MaxFaults = 0
INVARIANT NoSecondLaunch
SYMMETRY WorkerSymmetry
