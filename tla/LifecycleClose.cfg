SPECIFICATION FairSpec
CONSTANTS
  RenewKeys = {r1}
  MigrateKeys = {m1}
  Workers = {w1}
  NULL = NULL
  LeaseTTL = 1
  VerifyTimeout = 2
  Backoff <- MCBackoff
  Routes = {"renew", "renew-expiring", "migrate", "migrate-eligible", "claim", "delete"}
  Offsets = {1}
  MaxAge = 1
  MaxLaunch = 1
  MaxFaults = 1
INVARIANT ProbeScheduled
PROPERTY EveryJobCloses
CONSTRAINT OneRow
