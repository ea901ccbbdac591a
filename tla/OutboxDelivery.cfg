SPECIFICATION FairSpec
CONSTANTS
  NumEvents = 2
  Dispatchers = {d1, d2}
  Sinks = {"eda", "itsm"}
  NULL = NULL
  LeaseTTL = 1
  BatchSize = 2
  MaxAttempts = 2
  MaxFaults = 2
INVARIANTS TypeOK LeaseExclusion RedeliveryBounded
PROPERTIES KeepsPromise EveryEventSettles
