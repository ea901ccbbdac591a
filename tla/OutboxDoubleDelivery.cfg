SPECIFICATION Spec
CONSTANTS
  NumEvents = 2
  Dispatchers = {d1, d2}
  Sinks = {"eda"}
  NULL = NULL
  LeaseTTL = 1
  BatchSize = 2
  MaxAttempts = 2
  MaxFaults = 0
INVARIANT NoDoubleDelivery
