SPECIFICATION FairSpec
CONSTANTS
  Targets = {t1, t2, t3}
  Concurrency = 2
  ProgressEvery = 2
  MaxSamples = 2
  MaxFaults = 1
INVARIANTS TypeOK CountersTruthful SlotsConserved
PROPERTY EveryRunEnds
CHECK_DEADLOCK FALSE
