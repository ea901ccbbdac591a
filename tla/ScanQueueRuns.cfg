SPECIFICATION FairSpec
CONSTANTS
  NumScans = 3
  Workers = {w1, w2}
  Slots = 1
  NULL = NULL
  LeaseTTL = 1
  Second = 1
  MaxPending = 1
  MaxPosts = 2
  MaxFaults = 1
INVARIANTS TypeOK OneRunner HealthyKeepsClaim QueueBounded
PROPERTIES OutcomeFinal EveryScanEnds
CONSTRAINT LastFillsQueue
