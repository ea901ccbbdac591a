SPECIFICATION FairSpec
CONSTANTS
  Certs = {c1}
  Procs = {p1, p2}
  Shapes <- MCShapes
  Waivable <- MCWaivable
  Patches <- MCPatches
  Hours <- MCHours
  ExpiringSoonDays = 30
  NULL = NULL
  MaxWaivers = 1
  MaxOps = 2
INVARIANTS TypeOK RiskIsMax FindingsMatch ExpiryReportedOnce
PROPERTY RecomputesEnd
