SPECIFICATION Spec
CONSTANTS
  Order <- MCOrder
  Secrets = {"token"}
  Values = {"v1", "std"}
  Patches <- MCPatches
  Default = "std"
  Keys = {k1, k2}
  Reqs = {q1, q2}
  NULL = NULL
  MaxOps = 3
SYMMETRY Symmetric
INVARIANTS TypeOK LastWriteKept SetFlagTruthful
