SPECIFICATION Spec
CONSTANTS
  Certs = {c1}
  Mounts = {m1, m2}
  Writers = {u1, u2}
  NULL = NULL
  MaxRows = 2
  MaxOps = 2
SYMMETRY Symmetric
INVARIANTS TypeOK VerifiedRevocationSticks OkPassIsComplete ImportedIsInVault
CONSTRAINT NamesakeApart
