SPECIFICATION Spec
CONSTANTS
  Certs = {c1}
  Mounts = {m1}
  Writers = {u1}
  NULL = NULL
  MaxRows = 1
  MaxOps = 1
INVARIANT RevokedIsReal
