SPECIFICATION Spec
CONSTANTS
  c1 = c1
  c2 = c2
  c3 = c3
  s1 = s1
  s2 = s2
  s3 = s3
  NoSession = NoSession
  Calls = {c1, c2, c3}
  Sessions = {s1, s2, s3}
  PoolMaxSize = 2
  BindingOp = "execute"
  IsCatalog = FALSE
  HasReadQuery = FALSE
SYMMETRY MCSymmetry
INVARIANTS
  SessionOwnership
  PoolBound
  SuccessIsDurable
  NotRunHasNoEffect
  ReadsNeverWrite
  OpenWorkIsFailedOrCurrent
  IInv
PROPERTIES
  KeepsContract
