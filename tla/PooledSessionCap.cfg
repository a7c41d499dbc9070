SPECIFICATION Spec
CONSTANTS
  c1 = c1
  c2 = c2
  s1 = s1
  s2 = s2
  NoSession = NoSession
  Calls = {c1, c2}
  Sessions = {s1, s2}
  PoolMaxSize = 1
  BindingOp = "execute"
  IsCatalog = FALSE
  HasReadQuery = FALSE
SYMMETRY MCSymmetry
INVARIANTS
  SessionCap
