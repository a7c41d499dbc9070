\* One binding registered again and again under two calls of two entry points.
CONSTANTS
  Calls = {c1, c2}
  Backends = {b1}
  Operations = {"query", "list_tables"}
  Surfaces = {"tool", "resource"}
  Pools = {1, 2}
  PoolMaxSize = 1
SPECIFICATION Spec
INVARIANT IInv
INVARIANT StatementExists
INVARIANT PoolServesOneSpec
INVARIANT NoSessionStranded
PROPERTY ReplacedPoolCloses
PROPERTY RegistrationNotStarved
