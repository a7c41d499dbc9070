SPECIFICATION Spec
CONSTANTS
  Calls = {c1, c2, c3}
  MaxThreads = 2
INVARIANTS
  IInv
  NoAuditDiscarded
  NothingOutlivesUnload
PROPERTIES
  EveryCallReturns
  UnloadEnds
