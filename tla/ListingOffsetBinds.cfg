SPECIFICATION Spec
CONSTANTS
  Modes = {"offset"}
  PageSize = 2
  Keys = {1,2,3}
  FirstTable = {1,2,3}
  NoUri = {}
  Statements = {"offset_first"}
  Grain = 1
  MaxChanges = 1
  MaxFailures = 1
INVARIANTS
  OffsetListsAll
