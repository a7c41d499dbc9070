SPECIFICATION Spec
CONSTANTS
  Modes = {"keyset", "offset"}
  PageSize = 2
  Keys = {1,2,3,4,5,6}
  FirstTable = {1,2,3,5}
  NoUri = {3}
  Statements = {"regular", "null_finds_none", "offset_first", "cursor_unnamed", "uri_unnamed", "cursor_nullable", "cursor_rounded"}
  Grain = 2
  MaxChanges = 3
  MaxFailures = 1
INVARIANTS
  IInv
  ListedOnce
  StableListed
PROPERTIES
  WalkEnds
