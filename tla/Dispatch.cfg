SPECIFICATION Spec
CONSTANTS
  ArgNames = {a, b}
  ExactMax = 4
  I64Max = 7
  U64Max = 15
  ColumnNames = {1, 2}
  MaxRows = 2
INVARIANTS
  IInv
  ObserversAgree
  CommittedErrorExplained
  FiltersStay
  BindsAreParams
  SchemaNamesInputs
  OnlyNullIsNull
