SPECIFICATION Spec
CONSTANTS
  MaxHigh = 3
  MaxFaults = 3
INVARIANTS
  IInv
  OneStatement
PROPERTIES
  EventsAreNews
  CatchesUp
  EndsWhenCancelled
