SPECIFICATION Spec
CONSTANTS
  Timeout = 3
  PoolMaxSize = 2
  MaxTrips = 3
  MaxParks = 1
INVARIANTS
  AnsweredWithin
  SessionBackWithin
