SPECIFICATION Spec
CONSTANTS
  d1 = d1
  Dispatchers = {d1}
  Sizes <- Sizes1
  MaxLots = 1
  MaxStops = 7
  Scenarios <- MCScenarios
  Nil = Nil
INVARIANTS
  TypeOK
  CancelledByOne
  DuplicatesBounded
PROPERTIES
  PositionGetsProtected
  LedgerConverges
CHECK_DEADLOCK FALSE
