CONSTANTS
  MaxActiveOrders = 2
  MaxPositionLots = 1
  Threshold = 1
  MaxLots = 1
  Budgets <- MCBudgets
  None = None
SPECIFICATION Spec
INVARIANTS
  TypeOK
  KilledStaysQuiet
  WorkingOrdersKept
  LoopsAreListed
  LimitKeptButForExtra
PROPERTIES
  ZeroIsAgreed
CHECK_DEADLOCK FALSE
