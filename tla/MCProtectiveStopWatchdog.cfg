SPECIFICATION Spec
CONSTANTS
  d1 = d1
  Dispatchers = {d1}
  Sizes <- Sizes1
  MaxLots = 1
  MaxStops = 7
  Scenarios <- Undisturbed
  Nil = Nil
INVARIANT WatchdogClosesRisk
CHECK_DEADLOCK FALSE
