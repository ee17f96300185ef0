CONSTANTS
  Ids = {i1}
  Variants = {a}
  a = a
  AtBoot <- AllA
  Admins = {h1}
  Instruments = 1
  MaxStarts = 2
  MaxRequests = 3
  MaxFailures = 0
SPECIFICATION Spec
INVARIANTS RunningIsReported
CHECK_DEADLOCK FALSE
