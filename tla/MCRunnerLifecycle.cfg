CONSTANTS
  Ids = {i1}
  Variants = {a, b}
  a = a
  AtBoot <- AllA
  Admins = {h1}
  Instruments = 2
  MaxStarts = 3
  MaxRequests = 2
  MaxFailures = 1
SPECIFICATION Spec
INVARIANTS TypeOK OneRuntime RunsCurrentConfig
PROPERTIES DeadEntryGoes ShutdownQuiets
CHECK_DEADLOCK FALSE
