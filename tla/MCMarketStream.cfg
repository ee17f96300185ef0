SPECIFICATION Spec
CONSTANTS
  c1 = c1
  c2 = c2
  candles = candles
  ticks = ticks
  CandleKeys = {candles}
  TickKeys = {ticks}
  Clients = {c1, c2}
  Leaky = {c2}
  MaxSubscriptions = 2
  MaxAttempts = 1
  Buffer = 1
  MaxStreams = 3
  MaxEvents = 2
  MaxFaults = 2
  None = None
INVARIANTS
  TypeOK
  ReaderKeepsSubscription
  SubscriptionServed
  RefsCountHolders
PROPERTIES
  PublishEnds
  ServedInTheEnd
CHECK_DEADLOCK FALSE
