SPECIFICATION Spec
CONSTANTS
  i1 = i1
  i2 = i2
  Subscribers = {i1, i2}
  ChanSize = 1
  SrcSize = 1
  MaxCandles = 3
  Nil = Nil
INVARIANTS
  TypeOK
  ReceivedInOrder
  OneGroup
  MakerServed
PROPERTIES
  CancelledGroupEnds
  CandleDelivered
CHECK_DEADLOCK FALSE
