SPECIFICATION Spec
CONSTANTS
  i1 = i1
  i2 = i2
  Subscribers = {i1, i2}
  ChanSize = 1
  SrcSize = 1
  MaxCandles = 1
  Nil = Nil
INVARIANT CancelledWithLast
CHECK_DEADLOCK FALSE
