SPECIFICATION Spec
CONSTANTS
  o1 = o1
  Orders = {o1}
  Lots = 2
  ChanSize = 1
  PollAttempts = 3
  Nil = Nil
INVARIANT EachLotBookedOnce
CHECK_DEADLOCK FALSE
