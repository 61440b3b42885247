SPECIFICATION BroadcastSpec
CONSTANTS
  Futures = {f1, f2}
  Wakers = {w1, w2}
  NoWaker = NoWaker
  Values = {v1}
  NoValue = NoValue
  MaxReceivers = 2
INVARIANT ClosedWhenAbandoned
CHECK_DEADLOCK FALSE
