SPECIFICATION BroadcastSpec
CONSTANTS
  Futures = {f1, f2, f3}
  Wakers = {w1, w2}
  NoWaker = NoWaker
  Values = {v1, v2}
  NoValue = NoValue
  MaxReceivers = 2
INVARIANT
  EverybodyAgrees
PROPERTIES
  FulfilledResolves
CHECK_DEADLOCK FALSE
