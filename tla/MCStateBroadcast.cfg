SPECIFICATION StateSpec
CONSTANTS
  Futures = {f1, f2}
  Wakers = {w1, w2}
  NoWaker = NoWaker
  Values = {v1, v2}
  NoValue = NoValue
  MaxId = 3
  MaxHandles = 2
INVARIANTS
  IdsOrderStates
  ReceivedIsNewer
  WaitingMeansUpToDate
PROPERTIES
  AbandonedResolves
CHECK_DEADLOCK FALSE
