SPECIFICATION EventSpec
CONSTANTS
  Futures = {f1, f2, f3}
  Wakers = {w1, w2}
  NoWaker = NoWaker
INVARIANTS
  WaitingMeansUnset
PROPERTIES
  SignalledResolves
