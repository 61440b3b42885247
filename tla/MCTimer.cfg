SPECIFICATION Spec
CONSTANTS
  Futures = {f1, f2}
  Wakers = {w1, w2}
  NoWaker = NoWaker
  MaxTime = 3
  NanosPerMilli = 2
  Delays <- MCDelays
INVARIANTS
  NeverEarly
  HeapHoldsWaiters
  SleepIsSafe
PROPERTIES
  TimersResolve
