SPECIFICATION Spec
CONSTANTS
  Futures = {f1, f2, f3, f4}
  Wakers = {w1, w2}
  NoWaker = NoWaker
INVARIANTS
  MutualExclusion
  QueueHoldsWaiters
  UnlockNotLost
  NotifiedIsWoken
PROPERTIES
  NoOvertaking
  EveryWaiterServed
  FreeMutexIsTaken
