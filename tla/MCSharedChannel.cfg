SPECIFICATION SharedSpec
CONSTANTS
  s1 = s1
  s2 = s2
  r1 = r1
  r2 = r2
  Senders <- MCSenders
  Receivers <- MCReceivers
  Values = {v1}
  NoValue = NoValue
  Wakers <- MCWakers
  WakersOf <- MCWakersOf
  w1 = w1
  w2 = w2
  w3 = w3
  w4 = w4
  NoWaker = NoWaker
  Capacities = {0, 1}
  Programs <- MCPrograms
INVARIANTS
  LastDropIsAlone
  AbandonedIsEmpty
  EndedStreamMissesNothing
CHECK_DEADLOCK FALSE
PROPERTIES
  ValueReachesReceiver
  AbandonedResolves
