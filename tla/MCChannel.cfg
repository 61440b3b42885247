SPECIFICATION SafetySpec
CONSTANTS
  Senders = {s1, s2}
  Receivers = {r1, r2, r3}
  Values = {v1, v2}
  NoValue = NoValue
  Wakers = {w1, w2}
  NoWaker = NoWaker
  Capacities <- MCCapacities
INVARIANTS
  ValuesAnnounced
  DequeuedIsWoken
PROPERTIES
  IsFifo
SYMMETRY MCSymmetry
