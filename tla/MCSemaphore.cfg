SPECIFICATION Spec
CONSTANTS
  Futures = {f1, f2, f3}
  Wakers = {w1, w2}
  NoWaker = NoWaker
  Workloads <- MCWorkloads
  MaxPermits = 2
INVARIANTS
  PermitsConserved
  NeverPanics
  UniformDemandServed
PROPERTIES
  NoOvertaking
  OnlyCancellationStalls
  EveryWaiterServed
