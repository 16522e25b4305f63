\* A shutdown of healthy handlers, which may be running when it comes.
SPECIFICATION Spec
CONSTANTS
  NoDelivery = NoDelivery
  Message = {m1, m2}
  Poison = {}
  Concurrency = 1
  PrefetchCount = 2
  FaultKinds = {}
  MaxFaults = 0
SYMMETRY MCSymmetry
INVARIANTS
  ShutdownDropsNothing
CHECK_DEADLOCK FALSE
