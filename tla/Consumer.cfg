\* Three messages, two slots and a prefetch of two, so that the queue holds more
\* than a drain may take; one is poison; any two faults; no symmetry (liveness is checked).
SPECIFICATION FairSpec
CONSTANTS
  NoDelivery = NoDelivery
  Message = {m1, m2, m3}
  Poison = {m3}
  Concurrency = 2
  PrefetchCount = 2
  FaultKinds = {"handler", "cancel", "channel"}
  MaxFaults = 2
INVARIANTS
  TypeOK
  EachMessageInOnePlace
  HandlersBounded
  DrainedNotDropped
PROPERTIES
  ShutdownTerminates
  QueueIsServed
CHECK_DEADLOCK FALSE
