\* Two replays by two requests; any two faults but a worker crash and a lost answer.
SPECIFICATION Spec
CONSTANTS
  NoMessage = NoMessage
  Notification = {n1}
  Poison = {}
  Handler = {h1, h2}
  Admin = {r1, r2}
  MaxAttempts = 1
  FaultKinds = {"db", "publish", "ctx", "apiCrash"}
  MaxFaults = 2
  MaxReplays = 2
SYMMETRY MCSymmetry
INVARIANTS
  SendOnce
  AcceptedNeverVanishes
PROPERTIES
  DeliveredIsFinal
  ImplementsLifecycle
CHECK_DEADLOCK FALSE
