\* Liveness with two handlers, one fault and one replay; no symmetry.
SPECIFICATION FairSpec
CONSTANTS
  NoMessage = NoMessage
  Notification = {n1}
  Poison = {}
  Handler = {h1, h2}
  Admin = {r1}
  MaxAttempts = 1
  FaultKinds = {"db", "publish", "ctx", "crash"}
  MaxFaults = 1
  MaxReplays = 1
PROPERTIES
  AcceptedIsSettled
  CirculationEnds
CHECK_DEADLOCK FALSE
