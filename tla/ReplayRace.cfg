\* A replay overtakes the deletion of the dedup record.
SPECIFICATION Spec
CONSTANTS
  NoMessage = NoMessage
  Notification = {n1}
  Poison = {}
  Handler = {h1, h2}
  Admin = {r1}
  MaxAttempts = 1
  FaultKinds = {}
  MaxFaults = 0
  MaxReplays = 1
SYMMETRY MCSymmetry
INVARIANTS
  ReplayReprocesses
CHECK_DEADLOCK FALSE
