\* The whole schedule of three retry levels and an unparseable body; one fault.
SPECIFICATION Spec
CONSTANTS
  NoMessage = NoMessage
  Notification = {n1}
  Poison = {p1}
  Handler = {h1, h2}
  Admin = {r1}
  MaxAttempts = 3
  FaultKinds = {"db", "publish", "ctx", "answer", "crash", "apiCrash"}
  MaxFaults = 1
  MaxReplays = 0
SYMMETRY MCSymmetry
INVARIANTS
  AuditTrailComplete
  DeliveredWasAccepted
  FailedIsDeadLettered
  FirstAttemptSentOnce
  CrashLosesFirstAttemptOnly
PROPERTIES
  DeadLetteredAfterFullSchedule
CHECK_DEADLOCK FALSE
