\* Two channels, three priorities and levels; two notifications and a poison
\* message; one replay; one failed call.
SPECIFICATION FairSpec
CONSTANTS
  NoPriority = NoPriority
  NoLimit = NoLimit
  NoCopy = NoCopy
  Worker = Worker
  n1 = n1
  n2 = n2
  p1 = p1
  Channel = {"email", "sms"}
  Priority = {"high", "normal", "low"}
  Message = {n1, n2, p1}
  Poison = {p1}
  ChannelOf <- MCChannelOf
  PriorityOf <- MCPriorityOf
  MaxAttempts = 3
  Admin = {r1}
  DefaultReplayLimit = 2
  MaxReplayLimit = 3
  Limit = {NoLimit, 0, 4}
  MaxFaults = 1
INVARIANTS
  TypeOK
  EveryCopyIsAtHome
  EveryMessageHasOneCopy
  WaitsForEveryLevel
  ReplayAnswerIsTrue
PROPERTIES
  ReplayEnds
CHECK_DEADLOCK FALSE
