\* A batch of two and a single row; one client of each kind; 4-bit integers.
SPECIFICATION Spec
CONSTANTS
  NoParam = NoParam
  NoBatch = NoBatch
  NoId = NoId
  sms = sms
  email = email
  b1 = b1
  Notification <- MCNotification
  Channel = {sms, email}
  ChannelOf <- MCChannelOf
  Batch = {b1}
  BatchOf <- MCBatchOf
  Stamp = {1, 2}
  Reader = {r1}
  Query <- MCQuery
  Client = {c1}
  DefaultLimit = 1
  MaxLimit = 4
  MaxInt = 7
INVARIANTS
  TypeOK
  WalkSeesEveryRow
  SummaryIsTrue
  CancelAnswersAreTrue
