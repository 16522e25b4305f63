\* Three requests with one key, one invalid, and two batches; one fault.
SPECIFICATION Spec
CONSTANTS
  NoKey = NoKey
  NoId = NoId
  NoReservation = NoReservation
  k1 = k1
  k2 = k2
  k3 = k3
  k4 = k4
  batch = batch
  big = big
  key = key
  sms = sms
  email = email
  Request = {k1, k2, k3, batch, big}
  Batch = {batch, big}
  Channel = {sms, email}
  Items <- MCItems
  Invalid = {k3}
  KeyOf <- MCKeyOf
  Burst = 2
  FaultKinds = {"db", "publish", "crash"}
  MaxFaults = 1
  MaxTicks = 1
SYMMETRY MCSymmetry
INVARIANTS
  SameKeySameNotification
  RejectedLeavesNoTrace
  StoredWithinBudget
  PublishedOnceAfterStored
  AcceptedIsQueued
PROPERTIES
  ImplementsStore
CHECK_DEADLOCK FALSE
