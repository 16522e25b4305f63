\* Reservations of concurrent requests on one bucket, in one instant.
SPECIFICATION Spec
CONSTANTS
  NoKey = NoKey
  NoId = NoId
  NoReservation = NoReservation
  k1 = k1
  k2 = k2
  k3 = k3
  k4 = k4
  batch = batch
  big = big
  key = key
  sms = sms
  email = email
  Request = {k1, k2, k3, k4, batch, big}
  Batch = {batch, big}
  Channel = {sms}
  Items <- MCOneChannel
  Invalid = {}
  KeyOf <- MCNoKeys
  Burst = 3
  FaultKinds = {}
  MaxFaults = 0
  MaxTicks = 0
SYMMETRY MCSingles
INVARIANTS
  RateIsKept
CHECK_DEADLOCK FALSE
