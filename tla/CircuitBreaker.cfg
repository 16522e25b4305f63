\* Three callers, three failures open, two probes close; no symmetry.
SPECIFICATION FairSpec
CONSTANTS
  Caller = {c1, c2, c3}
  FailureThreshold = 3
  HalfOpenMaxCalls = 2
INVARIANTS
  TypeOK
  ProbesBounded
PROPERTIES
  OpensOnlyAfterThreshold
  ClosesOnlyAfterProbes
  RecoversUnderTraffic
