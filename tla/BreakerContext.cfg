\* Cancelled contexts, healthy provider.
SPECIFICATION Spec
CONSTANTS
  Caller = {c1, c2, c3}
  FailureThreshold = 2
  HalfOpenMaxCalls = 1
SYMMETRY MCSymmetry
INVARIANTS
  ContextErrorsDoNotTrip
