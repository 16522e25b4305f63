-------------------------- MODULE MCCircuitBreaker --------------------------
(* Instances of the circuit breaker for TLC.                               *)
EXTENDS CircuitBreakerProperties, TLC

\* Callers are interchangeable.
MCSymmetry == Permutations(Caller)
=============================================================================
