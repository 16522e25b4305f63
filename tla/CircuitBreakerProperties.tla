---------------------- MODULE CircuitBreakerProperties ----------------------
(***************************************************************************)
(* What a channel's circuit breaker promises to the handlers that share it *)
(* and to the provider it protects.                                        *)
(***************************************************************************)
EXTENDS CircuitBreaker

\* INV: a half-open breaker lets at most HalfOpenMaxCalls calls of its
\* generation reach the provider at a time (circuit_breaker.go:24-26),
\* whatever calls of the closed breaker are still running.
ProbesBounded ==
  state = "halfOpen" =>
    Cardinality({c \in Caller : call[c].running /\ call[c].current})
      <= HalfOpenMaxCalls

\* ACTION: a closed breaker opens only after FailureThreshold consecutive
\* errors of calls that it admitted itself (circuit_breaker.go:60-62), the
\* one of this step included.
OpensOnlyAfterThreshold ==
  [][state = "closed" /\ state' = "open" =>
       /\ Len(tail) >= FailureThreshold - 1
       /\ \A i \in 0..(FailureThreshold - 2) : tail[Len(tail) - i] = "error"]_vars

\* ACTION: a half-open breaker closes only after HalfOpenMaxCalls probes have
\* succeeded and none has failed.
ClosesOnlyAfterProbes ==
  [][state = "halfOpen" /\ state' = "closed" =>
       tail = [i \in 1..(HalfOpenMaxCalls - 1) |-> "ok"]]_vars

\* LIVE: once the provider stays healthy and no context is cancelled, a
\* breaker whose handlers send whenever it lets them closes for good: no
\* cancelled or late probe keeps a slot of the half-open state for ever.
RecoversUnderTraffic ==
  /\ <>[](healthy /\ \A c \in Caller : call[c].ctx = "live")
  /\ \A c \in Caller : WF_vars(Admit(c))
  => <>[](state = "closed")

-----------------------------------------------------------------------------
(* What a comment says, and the code does not do                           *)

\* circuit_breaker.go:91-92 says that "context errors must not trip the
\* breaker": without a failure of the provider it stays closed.
ContextErrorsDoNotTrip == ~ailing => state = "closed"
=============================================================================
