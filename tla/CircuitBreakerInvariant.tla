----------------------- MODULE CircuitBreakerInvariant -----------------------
(***************************************************************************)
(* The inductive invariant behind the safety properties of CircuitBreaker: *)
(* the counts of gobreaker are what the results of the present generation  *)
(* (tail) and its running calls say they are.                              *)
(***************************************************************************)
EXTENDS CircuitBreakerProperties

\* The calls that the present generation admitted and still waits for.
Admitted == {c \in Caller : call[c].running /\ call[c].current}

\* The latest n results are errors.
EndsInErrors(n) ==
  n <= Len(tail) /\ \A i \in 0..(n - 1) : tail[Len(tail) - i] = "error"

\* INV: while closed, failures is below the threshold and counts the errors
\* at the end of the results; while half-open, successes is below the number
\* of probes and every result was one.
CountsAreResults ==
  /\ Len(tail) <= TailLength
  /\ state = "closed" => failures < FailureThreshold /\ EndsInErrors(failures)
  /\ state = "halfOpen" => /\ successes < HalfOpenMaxCalls
                           /\ tail = [i \in 1..successes |-> "ok"]

\* INV: every probe that runs or has succeeded was counted when it was let in.
ProbesCounted ==
  state = "halfOpen" => Cardinality(Admitted) + successes <= probes

IInv == TypeOK /\ CountsAreResults /\ ProbesCounted
=============================================================================
