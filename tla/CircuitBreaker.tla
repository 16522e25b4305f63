--------------------------- MODULE CircuitBreaker ---------------------------
(***************************************************************************)
(* The circuit breaker of one channel, shared by the handlers that send on *)
(* it: CircuitBreakerRegistry.Send around gobreaker's Execute.             *)
(*                                                                         *)
(* Execute is two critical sections, one before and one after the call to  *)
(* the provider; handlers interleave between them.  gobreaker is external: *)
(* its state machine is the one the Settings of NewCircuitBreakerRegistry  *)
(* select.  Its generation counter is modelled by a flag of each running   *)
(* call, which says whether the generation that admitted it still lasts.   *)
(***************************************************************************)
EXTENDS Naturals, Sequences, FiniteSets

CONSTANTS
  Caller,            \* handlers that send on the channel, again and again
  FailureThreshold,  \* CB_FAILURE_THRESHOLD
  HalfOpenMaxCalls   \* CB_HALF_OPEN_MAX_CALLS

ASSUME BreakerAssumption ==
  /\ FailureThreshold \in Nat \ {0}
  /\ HalfOpenMaxCalls \in Nat \ {0}
  /\ IsFiniteSet(Caller)

VARIABLES
  state,      \* "closed", "open", "halfOpen"
  expired,    \* the Timeout of the open state has passed
  failures,   \* ConsecutiveFailures while closed
  probes,     \* Requests while half-open
  successes,  \* ConsecutiveSuccesses while half-open
  call,       \* each caller's last or running Send
  healthy,    \* the provider answers 2xx
  ailing,     \* the provider has once been unhealthy (history)
  tail        \* the latest results counted in this generation (history)

counts == <<failures, probes, successes>>
vars == <<state, expired, counts, call, healthy, ailing, tail>>

CallRec == [running : BOOLEAN,
            current : BOOLEAN,          \* admitted in the present generation
            ctx : {"live", "cancelled"},
            result : {"none", "ok", "failed", "cancelled", "open"}]
NoCall == [running |-> FALSE, current |-> FALSE, ctx |-> "live",
           result |-> "none"]

\* How many results the history keeps.
TailLength == FailureThreshold + HalfOpenMaxCalls

TypeOK ==
  /\ state \in {"closed", "open", "halfOpen"}
  /\ expired \in BOOLEAN
  /\ failures \in 0..FailureThreshold
  /\ probes \in 0..HalfOpenMaxCalls
  /\ successes \in 0..HalfOpenMaxCalls
  /\ call \in [Caller -> CallRec]
  /\ healthy \in BOOLEAN
  /\ ailing \in BOOLEAN
  /\ tail \in Seq({"ok", "error"})

Init ==
  /\ state = "closed" /\ expired = FALSE
  /\ failures = 0 /\ probes = 0 /\ successes = 0
  /\ call = [c \in Caller |-> NoCall]
  /\ healthy = TRUE /\ ailing = FALSE
  /\ tail = <<>>

-----------------------------------------------------------------------------
(* gobreaker                                                               *)

\* setState and toNewGeneration: the counts are cleared, and the results of
\* calls admitted before are no longer counted.
NewGeneration(s, calls) ==
  /\ state' = s /\ expired' = FALSE
  /\ failures' = 0 /\ probes' = 0 /\ successes' = 0
  /\ call' = [c \in Caller |-> [calls[c] EXCEPT !.current = FALSE]]
  /\ tail' = <<>>

\* currentState: an open breaker whose timeout has passed is half-open.
TurnsHalfOpen == state = "open" /\ expired

\* Wrong variant: an error of a cancelled context is counted neither way.
CountsUnlessCancelled(c) == call[c].current /\ call[c].ctx = "live"

\* afterRequest ignores the result of a call of an earlier generation.
Counts(c) == call[c].current

Latest(r) ==
  LET t == Append(tail, r) IN IF Len(t) > TailLength THEN Tail(t) ELSE t

\* Wrong variant: one failure fewer opens the breaker.
ReadyToTripEarly(n) == n + 1 >= FailureThreshold

\* The Settings' ReadyToTrip.
ReadyToTrip(n) == n >= FailureThreshold

\* Wrong variant: the first probe that succeeds closes the breaker.
FirstProbePasses(n) == TRUE

\* MaxRequests consecutive successes close a half-open breaker.
ProbesPassed(n) == n >= HalfOpenMaxCalls

\* onSuccess of a call of this generation.
OnSuccess(calls) ==
  \/ /\ state = "closed"
     /\ failures' = 0
     /\ call' = calls /\ tail' = Latest("ok")
     /\ UNCHANGED <<state, expired, probes, successes>>
  \/ /\ state = "halfOpen" /\ ~ProbesPassed(successes + 1)
     /\ successes' = successes + 1
     /\ call' = calls /\ tail' = Latest("ok")
     /\ UNCHANGED <<state, expired, failures, probes>>
  \/ /\ state = "halfOpen" /\ ProbesPassed(successes + 1)
     /\ NewGeneration("closed", calls)

\* onFailure of a call of this generation.
OnFailure(calls) ==
  \/ /\ state = "closed" /\ ~ReadyToTrip(failures + 1)
     /\ failures' = failures + 1
     /\ call' = calls /\ tail' = Latest("error")
     /\ UNCHANGED <<state, expired, probes, successes>>
  \/ /\ \/ state = "closed" /\ ReadyToTrip(failures + 1)
        \/ state = "halfOpen"
     /\ NewGeneration("open", calls)

\* The result of an earlier generation; looking at the clock may still turn
\* the breaker half-open.
OnStale(calls) ==
  \/ TurnsHalfOpen /\ NewGeneration("halfOpen", calls)
  \/ ~TurnsHalfOpen /\ call' = calls /\ UNCHANGED <<state, expired, counts, tail>>

-----------------------------------------------------------------------------
(* CircuitBreakerRegistry.Send                                             *)

Started(c, x) ==
  [call EXCEPT ![c] = [running |-> TRUE, current |-> TRUE, ctx |-> x,
                       result |-> "none"]]

\* Wrong variant: one probe too many.
MayProbeOnceMore == state = "halfOpen" /\ probes <= HalfOpenMaxCalls
MayProbe == state = "halfOpen" /\ probes < HalfOpenMaxCalls

\* beforeRequest lets the call through to the provider.
Admit(c) ==
  /\ ~call[c].running
  /\ \E x \in {"live", "cancelled"} :
       \/ /\ state = "closed"
          /\ call' = Started(c, x)
          /\ UNCHANGED <<state, expired, counts, tail>>
       \/ /\ MayProbe
          /\ call' = Started(c, x)
          /\ probes' = probes + 1
          /\ UNCHANGED <<state, expired, failures, successes, tail>>
       \/ /\ TurnsHalfOpen
          /\ state' = "halfOpen" /\ expired' = FALSE
          /\ failures' = 0 /\ probes' = 1 /\ successes' = 0
          /\ call' = [d \in Caller |->
                        IF d = c THEN Started(c, x)[c]
                        ELSE [call[d] EXCEPT !.current = FALSE]]
          /\ tail' = <<>>
  /\ UNCHANGED <<healthy, ailing>>

\* ErrOpenState or ErrTooManyRequests: the provider is not called.
Refuse(c) ==
  /\ ~call[c].running
  /\ \/ state = "open" /\ ~expired
     \/ state = "halfOpen" /\ ~MayProbe
  /\ \E x \in {"live", "cancelled"} :
       call' = [call EXCEPT ![c] = [NoCall EXCEPT !.ctx = x,
                  !.result = IF x = "cancelled" THEN "cancelled" ELSE "open"]]
  /\ UNCHANGED <<state, expired, counts, healthy, ailing, tail>>

\* The context of a running call is cancelled.
Cancel(c) ==
  /\ call[c].running /\ call[c].ctx = "live"
  /\ call' = [call EXCEPT ![c].ctx = "cancelled"]
  /\ UNCHANGED <<state, expired, counts, healthy, ailing, tail>>

\* What Send returns for an error: a cancelled call reports its context.
ErrorOf(c) == IF call[c].ctx = "cancelled" THEN "cancelled" ELSE "failed"

Returned(c, result) ==
  [call EXCEPT ![c].running = FALSE, ![c].current = FALSE, ![c].result = result]

\* The provider accepts: possible also just before a cancellation.
Succeed(c) ==
  /\ call[c].running /\ healthy
  /\ \/ Counts(c) /\ OnSuccess(Returned(c, "ok"))
     \/ ~Counts(c) /\ OnStale(Returned(c, "ok"))
  /\ UNCHANGED <<healthy, ailing>>

\* The provider fails or the context is cancelled.  The sentinel that Send
\* returns to Execute for a cancelled context is an error like any other.
Fail(c) ==
  /\ call[c].running /\ (~healthy \/ call[c].ctx = "cancelled")
  /\ \/ Counts(c) /\ OnFailure(Returned(c, ErrorOf(c)))
     \/ ~Counts(c) /\ OnStale(Returned(c, ErrorOf(c)))
  /\ UNCHANGED <<healthy, ailing>>

-----------------------------------------------------------------------------
(* Time, the state gauge and the provider's health                         *)

\* CB_OPEN_DURATION has passed.
Elapse ==
  /\ state = "open" /\ ~expired
  /\ expired' = TRUE
  /\ UNCHANGED <<state, counts, call, healthy, ailing, tail>>

\* reportBreakerStates asks for the state, which looks at the clock.
Report ==
  /\ TurnsHalfOpen
  /\ NewGeneration("halfOpen", call)
  /\ UNCHANGED <<healthy, ailing>>

ChangeHealth ==
  /\ healthy' = ~healthy
  /\ ailing' = TRUE
  /\ UNCHANGED <<state, expired, counts, call, tail>>

Next ==
  \/ \E c \in Caller :
       Admit(c) \/ Refuse(c) \/ Cancel(c) \/ Succeed(c) \/ Fail(c)
  \/ Elapse \/ Report \/ ChangeHealth

Spec == Init /\ [][Next]_vars

\* A call ends (WEBHOOK_TIMEOUT) and time passes.
FairSpec ==
  /\ Spec
  /\ \A c \in Caller : WF_vars(Succeed(c) \/ Fail(c))
  /\ WF_vars(Elapse)
=============================================================================
