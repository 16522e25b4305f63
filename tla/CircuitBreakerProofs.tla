------------------------ MODULE CircuitBreakerProofs ------------------------
(***************************************************************************)
(* Machine-checked proofs about CircuitBreaker, for every number of        *)
(* callers, every failure threshold and every number of probes.            *)
(***************************************************************************)
EXTENDS CircuitBreakerInvariant, FiniteSetTheorems, TLAPS

Result == {"ok", "error"}

-----------------------------------------------------------------------------
(* The history of results                                                  *)

LEMMA TailLengthFacts ==
  /\ FailureThreshold \in Nat /\ FailureThreshold > 0
  /\ HalfOpenMaxCalls \in Nat /\ HalfOpenMaxCalls > 0
  /\ TailLength \in Nat
  /\ TailLength >= FailureThreshold /\ TailLength >= HalfOpenMaxCalls
BY BreakerAssumption DEF TailLength

\* One more result is appended, and the oldest one is forgotten when there
\* are too many: counted from the end, every result moves by one.
LEMMA LatestEffect ==
  ASSUME tail \in Seq(Result), Len(tail) <= TailLength, NEW r \in Result
  PROVE  LET t == Latest(r) IN
         /\ t \in Seq(Result)
         /\ Len(t) = IF Len(tail) = TailLength THEN TailLength ELSE Len(tail) + 1
         /\ t[Len(t)] = r
         /\ \A i \in 1..(Len(t) - 1) : t[Len(t) - i] = tail[Len(tail) - (i - 1)]
         /\ Len(tail) < TailLength => t = Append(tail, r)
<1> DEFINE t == Append(tail, r)
<1>1. /\ t \in Seq(Result) /\ Len(t) = Len(tail) + 1
      /\ t[Len(tail) + 1] = r
      /\ \A i \in 1..Len(tail) : t[i] = tail[i]
  OBVIOUS
<1>2. Len(tail) \in Nat /\ TailLength \in Nat /\ TailLength > 0
  BY TailLengthFacts
<1>3. CASE Len(tail) < TailLength
  <2>1. Latest(r) = t
    BY <1>1, <1>2, <1>3 DEF Latest
  <2>2. \A i \in 1..(Len(t) - 1) : t[Len(t) - i] = tail[Len(tail) - (i - 1)]
    <3> TAKE i \in 1..(Len(t) - 1)
    <3>1. Len(t) - i \in 1..Len(tail) /\ Len(t) - i = Len(tail) - (i - 1)
      BY <1>1, <1>2
    <3> QED
      BY <1>1, <3>1
  <2> QED
    BY <1>1, <1>2, <1>3, <2>1, <2>2
<1>4. CASE Len(tail) = TailLength
  <2> DEFINE u == Tail(t)
  <2>1. Latest(r) = u
    BY <1>1, <1>2, <1>4 DEF Latest
  <2>2. /\ u \in Seq(Result) /\ Len(u) = Len(tail)
        /\ \A i \in 1..Len(tail) : u[i] = t[i + 1]
    BY <1>1, <1>2, <1>4
  <2> HIDE DEF t, u
  <2>3. u[Len(u)] = r
    BY <1>1, <1>2, <1>4, <2>2
  <2>4. \A i \in 1..(Len(u) - 1) : u[Len(u) - i] = tail[Len(tail) - (i - 1)]
    <3> TAKE i \in 1..(Len(u) - 1)
    <3>1. /\ Len(u) - i \in 1..Len(tail)
          /\ (Len(u) - i) + 1 = Len(tail) - (i - 1)
          /\ Len(tail) - (i - 1) \in 1..Len(tail)
      BY <1>2, <2>2
    <3> QED
      BY <1>1, <2>2, <3>1
  <2> QED
    BY <1>4, <1>2, <2>1, <2>2, <2>3, <2>4
<1> QED
  BY <1>2, <1>3, <1>4

-----------------------------------------------------------------------------
(* The calls of the present generation                                     *)

LEMMA AdmittedFinite ==
  /\ IsFiniteSet(Admitted) /\ Cardinality(Admitted) \in Nat
  /\ IsFiniteSet(Admitted') /\ Cardinality(Admitted') \in Nat
<1>1. Admitted \subseteq Caller /\ Admitted' \subseteq Caller
  BY DEF Admitted
<1> QED
  BY <1>1, BreakerAssumption, FS_Subset, FS_CardinalityType

\* A new generation starts with no call of its own.
LEMMA NewGenerationEffect ==
  ASSUME NEW s \in {"closed", "open", "halfOpen"}, NEW calls \in [Caller -> CallRec],
         NewGeneration(s, calls), UNCHANGED <<healthy, ailing>>, TypeOK
  PROVE  IInv' /\ Admitted' = {}
<1>1. \A c \in Caller :
        call'[c] \in CallRec /\ ~call'[c].current
  BY DEF NewGeneration, CallRec
<1>2. TypeOK'
  <2>1. call' \in [Caller -> CallRec]
    BY <1>1 DEF NewGeneration
  <2>2. tail' \in Seq({"ok", "error"})
    BY DEF NewGeneration
  <2>3. /\ failures' \in 0..FailureThreshold
        /\ probes' \in 0..HalfOpenMaxCalls /\ successes' \in 0..HalfOpenMaxCalls
    BY TailLengthFacts DEF NewGeneration
  <2>4. expired' \in BOOLEAN /\ healthy' \in BOOLEAN /\ ailing' \in BOOLEAN
    BY DEF NewGeneration, TypeOK
  <2> QED
    BY <2>1, <2>2, <2>3, <2>4 DEF NewGeneration, TypeOK
<1>3. Admitted' = {}
  BY <1>1 DEF Admitted
<1>4. CountsAreResults'
  <2>1. tail' = <<>> /\ failures' = 0 /\ successes' = 0
    BY DEF NewGeneration
  <2>2. tail' = [i \in 1..successes' |-> "ok"]
    BY <2>1
  <2> QED
    BY <2>1, <2>2, TailLengthFacts DEF CountsAreResults, EndsInErrors
<1>5. ProbesCounted'
  <2>1. Cardinality(Admitted') = 0
    BY <1>3, FS_EmptySet
  <2> QED
    BY <2>1 DEF ProbesCounted, NewGeneration
<1> QED
  BY <1>2, <1>3, <1>4, <1>5 DEF IInv

\* A call that returns leaves the generation, whichever it was admitted in.
LEMMA ReturnedEffect ==
  ASSUME TypeOK, NEW c \in Caller, NEW x \in {"ok", "failed", "cancelled"}
  PROVE  /\ Returned(c, x) \in [Caller -> CallRec]
         /\ call' = Returned(c, x) /\ call[c].running
              => Admitted' = Admitted \ {c}
         /\ call' = Returned(c, x) /\ call[c].running /\ call[c].current
              => Cardinality(Admitted') = Cardinality(Admitted) - 1
<1> DEFINE done == [call[c] EXCEPT !.running = FALSE, !.current = FALSE, !.result = x]
<1>1. call \in [Caller -> CallRec] /\ call[c] \in CallRec
  BY DEF TypeOK
<1>2. done \in CallRec
  BY <1>1 DEF CallRec
<1>3. Returned(c, x) = [call EXCEPT ![c] = done]
  BY <1>1 DEF Returned, CallRec
<1>4. Returned(c, x) \in [Caller -> CallRec]
  BY <1>1, <1>2, <1>3
<1>5. ASSUME call' = Returned(c, x)
      PROVE  Admitted' = Admitted \ {c}
  <2>1. ~call'[c].running /\ \A d \in Caller : d # c => call'[d] = call[d]
    BY <1>1, <1>3, <1>5 DEF CallRec
  <2> QED
    BY <2>1 DEF Admitted
<1>6. ASSUME call' = Returned(c, x), call[c].running, call[c].current
      PROVE  Cardinality(Admitted') = Cardinality(Admitted) - 1
  <2>1. c \in Admitted
    BY <1>6 DEF Admitted
  <2> QED
    BY <1>5, <1>6, <2>1, AdmittedFinite, FS_RemoveElement
<1> QED
  BY <1>4, <1>5, <1>6

-----------------------------------------------------------------------------
(* The inductive invariant                                                 *)

\* It holds of a new breaker.
LEMMA InitIInv == Init => IInv
<1> SUFFICES ASSUME Init PROVE IInv
  OBVIOUS
<1>1. TypeOK
  <2>1. NoCall \in CallRec
    BY DEF NoCall, CallRec
  <2>2. tail \in Seq({"ok", "error"})
    BY DEF Init
  <2>3. failures \in 0..FailureThreshold
        /\ probes \in 0..HalfOpenMaxCalls /\ successes \in 0..HalfOpenMaxCalls
    BY TailLengthFacts DEF Init
  <2>4. call \in [Caller -> CallRec]
    BY <2>1 DEF Init
  <2> QED
    BY <2>2, <2>3, <2>4 DEF Init, TypeOK
<1>2. CountsAreResults
  BY TailLengthFacts DEF Init, CountsAreResults, EndsInErrors
<1>3. ProbesCounted
  BY DEF Init, ProbesCounted
<1> QED
  BY <1>1, <1>2, <1>3 DEF IInv

\* A success that counts: it ends the run of failures of a closed breaker, and
\* is one of the probes of a half-open one.
LEMMA SuccessIInv ==
  ASSUME IInv, NEW c \in Caller, call[c].running, call[c].current,
         OnSuccess(Returned(c, "ok")), UNCHANGED <<healthy, ailing>>
  PROVE  IInv'
<1> USE TailLengthFacts
<1>1. TypeOK /\ CountsAreResults /\ ProbesCounted
  BY DEF IInv
<1>2. Returned(c, "ok") \in [Caller -> CallRec]
  BY <1>1, ReturnedEffect
<1>3. /\ tail \in Seq(Result) /\ Len(tail) <= TailLength /\ Len(tail) \in Nat
      /\ "ok" \in Result
  BY <1>1 DEF TypeOK, CountsAreResults, Result
<1>4. /\ Latest("ok") \in Seq(Result) /\ Len(Latest("ok")) <= TailLength
      /\ Len(tail) < TailLength => Latest("ok") = Append(tail, "ok")
  BY <1>3, LatestEffect
<1>5. CASE /\ state = "closed"
           /\ failures' = 0
           /\ call' = Returned(c, "ok") /\ tail' = Latest("ok")
           /\ UNCHANGED <<state, expired, probes, successes>>
  <2>1. TypeOK'
    BY <1>1, <1>2, <1>4, <1>5 DEF TypeOK, Result
  <2>2. CountsAreResults'
    BY <1>4, <1>5 DEF CountsAreResults, EndsInErrors
  <2>3. ProbesCounted'
    BY <1>5 DEF ProbesCounted
  <2> QED
    BY <2>1, <2>2, <2>3 DEF IInv
<1>6. CASE /\ state = "halfOpen" /\ ~ProbesPassed(successes + 1)
           /\ successes' = successes + 1
           /\ call' = Returned(c, "ok") /\ tail' = Latest("ok")
           /\ UNCHANGED <<state, expired, failures, probes>>
  <2>1. successes \in Nat /\ successes + 1 < HalfOpenMaxCalls
    BY <1>1, <1>6 DEF TypeOK, ProbesPassed
  <2>2. TypeOK'
    BY <1>1, <1>2, <1>4, <1>6, <2>1 DEF TypeOK, Result
  <2>3. CountsAreResults'
    <3>1. tail = [i \in 1..successes |-> "ok"] /\ Len(tail) = successes
      BY <1>1, <1>6, <2>1 DEF CountsAreResults
    <3>2. tail' = Append(tail, "ok")
      BY <1>4, <1>6, <2>1, <3>1
    <3>3. tail' = [i \in 1..(successes + 1) |-> "ok"]
      BY <2>1, <3>1, <3>2
    <3> QED
      BY <1>4, <1>6, <2>1, <3>3 DEF CountsAreResults
  <2>4. ProbesCounted'
    <3>1. Cardinality(Admitted') = Cardinality(Admitted) - 1
      BY <1>1, <1>6, ReturnedEffect
    <3>2. Cardinality(Admitted) + successes <= probes
      BY <1>1, <1>6 DEF ProbesCounted
    <3>3. probes \in Nat
      BY <1>1 DEF TypeOK
    <3> QED
      BY <1>6, <2>1, <3>1, <3>2, <3>3, AdmittedFinite DEF ProbesCounted
  <2> QED
    BY <2>2, <2>3, <2>4 DEF IInv
<1>7. CASE state = "halfOpen" /\ NewGeneration("closed", Returned(c, "ok"))
  BY <1>1, <1>2, <1>7, NewGenerationEffect
<1> QED
  BY <1>5, <1>6, <1>7 DEF OnSuccess

\* A failure that counts: one more at the end of a closed breaker's results,
\* or the end of the generation.
LEMMA FailureIInv ==
  ASSUME IInv, NEW c \in Caller, NEW x \in {"failed", "cancelled"},
         call[c].running, call[c].current,
         OnFailure(Returned(c, x)), UNCHANGED <<healthy, ailing>>
  PROVE  IInv'
<1> USE TailLengthFacts
<1>1. TypeOK /\ CountsAreResults /\ ProbesCounted
  BY DEF IInv
<1>2. Returned(c, x) \in [Caller -> CallRec]
  BY <1>1, ReturnedEffect
<1>3. CASE /\ state = "closed" /\ ~ReadyToTrip(failures + 1)
           /\ failures' = failures + 1
           /\ call' = Returned(c, x) /\ tail' = Latest("error")
           /\ UNCHANGED <<state, expired, probes, successes>>
  <2> DEFINE t == Latest("error")
  <2>1. failures \in Nat /\ failures + 1 < FailureThreshold
    BY <1>1, <1>3 DEF TypeOK, ReadyToTrip
  <2>2. /\ tail \in Seq(Result) /\ Len(tail) <= TailLength /\ Len(tail) \in Nat
        /\ "error" \in Result
    BY <1>1 DEF TypeOK, CountsAreResults, Result
  <2>3. /\ t \in Seq(Result)
        /\ Len(t) = IF Len(tail) = TailLength THEN TailLength ELSE Len(tail) + 1
        /\ t[Len(t)] = "error"
        /\ \A i \in 1..(Len(t) - 1) : t[Len(t) - i] = tail[Len(tail) - (i - 1)]
    BY <2>2, LatestEffect
  <2> HIDE DEF t
  <2>4. TypeOK'
    BY <1>1, <1>2, <1>3, <2>1, <2>3 DEF TypeOK, Result, t
  <2>5. failures <= Len(tail) /\ \A i \in 0..(failures - 1) : tail[Len(tail) - i] = "error"
    BY <1>1, <1>3 DEF CountsAreResults, EndsInErrors
  <2>6. failures + 1 <= Len(t) /\ \A i \in 0..failures : t[Len(t) - i] = "error"
    <3>1. failures + 1 <= Len(t)
      BY <2>1, <2>2, <2>3, <2>5
    <3>2. ASSUME NEW i \in 0..failures PROVE t[Len(t) - i] = "error"
      <4>1. CASE i = 0
        BY <2>2, <2>3, <4>1
      <4>2. CASE i # 0
        <5>1. i \in 1..(Len(t) - 1) /\ i - 1 \in 0..(failures - 1)
          BY <2>1, <2>2, <2>3, <3>1, <4>2
        <5> QED
          BY <2>3, <2>5, <5>1
      <4> QED
        BY <4>1, <4>2
    <3> QED
      BY <3>1, <3>2
  <2>7. CountsAreResults'
    <3>1. tail' = t /\ failures' = failures + 1 /\ (failures + 1) - 1 = failures
      BY <1>3, <2>1 DEF t
    <3>2. Len(t) <= TailLength
      BY <2>2, <2>3
    <3> QED
      BY <1>3, <2>1, <2>6, <3>1, <3>2 DEF CountsAreResults, EndsInErrors
  <2>8. ProbesCounted'
    BY <1>3 DEF ProbesCounted
  <2> QED
    BY <2>4, <2>7, <2>8 DEF IInv
<1>4. CASE NewGeneration("open", Returned(c, x))
  BY <1>1, <1>2, <1>4, NewGenerationEffect
<1> QED
  BY <1>3, <1>4 DEF OnFailure

\* A result that does not count frees no probe of this generation.
LEMMA StaleIInv ==
  ASSUME IInv, NEW c \in Caller, NEW x \in {"ok", "failed", "cancelled"},
         call[c].running, ~call[c].current,
         OnStale(Returned(c, x)), UNCHANGED <<healthy, ailing>>
  PROVE  IInv'
<1>1. TypeOK /\ CountsAreResults /\ ProbesCounted
  BY DEF IInv
<1>2. Returned(c, x) \in [Caller -> CallRec]
  BY <1>1, ReturnedEffect
<1>3. CASE NewGeneration("halfOpen", Returned(c, x))
  BY <1>1, <1>2, <1>3, NewGenerationEffect
<1>4. CASE call' = Returned(c, x) /\ UNCHANGED <<state, expired, counts, tail>>
  <2>1. TypeOK'
    BY <1>1, <1>2, <1>4 DEF TypeOK, counts
  <2>2. CountsAreResults'
    BY <1>1, <1>4 DEF CountsAreResults, EndsInErrors, counts
  <2>3. Admitted' = Admitted
    BY <1>1, <1>4, ReturnedEffect DEF Admitted
  <2>4. ProbesCounted'
    BY <1>1, <1>4, <2>3 DEF ProbesCounted, counts
  <2> QED
    BY <2>1, <2>2, <2>4 DEF IInv
<1> QED
  BY <1>3, <1>4 DEF OnStale

\* A call is let through: by a closed breaker, as one more counted probe, or
\* as the first probe of a new generation.
LEMMA AdmitIInv ==
  ASSUME IInv, NEW c \in Caller, Admit(c)
  PROVE  IInv'
<1> USE TailLengthFacts
<1>1. TypeOK /\ CountsAreResults /\ ProbesCounted
  BY DEF IInv
<1>2. PICK x \in {"live", "cancelled"} :
        \/ /\ state = "closed"
           /\ call' = Started(c, x)
           /\ UNCHANGED <<state, expired, counts, tail>>
        \/ /\ MayProbe
           /\ call' = Started(c, x)
           /\ probes' = probes + 1
           /\ UNCHANGED <<state, expired, failures, successes, tail>>
        \/ /\ TurnsHalfOpen
           /\ state' = "halfOpen" /\ expired' = FALSE
           /\ failures' = 0 /\ probes' = 1 /\ successes' = 0
           /\ call' = [d \in Caller |->
                         IF d = c THEN Started(c, x)[c]
                         ELSE [call[d] EXCEPT !.current = FALSE]]
           /\ tail' = <<>>
  BY DEF Admit
<1>3. /\ call \in [Caller -> CallRec] /\ ~call[c].running
      /\ UNCHANGED <<healthy, ailing>>
  BY <1>1 DEF Admit, TypeOK
<1>4. /\ Started(c, x) \in [Caller -> CallRec]
      /\ Started(c, x)[c].running /\ Started(c, x)[c].current
      /\ \A d \in Caller : d # c => Started(c, x)[d] = call[d]
  BY <1>3 DEF Started, CallRec
<1>5. CASE /\ state = "closed"
           /\ call' = Started(c, x)
           /\ UNCHANGED <<state, expired, counts, tail>>
  <2>1. TypeOK'
    BY <1>1, <1>3, <1>4, <1>5 DEF TypeOK, counts
  <2>2. CountsAreResults' /\ ProbesCounted'
    BY <1>1, <1>5 DEF CountsAreResults, ProbesCounted, EndsInErrors, counts
  <2> QED
    BY <2>1, <2>2 DEF IInv
<1>6. CASE /\ MayProbe
           /\ call' = Started(c, x)
           /\ probes' = probes + 1
           /\ UNCHANGED <<state, expired, failures, successes, tail>>
  <2>1. probes \in Nat /\ successes \in Nat /\ probes < HalfOpenMaxCalls /\ state = "halfOpen"
    BY <1>1, <1>6 DEF TypeOK, MayProbe
  <2>2. TypeOK'
    BY <1>1, <1>3, <1>4, <1>6, <2>1 DEF TypeOK
  <2>3. CountsAreResults'
    BY <1>1, <1>6 DEF CountsAreResults, EndsInErrors
  <2>4. Admitted' = Admitted \cup {c} /\ c \notin Admitted
    BY <1>3, <1>4, <1>6 DEF Admitted
  <2>5. Cardinality(Admitted') = Cardinality(Admitted) + 1
    BY <2>4, AdmittedFinite, FS_AddElement
  <2>6. Cardinality(Admitted) + successes <= probes
    BY <1>1, <2>1 DEF ProbesCounted
  <2>7. ProbesCounted'
    BY <1>6, <2>1, <2>5, <2>6, AdmittedFinite DEF ProbesCounted
  <2> QED
    BY <2>2, <2>3, <2>7 DEF IInv
<1>7. CASE /\ TurnsHalfOpen
           /\ state' = "halfOpen" /\ expired' = FALSE
           /\ failures' = 0 /\ probes' = 1 /\ successes' = 0
           /\ call' = [d \in Caller |->
                         IF d = c THEN Started(c, x)[c]
                         ELSE [call[d] EXCEPT !.current = FALSE]]
           /\ tail' = <<>>
  <2>1. \A d \in Caller : call'[d] \in CallRec /\ (call'[d].current <=> d = c)
    BY <1>3, <1>4, <1>7 DEF CallRec
  <2>2. TypeOK'
    <3>1. call' \in [Caller -> CallRec]
      BY <1>7, <2>1
    <3>2. tail' \in Seq({"ok", "error"})
      BY <1>7
    <3>3. failures' \in 0..FailureThreshold
          /\ probes' \in 0..HalfOpenMaxCalls /\ successes' \in 0..HalfOpenMaxCalls
      BY <1>7
    <3> QED
      BY <1>1, <1>3, <1>7, <3>1, <3>2, <3>3 DEF TypeOK
  <2>3. CountsAreResults'
    <3>1. tail' = [i \in 1..successes' |-> "ok"] /\ Len(tail') = 0
      BY <1>7
    <3> QED
      BY <1>7, <3>1 DEF CountsAreResults
  <2>4. Admitted' = {c}
    BY <1>4, <1>7, <2>1 DEF Admitted
  <2>5. Cardinality(Admitted') = 1
    BY <2>4, FS_Singleton
  <2>6. ProbesCounted'
    BY <1>7, <2>5 DEF ProbesCounted
  <2> QED
    BY <2>2, <2>3, <2>6 DEF IInv
<1> QED
  BY <1>2, <1>5, <1>6, <1>7

\* A step that moves neither the breaker nor its calls of this generation.
LEMMA QuietIInv ==
  ASSUME IInv, UNCHANGED <<state, counts, tail>>, TypeOK', Admitted' = Admitted
  PROVE  IInv'
<1>1. CountsAreResults' /\ ProbesCounted'
  BY DEF IInv, CountsAreResults, ProbesCounted, EndsInErrors, counts
<1> QED
  BY <1>1 DEF IInv

\* Every step preserves the invariant.
LEMMA NextIInv == IInv /\ [Next]_vars => IInv'
<1> SUFFICES ASSUME IInv, [Next]_vars PROVE IInv'
  OBVIOUS
<1>1. TypeOK
  BY DEF IInv
<1>2. ASSUME NEW c \in Caller, Admit(c) PROVE IInv'
  BY <1>2, AdmitIInv
<1>3. ASSUME NEW c \in Caller, Refuse(c) PROVE IInv'
  <2>1. PICK x \in {"live", "cancelled"} :
          call' = [call EXCEPT ![c] = [NoCall EXCEPT !.ctx = x,
                     !.result = IF x = "cancelled" THEN "cancelled" ELSE "open"]]
    BY <1>3 DEF Refuse
  <2>2. /\ call' \in [Caller -> CallRec]
        /\ ~call'[c].running /\ ~call[c].running
        /\ \A d \in Caller : d # c => call'[d] = call[d]
    BY <1>1, <1>3, <2>1 DEF Refuse, TypeOK, CallRec, NoCall
  <2>3. TypeOK' /\ Admitted' = Admitted
    BY <1>1, <1>3, <2>2 DEF Refuse, TypeOK, Admitted, counts
  <2> QED
    BY <1>3, <2>3, QuietIInv DEF Refuse
<1>4. ASSUME NEW c \in Caller, Cancel(c) PROVE IInv'
  <2>1. /\ call' \in [Caller -> CallRec]
        /\ \A d \in Caller : call'[d].running = call[d].running
                               /\ call'[d].current = call[d].current
    BY <1>1, <1>4 DEF Cancel, TypeOK, CallRec
  <2>2. TypeOK' /\ Admitted' = Admitted
    BY <1>1, <1>4, <2>1 DEF Cancel, TypeOK, Admitted, counts
  <2> QED
    BY <1>4, <2>2, QuietIInv DEF Cancel
<1>5. ASSUME NEW c \in Caller, Succeed(c) PROVE IInv'
  BY <1>5, SuccessIInv, StaleIInv DEF Succeed, Counts
<1>6. ASSUME NEW c \in Caller, Fail(c) PROVE IInv'
  <2>1. ErrorOf(c) \in {"failed", "cancelled"}
    BY DEF ErrorOf
  <2> QED
    BY <1>6, <2>1, FailureIInv, StaleIInv DEF Fail, Counts
<1>7. CASE Elapse \/ ChangeHealth
  <2>1. TypeOK' /\ Admitted' = Admitted
    BY <1>1, <1>7 DEF Elapse, ChangeHealth, TypeOK, Admitted, counts
  <2> QED
    BY <1>7, <2>1, QuietIInv DEF Elapse, ChangeHealth
<1>8. CASE Report
  BY <1>1, <1>8, NewGenerationEffect DEF Report, TypeOK
<1>9. CASE UNCHANGED vars
  <2>1. TypeOK' /\ Admitted' = Admitted
    BY <1>1, <1>9 DEF vars, counts, TypeOK, Admitted
  <2> QED
    BY <1>9, <2>1, QuietIInv DEF vars
<1> QED
  BY <1>2, <1>3, <1>4, <1>5, <1>6, <1>7, <1>8, <1>9 DEF Next

LEMMA IInvAlways == Spec => []IInv
BY InitIInv, NextIInv, PTL DEF Spec

-----------------------------------------------------------------------------
(* The properties                                                          *)

\* No count leaves its range, whatever the generations and their late answers.
THEOREM BreakerTypeCorrect == Spec => []TypeOK
BY IInvAlways, PTL DEF IInv

\* A half-open breaker lets at most HalfOpenMaxCalls calls of its generation
\* reach the provider at a time.
THEOREM ProbesBoundedHolds == Spec => []ProbesBounded
<1>1. IInv => ProbesBounded
  <2> SUFFICES ASSUME IInv, state = "halfOpen"
               PROVE  Cardinality(Admitted) <= HalfOpenMaxCalls
    BY DEF ProbesBounded, Admitted
  <2>1. Cardinality(Admitted) + successes <= probes
    BY DEF IInv, ProbesCounted
  <2>2. probes <= HalfOpenMaxCalls /\ probes \in Nat /\ successes \in Nat
    BY TailLengthFacts DEF IInv, TypeOK
  <2> QED
    BY <2>1, <2>2, AdmittedFinite, TailLengthFacts
<1> QED
  BY <1>1, IInvAlways, PTL

\* A closed breaker opens only at the end of FailureThreshold consecutive
\* errors of calls of its own generation (ReadyToTrip,
\* circuit_breaker.go:60-62).
THEOREM OpensOnlyAfterThresholdHolds == Spec => OpensOnlyAfterThreshold
<1>1. ASSUME IInv, [Next]_vars, state = "closed", state' = "open"
      PROVE  /\ Len(tail) >= FailureThreshold - 1
             /\ \A i \in 0..(FailureThreshold - 2) : tail[Len(tail) - i] = "error"
  <2>1. \E c \in Caller : Fail(c) /\ call[c].current
    BY <1>1 DEF Next, vars, counts, Admit, Refuse, Cancel, Succeed, Fail, Elapse, Report,
                ChangeHealth, OnSuccess, OnStale, Counts, MayProbe, TurnsHalfOpen,
                NewGeneration
  <2>2. ReadyToTrip(failures + 1)
    BY <1>1, <2>1 DEF Fail, Counts, OnFailure
  <2>3. failures \in Nat /\ failures < FailureThreshold
    BY <1>1, TailLengthFacts DEF IInv, TypeOK, CountsAreResults
  <2>4. failures = FailureThreshold - 1
    BY <2>2, <2>3, TailLengthFacts DEF ReadyToTrip
  <2>5. EndsInErrors(failures)
    BY <1>1 DEF IInv, CountsAreResults
  <2> QED
    BY <2>3, <2>4, <2>5, TailLengthFacts DEF EndsInErrors
<1>2. IInv /\ [Next]_vars
      => [state = "closed" /\ state' = "open" =>
            /\ Len(tail) >= FailureThreshold - 1
            /\ \A i \in 0..(FailureThreshold - 2) : tail[Len(tail) - i] = "error"]_vars
  BY <1>1
<1> QED
  BY <1>2, IInvAlways, PTL DEF Spec, OpensOnlyAfterThreshold

\* A half-open breaker closes only with the last of HalfOpenMaxCalls
\* successes in a row.
THEOREM ClosesOnlyAfterProbesHolds == Spec => ClosesOnlyAfterProbes
<1>1. ASSUME IInv, [Next]_vars, state = "halfOpen", state' = "closed"
      PROVE  tail = [i \in 1..(HalfOpenMaxCalls - 1) |-> "ok"]
  <2>1. \E c \in Caller : Succeed(c) /\ call[c].current
    BY <1>1 DEF Next, vars, counts, Admit, Refuse, Cancel, Succeed, Fail, Elapse, Report,
                ChangeHealth, OnFailure, OnStale, Counts, MayProbe, TurnsHalfOpen,
                NewGeneration
  <2>2. ProbesPassed(successes + 1)
    BY <1>1, <2>1 DEF Succeed, Counts, OnSuccess
  <2>3. successes \in Nat /\ successes < HalfOpenMaxCalls
    BY <1>1, TailLengthFacts DEF IInv, TypeOK, CountsAreResults
  <2>4. successes = HalfOpenMaxCalls - 1
    BY <2>2, <2>3, TailLengthFacts DEF ProbesPassed
  <2> QED
    BY <1>1, <2>4 DEF IInv, CountsAreResults
<1>2. IInv /\ [Next]_vars
      => [state = "halfOpen" /\ state' = "closed" =>
            tail = [i \in 1..(HalfOpenMaxCalls - 1) |-> "ok"]]_vars
  BY <1>1
<1> QED
  BY <1>2, IInvAlways, PTL DEF Spec, ClosesOnlyAfterProbes
=============================================================================
