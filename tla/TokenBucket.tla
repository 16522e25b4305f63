---------------------------- MODULE TokenBucket -----------------------------
(***************************************************************************)
(* One rate.Limiter of golang.org/x/time/rate, as limiter.go uses it:      *)
(* ReserveN, and Cancel of a reservation that is not due at once.  Times   *)
(* are numbers; the unit is the time in which one token accrues.           *)
(*                                                                         *)
(* The library is external.  Its reserveN, advance and CancelAt take the   *)
(* time as an argument, which the caller read before it had the lock: it   *)
(* may be earlier than that of the call before.                            *)
(***************************************************************************)
EXTENDS Integers

CONSTANT Burst   \* RATE_LIMIT_BURST: the capacity of a channel's bucket

ASSUME BurstAssumption == Burst \in Nat

\* lastEvent is when the latest reservation is due.  tokens falls below 0
\* while reservations are pending.
BucketRec == [tokens : Int, last : Nat, lastEvent : Nat]

FullBucket(t) == [tokens |-> Burst, last |-> t, lastEvent |-> t]

Capped(n) == IF n > Burst THEN Burst ELSE n

\* advance: no time has passed when t is before the latest call.
Advanced(b, t) == Capped(b.tokens + (IF t < b.last THEN 0 ELSE t - b.last))

\* reserveN of n <= Burst tokens, also when they are there only later.
ReserveN(b, n, t) ==
  LET left == Advanced(b, t) - n IN
  [tokens |-> left, last |-> t, lastEvent |-> IF left < 0 THEN t - left ELSE t]

\* CancelAt gives back n tokens less those that were reserved after them,
\* which it takes from lastEvent: nothing when the reservation is past due.
Restorable(b, n, due, t) == IF due < t THEN 0 ELSE n - (b.lastEvent - due)

CancelAt(b, n, due, t) ==
  LET k == Restorable(b, n, due, t) IN
  IF k <= 0 THEN b
  ELSE [tokens |-> Capped(Advanced(b, t) + k), last |-> t,
        lastEvent |-> IF due = b.lastEvent /\ due - n >= t THEN due - n
                      ELSE b.lastEvent]
=============================================================================
