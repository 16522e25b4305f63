------------------------ MODULE NotificationLifecycle -----------------------
(***************************************************************************)
(* What the delivery path promises about one notification, without queues, *)
(* handlers, messages or faults: its status, how often the provider has    *)
(* accepted it, whether it is taken (the dedup record), and the attempts   *)
(* made since it was taken.  Delivery implements this specification.       *)
(*                                                                         *)
(* A notification is disturbed once a worker has died with it or the       *)
(* provider's answer about it was lost.  From then on less is promised.    *)
(***************************************************************************)
EXTENDS Naturals

CONSTANTS Notification, MaxAttempts

VARIABLES status, accepted, record, tried, disturbed

life == <<status, accepted, record, tried, disturbed>>

Attempts == 0..MaxAttempts

Init ==
  /\ status = [m \in Notification |-> "none"]
  /\ accepted = [m \in Notification |-> 0]
  /\ record = {}
  /\ tried = [m \in Notification |-> {}]
  /\ disturbed = {}

\* What a step leaves alone.
KeepStatus(m) == status'[m] = status[m]
KeepAccepted(m) == accepted'[m] = accepted[m]
KeepRecord(m) == (m \in record') = (m \in record)
KeepTried(m) == tried'[m] = tried[m]

Same(m) == KeepStatus(m) /\ KeepAccepted(m) /\ KeepRecord(m) /\ KeepTried(m)

\* Every attempt was made and the provider accepted none.
Exhausted(m) == m \in record /\ tried[m] = Attempts /\ accepted[m] = 0

Create(m) ==
  /\ status[m] = "none" /\ status'[m] = "pending"
  /\ KeepAccepted(m) /\ KeepRecord(m) /\ KeepTried(m)

Cancel(m) ==
  /\ status[m] = "pending" /\ status'[m] = "cancelled"
  /\ KeepAccepted(m) /\ KeepRecord(m) /\ KeepTried(m)

\* The schedule begins, once until it is released.
Take(m) ==
  /\ m \notin record /\ m \in record'
  /\ accepted[m] = 0 /\ tried'[m] = {}
  /\ KeepStatus(m) /\ KeepAccepted(m)

\* The attempts come in order, each once, and none after an acceptance.
Attempt(m, k) ==
  /\ m \in record /\ accepted[m] = 0
  /\ tried[m] = 0..(k - 1) /\ tried'[m] = 0..k
  /\ accepted'[m] \in {0, 1}
  /\ KeepStatus(m) /\ KeepRecord(m)

Deliver(m) ==
  /\ accepted[m] > 0 /\ status'[m] = "delivered"
  /\ KeepAccepted(m) /\ KeepRecord(m) /\ KeepTried(m)

Fail(m) ==
  /\ Exhausted(m) /\ status'[m] = "failed"
  /\ KeepAccepted(m) /\ KeepRecord(m) /\ KeepTried(m)

\* A schedule that has failed may be run again.
Release(m) ==
  /\ Exhausted(m) /\ m \notin record'
  /\ KeepStatus(m) /\ KeepAccepted(m) /\ KeepTried(m)

\* Of a disturbed notification: an acceptance is not forgotten, delivered
\* means accepted, and nothing makes it new or pending again.
Disturbed(m) ==
  /\ m \in disturbed'
  /\ accepted'[m] >= accepted[m]
  /\ \/ KeepStatus(m)
     \/ status'[m] \in {"cancelled", "failed"}
     \/ status'[m] = "delivered" /\ accepted[m] > 0
     \/ Create(m)

Step(m) ==
  \/ /\ m \notin disturbed'
     /\ \/ Same(m) \/ Create(m) \/ Cancel(m) \/ Take(m)
        \/ \E k \in Attempts : Attempt(m, k)
        \/ Deliver(m) \/ Fail(m) \/ Release(m)
  \/ Disturbed(m)

Next == disturbed \subseteq disturbed' /\ \A m \in Notification : Step(m)

Spec == Init /\ [][Next]_life
=============================================================================
