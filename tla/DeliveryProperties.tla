------------------------- MODULE DeliveryProperties -------------------------
(***************************************************************************)
(* What the delivery path promises.  A property that a fault may break     *)
(* says which faults it excludes, message by message.                      *)
(***************************************************************************)
EXTENDS Delivery

DeadLettered(m) == \E a \in Attempts : queue["dlq"][m][a] > 0
InHand(m) == \E h \in Handler : worker[h].msg = m

\* Some broker message carries m, ready or unacked.
Alive(m) ==
  \/ \E p \in Place, a \in Attempts : queue[p][m][a] > 0
  \/ InHand(m)
  \/ \E r \in Admin : admin[r].msg = m

\* No worker died with m in hand and no answer about m was lost: the two
\* faults after which the same attempt may be made twice.
Undisturbed(m) == fault[m] \cap {"crash", "answer"} = {}

-----------------------------------------------------------------------------
(* Safety                                                                  *)

\* INV: a notification is accepted by the provider at most once, whatever
\* is replayed, cancelled, shut down or fails, short of a worker crash or a
\* lost answer.  The dedup record (deliver.go:156-166) is the lock that
\* keeps duplicate and replayed copies away from a retry schedule that is
\* still running.
SendOnce ==
  \A m \in Notification : Undisturbed(m) => accepted[m] <= 1

\* INV: only a provider's acceptance makes a notification delivered
\* (deliver.go:173-185), also after lost answers, crashes and failed calls.
DeliveredWasAccepted ==
  \A m \in Notification : status[m] = "delivered" => accepted[m] > 0

\* INV: a notification marked failed lies in the DLQ until an admin takes
\* it: PublishDLQ comes before UpdateStatus (deliver.go:264-270) and a failed
\* publish ends the handler, so no fault leaves a failed notification that
\* nobody can replay.
FailedIsDeadLettered ==
  \A m \in Notification :
    status[m] = "failed" /\ replays = 0 => DeadLettered(m)

\* INV: a message that was accepted does not vanish before it reaches a
\* verdict, also if the provider's answer is lost or a replay dies: every ack
\* is preceded by a delivery, a publish to the next queue or a duplicate that
\* is still alive.
AcceptedNeverVanishes ==
  \A m \in Message :
    /\ api[m] = "accepted"
    /\ fault[m] \subseteq {"answer", "apiCrash"}
    /\ m \in Notification => status[m] \in {"pending", "cancelled"}
    => Alive(m)

\* INV: once no handler works on it, an undisturbed notification that came to
\* a verdict has one delivery_attempts row for every attempt up to the last,
\* though each row is written after the next copy is already under way.
AuditTrailComplete ==
  \A m \in Notification :
    /\ status[m] \in {"delivered", "failed"}
    /\ fault[m] = {} /\ replays = 0 /\ ~InHand(m)
    => \E last \in Attempts :
         /\ {r[1] : r \in rows[m]} = 0..last
         /\ Cardinality(rows[m]) = last + 1
         /\ status[m] = "delivered" => <<last, "success">> \in rows[m]
         /\ status[m] = "failed" => last = MaxAttempts
                                    /\ <<last, "dlq">> \in rows[m]

\* INV: a crash loses a notification only on its first attempt, where the
\* redelivery meets the record that the dead handler had made and is taken
\* for a duplicate (deliver.go:156-166); a crash on a retry, which passes no
\* guard, loses nothing.
CrashLosesFirstAttemptOnly ==
  \A m \in Notification :
    /\ api[m] = "accepted" /\ status[m] \in {"pending", "cancelled"}
    /\ fault[m] \subseteq {"crash", "answer", "apiCrash"}
    /\ ~Alive(m)
    => "crash" \in fault[m] /\ m \in processed /\ tried[m] \subseteq {0}

\* INV: a first attempt that the broker redelivers after a crash, or that a
\* lost answer leaves in doubt, is not sent again (README.md:94-95): before a
\* schedule is exhausted only a retry can be the second one accepted.
FirstAttemptSentOnce ==
  \A m \in Notification :
    tried[m] \subseteq {0} /\ ~DeadLettered(m) /\ replays = 0
      => accepted[m] <= 1

-----------------------------------------------------------------------------
(* Action properties                                                       *)

\* ACTION: a delivered notification stays delivered.  UpdateStatus has no
\* guard (notification_repository.go:70-85): what keeps a late "failed" away
\* is that the handler that dead-letters deletes the dedup record last.
DeliveredIsFinal ==
  [][\A m \in Notification :
       status[m] = "delivered" /\ Undisturbed(m)
         => status'[m] = "delivered"]_vars

\* ACTION: a notification enters the DLQ only after every attempt of its
\* schedule was made, none skipped and none repeated past the dedup guard
\* (deliver.go:229-264); an open breaker counts as an attempt.
DeadLetteredAfterFullSchedule ==
  [][\A m \in Notification :
       /\ \E a \in Attempts : queue'["dlq"][m][a] > queue["dlq"][m][a]
       /\ UNCHANGED admin
       /\ Undisturbed(m)
       => tried[m] = Attempts]_vars

-----------------------------------------------------------------------------
(* Refinement                                                              *)

Lifecycle == INSTANCE NotificationLifecycle
  WITH record <- processed,
       disturbed <- {m \in Notification : ~Undisturbed(m)}

\* REFINEMENT: whatever handlers, replays, cancellations and faults do, each
\* notification lives the life of NotificationLifecycle: taken by one schedule
\* at a time, attempts in order, no attempt after an acceptance, failed only
\* when exhausted, released only then (deliver.go:156-279).
ImplementsLifecycle == Lifecycle!Spec

-----------------------------------------------------------------------------
(* Liveness, under FairSpec                                                *)

\* LIVE: an accepted notification that no fault hits ends delivered or failed,
\* even if it was cancelled on the way.
AcceptedIsSettled ==
  \A m \in Notification :
    api[m] = "accepted" ~> (status[m] \in {"delivered", "failed"} \/ fault[m] # {})

\* LIVE: no message circulates for ever: in the end every copy has left the
\* main and retry queues, also replayed and redelivered ones.
CirculationEnds ==
  <>[](\A p \in {"main", "retry"}, m \in Message, a \in Attempts :
         queue[p][m][a] = 0)

-----------------------------------------------------------------------------
(* What comments and the README say, and the code does not do              *)

\* deliver.go:271-272 says that the dedup record is deleted "so that admin DLQ
\* replay can reprocess this notification": without faults a failed
\* notification is still there to replay.
ReplayReprocesses ==
  \A m \in Notification :
    status[m] = "failed" /\ fault[m] = {} => Alive(m)
=============================================================================
