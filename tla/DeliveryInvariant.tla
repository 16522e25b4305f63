------------------------- MODULE DeliveryInvariant --------------------------
(***************************************************************************)
(* The inductive invariant behind the safety properties of Delivery.       *)
(*                                                                         *)
(* A notification is "on schedule" while one of its messages is past the   *)
(* dedup guard and may still be sent or dead-lettered: it waits in a retry *)
(* queue or, with x-attempt > 0, in a main queue, or a handler holds it    *)
(* between Mark and the deletion of the dedup record.  The heart of the    *)
(* invariant is that the dedup record is a lock on the schedule.           *)
(***************************************************************************)
EXTENDS DeliveryProperties

SchedulePC == {"send", "retry", "dlq", "markFailed", "unmark"}
OnSchedule(h, m) == worker[h].msg = m /\ worker[h].pc \in SchedulePC

Levels == 1..MaxAttempts
Waiting(p, m, a) == queue[p][m][a] > 0
WaitingPlace == {"main", "retry"}

\* INV: what each step of a handler holds.
HandlersWellFormed ==
  \A h \in Handler :
    LET w == worker[h] IN
    /\ w.pc = "idle" <=> w.msg = NoMessage
    /\ w.pc = "poison" => w.msg \in Poison
    /\ w.pc \notin {"idle", "poison", "ack"} => w.msg \in Notification
    /\ w.pc = "mark" => w.attempt = 0
    /\ w.pc = "retry" => w.attempt < MaxAttempts
    /\ w.pc \in {"dlq", "markFailed", "unmark"} => w.attempt = MaxAttempts

\* INV: a replay request holds a message from its Get to its ack or nack.
AdminsWellFormed ==
  \A r \in Admin :
    /\ admin[r].pc = "idle" <=> admin[r].msg = NoMessage
    /\ replays = 0 => admin[r].pc = "idle"

\* INV: before Create has inserted a notification, nothing carries it.
NothingBeforeInsert ==
  \A m \in Notification : api[m] = "new" =>
    /\ status[m] = "none"
    /\ accepted[m] = 0
    /\ m \notin processed
    /\ ~Alive(m)

\* INV: a handler marks delivered only what the provider accepted.
AcceptedBeforeDelivered ==
  /\ \A h \in Handler :
       worker[h].pc = "markDelivered" => accepted[worker[h].msg] > 0
  /\ DeliveredWasAccepted

\* INV: the DLQ holds the message before its status becomes failed.
DeadLetteredBeforeFailed ==
  replays = 0 =>
    /\ FailedIsDeadLettered
    /\ \A h \in Handler :
         worker[h].pc = "markFailed" => DeadLettered(worker[h].msg)

\* The dedup record of m is a lock: at most one message of m is on
\* schedule, only while the record exists, and none after an acceptance.
Lock(m) ==
  /\ \A h, g \in Handler : OnSchedule(h, m) /\ OnSchedule(g, m) => h = g
  /\ \A h \in Handler, p \in WaitingPlace, a \in Levels :
       ~(OnSchedule(h, m) /\ Waiting(p, m, a))
  /\ \A p, q \in WaitingPlace, a, b \in Levels :
       Waiting(p, m, a) /\ Waiting(q, m, b) => p = q /\ a = b
  /\ \A p \in WaitingPlace, a \in Levels : queue[p][m][a] <= 1
  /\ \A h \in Handler :
       OnSchedule(h, m) => m \in processed /\ accepted[m] = 0
  /\ \A p \in WaitingPlace, a \in Levels :
       Waiting(p, m, a) => m \in processed /\ accepted[m] = 0
  /\ accepted[m] > 0 => m \in processed
  /\ accepted[m] <= 1

\* INV: the lock holds for every undisturbed notification.
LockInv == \A m \in Notification : Undisturbed(m) => Lock(m)

\* The schedule of m has sent exactly the attempts before the one it waits
\* for or is at.
InOrder(m) ==
  /\ \A h \in Handler :
       OnSchedule(h, m) =>
         tried[m] = IF worker[h].pc = "send" THEN 0..(worker[h].attempt - 1)
                    ELSE 0..worker[h].attempt
  /\ \A p \in WaitingPlace, a \in Levels :
       Waiting(p, m, a) => tried[m] = 0..(a - 1)

\* INV: the schedule of every undisturbed notification is in order.
ScheduleInv == \A m \in Notification : Undisturbed(m) => InOrder(m)

-----------------------------------------------------------------------------
(* Across crashes: what the first schedule of a notification keeps         *)

\* No call about m has failed; workers may have died with it, answers may
\* have been lost.
Unfailed(m) == fault[m] \subseteq {"crash", "answer", "apiCrash"}

\* INV: a cancelled context has left its mark on the message.
CancelledIsAFault ==
  \A h \in Handler :
    worker[h].ctx = "cancelled" =>
      worker[h].msg \in Message /\ "ctx" \in fault[worker[h].msg]

\* INV: the dedup record is deleted after the status has become final.
FinalBeforeUnmark ==
  \A h \in Handler :
    worker[h].pc = "unmark" /\ Unfailed(worker[h].msg)
      => status[worker[h].msg] \in {"failed", "delivered"}

\* h makes the first attempt, the one a crash cannot repeat.
FirstTry(h, m) ==
  /\ worker[h].msg = m /\ worker[h].attempt = 0
  /\ worker[h].pc \in {"send", "markDelivered", "retry"}

\* A copy of m that passes no dedup guard when it is delivered (again).
LaterCopy(m) ==
  \/ \E h \in Handler : worker[h].msg = m /\ worker[h].attempt > 0
  \/ \E p \in WaitingPlace, a \in Levels : Waiting(p, m, a)

\* Something will still bring m to a verdict.
Carried(m) ==
  \/ \E h \in Handler :
       /\ worker[h].msg = m
       /\ worker[h].pc \in {"send", "markDelivered", "retry", "dlq", "markFailed"}
  \/ \E p \in WaitingPlace, a \in Levels : Waiting(p, m, a)

\* The first attempt is made by one handler, under the record, before any
\* retry is published.
OneFirstTry(m) ==
  /\ \A h \in Handler :
       FirstTry(h, m) => m \in processed /\ tried[m] \subseteq {0} /\ ~LaterCopy(m)
  /\ \A h, g \in Handler : FirstTry(h, m) /\ FirstTry(g, m) => h = g
  /\ LaterCopy(m) => m \in processed

\* Until the first verdict there is one schedule, and a crash can lose only
\* its first attempt.
FirstSchedule(m) ==
  /\ OneFirstTry(m)
  /\ m \in processed =>
       Carried(m) \/ ("crash" \in fault[m] /\ tried[m] \subseteq {0})
  /\ m \notin processed /\ api[m] = "accepted" =>
       \/ queue["main"][m][0] > 0
       \/ \E h \in Handler : worker[h].msg = m /\ worker[h].pc = "mark"

\* INV: so it is for every notification without a verdict or a failed call.
FirstScheduleInv ==
  \A m \in Notification :
    Unfailed(m) /\ status[m] \in {"pending", "cancelled"} => FirstSchedule(m)

\* INV: a poison message is somewhere as long as no call about it fails.
PoisonKept ==
  \A m \in Poison :
    api[m] = "accepted" /\ fault[m] \subseteq {"answer", "apiCrash"} =>
      \/ \E p \in Place, a \in Attempts : queue[p][m][a] > 0
      \/ \E h \in Handler : worker[h].msg = m /\ worker[h].pc = "poison"
      \/ \E r \in Admin : admin[r].msg = m /\ admin[r].pc = "publish"

\* Whatever fails: until m is in the DLQ, its record stays, and the first
\* attempt is made once.
FirstAttempt(m) ==
  /\ OneFirstTry(m)
  /\ \A h \in Handler : worker[h].msg = m =>
       /\ worker[h].pc \notin {"markFailed", "unmark"}
       /\ FirstTry(h, m) /\ worker[h].pc = "send" => tried[m] = {}
  /\ m \notin processed => tried[m] = {}
  /\ tried[m] = {} => accepted[m] = 0
  /\ tried[m] \subseteq {0} => accepted[m] <= 1

\* INV: so it is for every notification that was never dead-lettered.
FirstAttemptInv ==
  \A m \in Notification : ~DeadLettered(m) /\ replays = 0 => FirstAttempt(m)

-----------------------------------------------------------------------------
(* Without a fault or a replay: the audit trail                            *)

\* The message of Create has not passed the dedup guard yet.
AtMark(h, m) == worker[h].msg = m /\ worker[h].pc = "mark"
AwaitsGuard(m) ==
  \/ api[m] \in {"new", "inserted"}
  \/ queue["main"][m][0] > 0
  \/ \E h \in Handler : AtMark(h, m)

\* It passes once: there is one such message, and nothing was tried before.
GuardOnce(m) ==
  /\ AwaitsGuard(m) => tried[m] = {} /\ rows[m] = {} /\ m \notin processed
  /\ queue["main"][m][0] <= 1 /\ queue["retry"][m][0] = 0
  /\ \A h, g \in Handler : AtMark(h, m) /\ AtMark(g, m) => h = g
  /\ \A h \in Handler : AtMark(h, m) => ~(queue["main"][m][0] > 0)
  /\ api[m] \in {"new", "inserted"} =>
       ~(queue["main"][m][0] > 0) /\ \A h \in Handler : ~AtMark(h, m)

\* h has sent its attempt and not written the row of it.
Owes(h, m) ==
  /\ worker[h].msg = m
  /\ worker[h].pc \in {"markDelivered", "retry", "dlq", "markFailed", "unmark",
                       "record"}

\* A row that is owed is not there, and is the row of the handler's attempt.
RowsOwed(m) ==
  /\ \A h \in Handler : Owes(h, m) =>
       /\ worker[h].attempt \in tried[m]
       /\ \A r \in rows[m] : r[1] # worker[h].attempt
       /\ worker[h].pc = "markDelivered" => worker[h].outcome = "ok"
       /\ worker[h].pc \notin {"markDelivered", "record"}
            => worker[h].outcome # "ok"
       /\ worker[h].outcome = "ok"
            => accepted[m] > 0 /\ tried[m] = 0..worker[h].attempt
  /\ \A h, g \in Handler :
       Owes(h, m) /\ Owes(g, m) /\ worker[h].attempt = worker[g].attempt
         => h = g

\* Each attempt made has one row, written or owed.
RowsSoFar(m) ==
  /\ \A k \in tried[m] :
       \/ \E r \in rows[m] : r[1] = k
       \/ \E h \in Handler : Owes(h, m) /\ worker[h].attempt = k
  /\ \A r \in rows[m] : r[1] \in tried[m]
  /\ \A r, s \in rows[m] : r[1] = s[1] => r = s

\* The row of a verdict is written or owed, and it is the last one.
VerdictRow(m) ==
  /\ accepted[m] > 0 =>
       \/ \E h \in Handler : Owes(h, m) /\ worker[h].outcome = "ok"
       \/ \E last \in Attempts :
            tried[m] = 0..last /\ <<last, "success">> \in rows[m]
  /\ status[m] = "failed" =>
       /\ tried[m] = Attempts
       /\ \/ \E h \in Handler : /\ Owes(h, m) /\ worker[h].outcome # "ok"
                                /\ worker[h].attempt = MaxAttempts
          \/ <<MaxAttempts, "dlq">> \in rows[m]

Audit(m) == GuardOnce(m) /\ RowsOwed(m) /\ RowsSoFar(m) /\ VerdictRow(m)

\* INV: so it is for every notification that no fault and no replay touched.
AuditInv == \A m \in Notification : fault[m] = {} /\ replays = 0 => Audit(m)

IInv ==
  /\ TypeOK
  /\ HandlersWellFormed
  /\ AdminsWellFormed
  /\ NothingBeforeInsert
  /\ AcceptedBeforeDelivered
  /\ DeadLetteredBeforeFailed
  /\ LockInv
  /\ ScheduleInv
  /\ CancelledIsAFault
  /\ FinalBeforeUnmark
  /\ FirstScheduleInv
  /\ PoisonKept
  /\ FirstAttemptInv
  /\ AuditInv
=============================================================================
