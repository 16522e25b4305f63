------------------------- MODULE DeliveryLockProofs -------------------------
(***************************************************************************)
(* Proofs that rest on the dedup record being a lock: at most one send per *)
(* undisturbed notification, a delivered status that stays, and attempts   *)
(* made in order, each once.  So Delivery implements the lifecycle.        *)
(***************************************************************************)
EXTENDS DeliveryProofs

-----------------------------------------------------------------------------
(* Steps that do not put m on schedule                                     *)

\* What a step that concerns another message, or m off its schedule, does.
Frame(m) ==
  /\ \A h \in Handler : OnSchedule(h, m)' => OnSchedule(h, m)
  /\ \A p \in WaitingPlace, a \in Levels : queue'[p][m][a] <= queue[p][m][a]
  /\ m \in processed => m \in processed'
  /\ accepted'[m] = accepted[m]

LEMMA WaitingFacts ==
  ASSUME NEW m \in Notification, NEW p \in WaitingPlace, NEW a \in Levels
  PROVE  /\ p \in Place /\ p # "dlq" /\ m \in Message
         /\ a \in Attempts /\ a \in Nat /\ a > 0
         /\ QueueType => queue[p][m][a] \in Nat
         /\ QueueType' => queue'[p][m][a] \in Nat
<1>1. p \in Place /\ p # "dlq" /\ m \in Message
  BY DEF WaitingPlace, Place, Message
<1>2. a \in Attempts /\ a \in Nat /\ a > 0
  BY ConstantsAssumption DEF Levels, Attempts
<1> QED
  BY <1>1, <1>2 DEF QueueType

LEMMA FrameKeepsLock ==
  ASSUME QueueType, QueueType', NEW m \in Notification, Lock(m), Frame(m)
  PROVE  Lock(m)'
<1>1. \A p \in WaitingPlace, a \in Levels :
         queue[p][m][a] \in Nat /\ queue'[p][m][a] \in Nat
  BY WaitingFacts
<1>2. \A p \in WaitingPlace, a \in Levels : Waiting(p, m, a)' => Waiting(p, m, a)
  BY <1>1 DEF Waiting, Frame
<1>3. \A p \in WaitingPlace, a \in Levels : queue'[p][m][a] <= 1
  BY <1>1 DEF Lock, Frame
<1> HIDE DEF Waiting, OnSchedule
<1> QED
  BY <1>2, <1>3 DEF Lock, Frame

\* An undisturbed notification was undisturbed before.
LEMMA UndisturbedBefore ==
  ASSUME Shape, [Next]_vars, NEW m \in Notification, Undisturbed(m)'
  PROVE  Undisturbed(m)
<1>1. CASE NoFault
  BY <1>1 DEF NoFault, Undisturbed
<1>2. CASE \E ms : \E k \in AllFaultKinds : Fault(k, ms)
  BY <1>2, FaultEffect, ShapeParts DEF Undisturbed, Message
<1> QED
  BY <1>1, <1>2, FaultStep

\* A handler's step leaves the other handlers alone.
LEMMA OtherHandlers ==
  ASSUME Shape, NEW h \in Handler, Handle(h), NEW g \in Handler, g # h
  PROVE  worker'[g] = worker[g]
  BY ShapeParts
  DEF Handle, HandlePoison, Mark, Send, MarkDelivered, PublishRetry, PublishDLQ,
      MarkFailed, Unmark, Record, Ack, Nack, Settle, Goto, WorkerType,
      HandlerShape

\* A publish to the DLQ, or at attempt 0, puts nothing on schedule.
LEMMA OffScheduleEnqueue ==
  ASSUME Shape, NEW p \in Place, NEW n \in Message, NEW a \in Attempts,
         MaybeEnqueue(p, n, a), NEW m \in Notification,
         p = "dlq" \/ a = 0 \/ n # m
  PROVE  \A q \in WaitingPlace, b \in Levels : queue'[q][m][b] <= queue[q][m][b]
<1> SUFFICES ASSUME NEW q \in WaitingPlace, NEW b \in Levels
             PROVE  queue'[q][m][b] <= queue[q][m][b]
  OBVIOUS
<1>1. /\ q \in Place /\ q # "dlq" /\ b \in Attempts /\ b > 0 /\ m \in Message
      /\ queue[q][m][b] \in Nat
  BY WaitingFacts, ShapeParts
<1> QED
  BY <1>1, MaybeEnqueueEffect, ShapeParts

-----------------------------------------------------------------------------
(* The lock is kept by every step                                          *)

LEMMA ExpireKeepsLock ==
  ASSUME Shape, NEW m \in Notification, Lock(m),
         NEW n \in Message, NEW a \in Attempts, Expire(n, a)
  PROVE  Lock(m)'
<1> USE ShapeParts
<1>1. /\ UNCHANGED <<worker, processed, accepted>>
      /\ \A h \in Handler : OnSchedule(h, m)' <=> OnSchedule(h, m)
  BY DEF Expire, OnSchedule
<1>2. \A p \in WaitingPlace, b \in Levels :
        /\ p \in Place /\ b \in Attempts /\ b > 0 /\ queue[p][m][b] \in Nat
  BY WaitingFacts
<1>3. m \in Message /\ "retry" \in WaitingPlace /\ "main" \in WaitingPlace
  BY DEF Message, WaitingPlace
<1>4. CASE n # m \/ a = 0
  <2>1. \A p \in WaitingPlace, b \in Levels : queue'[p][m][b] = queue[p][m][b]
    BY <1>2, <1>3, <1>4, ExpireEffect
  <2>2. Frame(m)
    BY <1>1, <1>2, <2>1 DEF Frame
  <2> QED
    BY <2>2, FrameKeepsLock, ExpireEffect
<1>5. CASE n = m /\ a # 0
  <2>1. a \in Levels /\ Waiting("retry", m, a)
    BY <1>5, ExpireEffect, ConstantsAssumption DEF Levels, Attempts, Waiting
  <2>2. /\ \A h \in Handler : ~OnSchedule(h, m)
        /\ \A p \in WaitingPlace, b \in Levels :
             Waiting(p, m, b) => p = "retry" /\ b = a
        /\ m \in processed /\ accepted[m] = 0
        /\ queue["retry"][m][a] = 1
    BY <2>1, <1>2, <1>3 DEF Lock, Waiting
  <2>3. \A p \in WaitingPlace, b \in Levels :
          queue'[p][m][b] = IF p = "main" /\ b = a THEN 1 ELSE 0
    <3> TAKE p \in WaitingPlace, b \in Levels
    <3>1. p \in {"main", "retry"}
      BY DEF WaitingPlace
    <3>2. queue[p][m][b] = IF p = "retry" /\ b = a THEN 1 ELSE 0
      BY <2>2, <1>2 DEF Waiting
    <3> QED
      BY <3>1, <3>2, <1>2, <1>3, <1>5, ExpireEffect
  <2> QED
    BY <1>1, <2>2, <2>3 DEF Lock, Waiting
<1> QED
  BY <1>4, <1>5

LEMMA DeliverKeepsLock ==
  ASSUME Shape, NEW m \in Notification, Lock(m), NEW h \in Handler,
         NEW n \in Message, NEW a \in Attempts, Deliver(h, n, a)
  PROVE  Lock(m)'
<1> USE ShapeParts DEF HandlerShape
<1>1. /\ UNCHANGED <<processed, accepted>>
      /\ Dequeue("main", n, a)
      /\ worker[h].pc = "idle"
  BY DEF Deliver, At
<1>2. /\ worker'[h].msg = n
      /\ worker'[h].pc = FirstStep(n, a)
      /\ \A g \in Handler : g # h => worker'[g] = worker[g]
  BY DEF Deliver, WorkerType, IdleHandler
<1>3. \A p \in WaitingPlace, b \in Levels :
        /\ p \in Place /\ b \in Attempts /\ b > 0 /\ queue[p][m][b] \in Nat
  BY WaitingFacts
<1>4. m \in Message /\ "main" \in WaitingPlace /\ "main" \in Place
  BY DEF Message, WaitingPlace, Place
<1>5. \A p \in WaitingPlace, b \in Levels :
        queue'[p][m][b] = IF p = "main" /\ n = m /\ b = a
                          THEN queue[p][m][b] - 1 ELSE queue[p][m][b]
  BY <1>1, <1>3, <1>4, DequeueEffect
<1>6. QueueType'
  BY <1>1, <1>4, DequeueEffect
<1>7. CASE n # m \/ a = 0
  <2>1. ~OnSchedule(h, m)'
    BY <1>2, <1>7 DEF OnSchedule, SchedulePC, FirstStep
  <2>2. \A g \in Handler : OnSchedule(g, m)' => OnSchedule(g, m)
    BY <1>2, <2>1 DEF OnSchedule
  <2>3. Frame(m)
    BY <1>1, <1>3, <1>5, <2>2 DEF Frame
  <2> QED
    BY <2>3, <1>6, FrameKeepsLock
<1>8. CASE n = m /\ a # 0
  <2>1. a \in Levels /\ Waiting("main", m, a)
    BY <1>1, <1>4, <1>8, DequeueEffect, ConstantsAssumption
    DEF Levels, Attempts, Waiting
  <2>2. /\ \A g \in Handler : ~OnSchedule(g, m)
        /\ \A p \in WaitingPlace, b \in Levels :
             Waiting(p, m, b) => p = "main" /\ b = a
        /\ m \in processed /\ accepted[m] = 0
        /\ queue["main"][m][a] = 1
    BY <2>1, <1>3, <1>4 DEF Lock, Waiting
  <2>3. \A p \in WaitingPlace, b \in Levels : queue'[p][m][b] = 0
    <3> TAKE p \in WaitingPlace, b \in Levels
    <3>1. queue[p][m][b] = IF p = "main" /\ b = a THEN 1 ELSE 0
      BY <2>2, <1>3 DEF Waiting
    <3> QED
      BY <3>1, <1>5, <1>8
  <2>4. \A g \in Handler : OnSchedule(g, m)' => g = h
    BY <1>2, <2>2 DEF OnSchedule
  <2> QED
    BY <1>1, <2>2, <2>3, <2>4 DEF Lock, Waiting
<1> QED
  BY <1>7, <1>8

\* The handler's own step, when its message is another one.
LEMMA ForeignHandleKeepsLock ==
  ASSUME Shape, QueueType', NEW m \in Notification, Lock(m), NEW h \in Handler,
         Handle(h), worker[h].msg # m
  PROVE  Lock(m)'
<1> USE ShapeParts DEF HandlerShape
<1> DEFINE n == worker[h].msg
<1>1. \A g \in Handler : OnSchedule(g, m)' => OnSchedule(g, m)
  <2>1. ~OnSchedule(h, m)'
    BY HandleStep DEF OnSchedule, IdleHandler, SchedulePC
  <2> QED
    BY <2>1, OtherHandlers DEF OnSchedule
<1>2. m \in processed => m \in processed'
  BY DEF Handle, HandlePoison, Mark, Send, MarkDelivered, PublishRetry,
         PublishDLQ, MarkFailed, Unmark, Record, Ack, Nack, Settle
<1>3. accepted'[m] = accepted[m]
  <2>1. accepted' \in {accepted, [accepted EXCEPT ![n] = @ + 1]}
    BY DEF Handle, HandlePoison, Mark, Send, MarkDelivered, PublishRetry,
           PublishDLQ, MarkFailed, Unmark, Record, Ack, Nack, Settle
  <2> QED
    BY <2>1 DEF DataType
<1>4. \A p \in WaitingPlace, a \in Levels : queue'[p][m][a] <= queue[p][m][a]
  <2>1. CASE UNCHANGED queue
    BY <2>1, WaitingFacts
  <2>2. CASE HandlePoison(h) \/ PublishRetry(h) \/ PublishDLQ(h)
    <3>1. n \in Message
      BY <2>2 DEF HandlePoison, PublishRetry, PublishDLQ, At, HandlersWellFormed,
                  Message
    <3>2. worker[h].attempt \in Attempts
      BY DEF WorkerType, HandlerRec
    <3>3. PublishRetry(h) => worker[h].attempt + 1 \in Attempts
      BY <3>2, ConstantsAssumption
      DEF PublishRetry, At, HandlersWellFormed, Attempts
    <3>4. \E p \in Place, a \in Attempts : MaybeEnqueue(p, n, a)
      BY <2>2, <3>2, <3>3
      DEF HandlePoison, PublishRetry, PublishDLQ, MaybeEnqueue, Place
    <3> QED
      BY <3>1, <3>4, OffScheduleEnqueue
  <2> QED
    BY <2>1, <2>2
    DEF Handle, Mark, Send, MarkDelivered, MarkFailed, Unmark, Record, Ack, Nack,
        Settle
<1> QED
  BY <1>1, <1>2, <1>3, <1>4, FrameKeepsLock DEF Frame

LEMMA MarkKeepsLock ==
  ASSUME Shape, QueueType', NEW m \in Notification, Lock(m), NEW h \in Handler,
         Mark(h), worker[h].msg = m
  PROVE  Lock(m)'
<1> USE ShapeParts DEF HandlerShape
<1>1. /\ UNCHANGED <<queue, accepted>>
      /\ \A g \in Handler : g # h => worker'[g] = worker[g]
      /\ worker[h].pc = "mark"
  BY OtherHandlers DEF Mark, Handle, At
<1>2. \A g \in Handler : g # h => (OnSchedule(g, m)' <=> OnSchedule(g, m))
  BY <1>1 DEF OnSchedule
<1>3. CASE m \notin processed /\ processed' = processed \cup {m}
  <2>1. /\ \A g \in Handler : ~OnSchedule(g, m)
        /\ \A p \in WaitingPlace, a \in Levels : ~Waiting(p, m, a)
        /\ accepted[m] = 0
    BY <1>3 DEF Lock, DataType
  <2>2. /\ \A g \in Handler : OnSchedule(g, m)' => g = h
        /\ \A p \in WaitingPlace, a \in Levels : ~Waiting(p, m, a)'
    BY <1>1, <1>2, <2>1 DEF Waiting
  <2>3. \A p \in WaitingPlace, a \in Levels : queue'[p][m][a] <= 1
    BY <1>1 DEF Lock
  <2> QED
    BY <1>1, <1>3, <2>1, <2>2, <2>3 DEF Lock
<1>4. CASE ~OnSchedule(h, m)'
  <2>1. \A p \in WaitingPlace, a \in Levels : queue'[p][m][a] <= queue[p][m][a]
    BY <1>1, WaitingFacts
  <2>2. m \in processed => m \in processed'
    BY DEF Mark
  <2>3. Frame(m)
    BY <1>1, <1>2, <1>4, <2>1, <2>2 DEF Frame
  <2> QED
    BY <2>3, FrameKeepsLock
<1>5. \/ m \notin processed /\ processed' = processed \cup {m}
      \/ Goto(h, "ack") \/ Goto(h, "nack")
  BY DEF Mark
<1>6. Goto(h, "ack") \/ Goto(h, "nack") => ~OnSchedule(h, m)'
  BY GotoEffect DEF OnSchedule, SchedulePC, HandlerPC
<1> QED
  BY <1>3, <1>4, <1>5, <1>6

LEMMA SendKeepsLock ==
  ASSUME Shape, QueueType', NEW m \in Notification, Lock(m), NEW h \in Handler,
         Send(h), worker[h].msg = m, Undisturbed(m)'
  PROVE  Lock(m)'
<1> USE ShapeParts DEF HandlerShape
<1>1. /\ UNCHANGED <<queue, processed>>
      /\ \A g \in Handler : g # h => worker'[g] = worker[g]
      /\ worker[h].pc = "send"
      /\ OnSchedule(h, m)
  BY OtherHandlers DEF Send, Handle, At, OnSchedule, SchedulePC
<1>2. \A g \in Handler : g # h => (OnSchedule(g, m)' <=> OnSchedule(g, m))
  BY <1>1 DEF OnSchedule
<1>3. /\ m \in processed /\ accepted[m] = 0
      /\ \A g \in Handler : OnSchedule(g, m) => g = h
      /\ \A p \in WaitingPlace, a \in Levels : ~Waiting(p, m, a)
  BY <1>1 DEF Lock
<1>4. \A p \in WaitingPlace, a \in Levels : queue'[p][m][a] <= queue[p][m][a]
  BY <1>1, WaitingFacts
<1>5. CASE UNCHANGED accepted
  BY <1>1, <1>2, <1>4, <1>5, FrameKeepsLock DEF Frame
<1>6. CASE accepted' = [accepted EXCEPT ![m] = @ + 1]
           /\ worker'[h].pc \notin SchedulePC
  <2>1. accepted'[m] = 1
    BY <1>3, <1>6 DEF DataType
  <2>2. \A g \in Handler : ~OnSchedule(g, m)'
    BY <1>2, <1>3, <1>6 DEF OnSchedule
  <2>3. \A p \in WaitingPlace, a \in Levels : ~Waiting(p, m, a)'
    BY <1>1, <1>3 DEF Waiting
  <2>4. \A p \in WaitingPlace, a \in Levels : queue'[p][m][a] <= 1
    BY <1>1 DEF Lock
  <2> QED
    BY <1>1, <1>3, <2>1, <2>2, <2>3, <2>4 DEF Lock
<1>7. ~Fault("answer", {m})
  <2>1. "answer" \in AllFaultKinds /\ m \in Message
    BY DEF AllFaultKinds, Message
  <2>2. Fault("answer", {m}) => fault'[m] = fault[m] \cup {"answer"}
    BY <2>1, FaultEffect
  <2> QED
    BY <2>2 DEF Undisturbed
<1>8. worker[h].ctx \in {"live", "cancelled"} /\ worker[h] \in HandlerRec
  BY DEF WorkerType, HandlerRec
<1>9. \/ UNCHANGED accepted
      \/ accepted' = [accepted EXCEPT ![m] = @ + 1]
         /\ worker'[h].pc \in {"markDelivered", "nack"}
  BY <1>7, <1>8 DEF Send, WorkerType, HandlerRec
<1> QED
  BY <1>5, <1>6, <1>9 DEF SchedulePC

LEMMA PublishRetryKeepsLock ==
  ASSUME Shape, QueueType', NEW m \in Notification, Lock(m), NEW h \in Handler,
         PublishRetry(h), worker[h].msg = m
  PROVE  Lock(m)'
<1> USE ShapeParts DEF HandlerShape
<1> DEFINE level == worker[h].attempt + 1
<1>1. /\ UNCHANGED <<processed, accepted>>
      /\ \A g \in Handler : g # h => worker'[g] = worker[g]
      /\ worker[h].pc = "retry"
      /\ OnSchedule(h, m)
  BY OtherHandlers DEF PublishRetry, Handle, At, OnSchedule, SchedulePC
<1>2. ~OnSchedule(h, m)'
  <2>1. Goto(h, "record") \/ Goto(h, "nack")
    BY DEF PublishRetry
  <2> QED
    BY <2>1, GotoEffect DEF OnSchedule, SchedulePC, HandlerPC
<1>3. /\ m \in processed /\ accepted[m] = 0
      /\ \A g \in Handler : OnSchedule(g, m) => g = h
      /\ \A p \in WaitingPlace, a \in Levels : ~Waiting(p, m, a)
  BY <1>1 DEF Lock
<1>4. \A g \in Handler : ~OnSchedule(g, m)'
  BY <1>1, <1>2, <1>3 DEF OnSchedule
<1>5. /\ level \in Levels /\ level \in Attempts
  <2>1. worker[h].attempt \in Attempts /\ worker[h].attempt < MaxAttempts
    BY <1>1 DEF WorkerType, HandlerRec, HandlersWellFormed
  <2> QED
    BY <2>1, ConstantsAssumption DEF Attempts, Levels
<1>6. MaybeEnqueue("retry", m, level)
  BY DEF PublishRetry, MaybeEnqueue
<1>7. \A p \in WaitingPlace, a \in Levels :
        /\ queue'[p][m][a] <= 1
        /\ Waiting(p, m, a)' => p = "retry" /\ a = level
  <2> TAKE p \in WaitingPlace, a \in Levels
  <2>1. queue[p][m][a] = 0
    BY <1>3, WaitingFacts DEF Waiting
  <2>2. p \in Place /\ m \in Message /\ a \in Attempts /\ "retry" \in Place
    BY WaitingFacts DEF Place
  <2> HIDE DEF level
  <2>3. \/ queue'[p][m][a] = 0
        \/ queue'[p][m][a] = 1 /\ p = "retry" /\ a = level
    <3>1. CASE UNCHANGED queue
      BY <2>1, <3>1
    <3>2. CASE \A q \in Place, n \in Message, b \in Attempts :
                 queue'[q][n][b] = IF q = "retry" /\ n = m /\ b = level
                                   THEN queue[q][n][b] + 1 ELSE queue[q][n][b]
      BY <2>1, <2>2, <3>2
    <3> QED
      BY <3>1, <3>2, <2>2, <1>5, <1>6, MaybeEnqueueEffect
  <2> QED
    BY <2>3 DEF Waiting
<1> HIDE DEF level
<1> QED
  BY <1>1, <1>3, <1>4, <1>7 DEF Lock

LEMMA UnmarkKeepsLock ==
  ASSUME Shape, QueueType', NEW m \in Notification, Lock(m), NEW h \in Handler,
         Unmark(h), worker[h].msg = m
  PROVE  Lock(m)'
<1> USE ShapeParts DEF HandlerShape
<1>1. /\ UNCHANGED <<queue, accepted>>
      /\ \A g \in Handler : g # h => worker'[g] = worker[g]
      /\ OnSchedule(h, m)
  BY OtherHandlers DEF Unmark, Handle, At, OnSchedule, SchedulePC
<1>2. ~OnSchedule(h, m)'
  BY GotoEffect DEF Unmark, OnSchedule, SchedulePC, HandlerPC
<1>3. /\ accepted[m] = 0
      /\ \A g \in Handler : OnSchedule(g, m) => g = h
      /\ \A p \in WaitingPlace, a \in Levels : ~Waiting(p, m, a)
  BY <1>1 DEF Lock
<1>4. \A g \in Handler : ~OnSchedule(g, m)'
  BY <1>1, <1>2, <1>3 DEF OnSchedule
<1>5. \A p \in WaitingPlace, a \in Levels : ~Waiting(p, m, a)' /\ queue'[p][m][a] <= 1
  BY <1>1, <1>3 DEF Waiting, Lock
<1> QED
  BY <1>1, <1>3, <1>4, <1>5 DEF Lock

\* The handler's other steps put nothing on schedule.
LEMMA OtherHandleKeepsLock ==
  ASSUME Shape, QueueType', NEW m \in Notification, Lock(m), NEW h \in Handler,
         worker[h].msg = m, Handle(h),
         ~Mark(h), ~Send(h), ~PublishRetry(h), ~Unmark(h)
  PROVE  Lock(m)'
<1> USE ShapeParts DEF HandlerShape
<1>1. UNCHANGED <<processed, accepted>>
  BY DEF Handle, HandlePoison, MarkDelivered, PublishDLQ, MarkFailed, Record,
         Ack, Nack, Settle
<1>2. \A g \in Handler : OnSchedule(g, m)' => OnSchedule(g, m)
  <2>1. ASSUME OnSchedule(h, m)' PROVE OnSchedule(h, m)
    <3>1. CASE PublishDLQ(h) \/ MarkFailed(h)
      BY <3>1 DEF PublishDLQ, MarkFailed, At, OnSchedule, SchedulePC
    <3>2. CASE HandlePoison(h) \/ MarkDelivered(h) \/ Record(h)
      <4>1. \E pc \in {"ack", "nack", "record"} : Goto(h, pc)
        BY <3>2 DEF HandlePoison, MarkDelivered, Record
      <4>2. worker'[h].pc \in {"ack", "nack", "record"}
        BY <4>1, GotoEffect DEF HandlerPC
      <4> QED
        BY <2>1, <4>2 DEF OnSchedule, SchedulePC
    <3>3. CASE Ack(h) \/ Nack(h)
      <4>1. worker'[h].pc = "idle"
        BY <3>3 DEF Ack, Nack, Settle, IdleHandler, WorkerType
      <4> QED
        BY <2>1, <4>1 DEF OnSchedule, SchedulePC
    <3> QED
      BY <3>1, <3>2, <3>3 DEF Handle
  <2> QED
    BY <2>1, OtherHandlers DEF OnSchedule
<1>3. \A p \in WaitingPlace, a \in Levels : queue'[p][m][a] <= queue[p][m][a]
  <2>1. CASE UNCHANGED queue
    BY <2>1, WaitingFacts
  <2>2. CASE HandlePoison(h) \/ PublishDLQ(h)
    <3>1. worker[h].attempt \in Attempts /\ m \in Message /\ "dlq" \in Place
      BY DEF WorkerType, HandlerRec, Message, Place
    <3>2. MaybeEnqueue("dlq", m, worker[h].attempt)
      BY <2>2 DEF HandlePoison, PublishDLQ, MaybeEnqueue
    <3> QED
      BY <3>1, <3>2, OffScheduleEnqueue
  <2> QED
    BY <2>1, <2>2
    DEF Handle, MarkDelivered, MarkFailed, Record, Ack, Nack, Settle
<1> QED
  BY <1>1, <1>2, <1>3, FrameKeepsLock DEF Frame

LEMMA HandleKeepsLock ==
  ASSUME Shape, QueueType', NEW m \in Notification, Lock(m), NEW h \in Handler,
         Handle(h), Undisturbed(m)'
  PROVE  Lock(m)'
  BY ForeignHandleKeepsLock, MarkKeepsLock, SendKeepsLock,
     PublishRetryKeepsLock, UnmarkKeepsLock, OtherHandleKeepsLock

\* The API, an admin, a shutdown, and a crash that m survives.
LEMMA OutsideKeepsLock ==
  ASSUME Shape, QueueType', NEW m \in Notification, Lock(m), Undisturbed(m)',
         Client \/ (\E r \in Admin : Replay(r)) \/ Disaster
  PROVE  Lock(m)'
<1> USE ShapeParts DEF HandlerShape, AdminShape
<1>1. UNCHANGED <<processed, accepted>>
  BY DEF Client, Insert, PublishMain, Cancel, PublishPoison, Replay, ReplayGet,
         ReplayPublish, ReplayAck, ReplayNack, ReplaySettle, Disaster,
         CancelContext, Crash, AdminCrash
<1>2. \A g \in Handler : OnSchedule(g, m)' => OnSchedule(g, m)
  <2>1. CASE UNCHANGED worker
    BY <2>1 DEF OnSchedule
  <2>2. CASE CancelContext
    <3>1. ASSUME NEW g \in Handler
          PROVE  worker'[g].pc = worker[g].pc /\ worker'[g].msg = worker[g].msg
      <4>1. \/ worker'[g] = worker[g]
            \/ worker'[g] = [worker[g] EXCEPT !.ctx = "cancelled"]
        BY <2>2 DEF CancelContext
      <4> QED
        BY <4>1 DEF WorkerType, HandlerRec
    <3> QED
      BY <3>1 DEF OnSchedule
  <2>3. CASE \E H \in SUBSET Handler : Crash(H)
    BY <2>3 DEF Crash, OnSchedule, IdleHandler, SchedulePC
  <2> QED
    BY <2>1, <2>2, <2>3
    DEF Client, Insert, PublishMain, Cancel, PublishPoison, Replay, ReplayGet,
        ReplayPublish, ReplayAck, ReplayNack, ReplaySettle, Disaster, AdminCrash
<1>3. \A p \in WaitingPlace, a \in Levels : queue'[p][m][a] <= queue[p][m][a]
  <2>1. CASE UNCHANGED queue
    BY <2>1, WaitingFacts
  <2>2. CASE Client
    <3>1. UNCHANGED queue \/ \E n \in Message : MaybeEnqueue("main", n, 0)
      BY <2>2 DEF Client, Insert, PublishMain, Cancel, PublishPoison,
                  MaybeEnqueue, Message
    <3>2. "main" \in Place /\ 0 \in Attempts
      BY ConstantsAssumption DEF Place, Attempts
    <3> QED
      BY <2>1, <3>1, <3>2, OffScheduleEnqueue
  <2>3. ASSUME NEW r \in Admin, ReplayPublish(r) \/ AdminCrash(r)
        PROVE  \A p \in WaitingPlace, a \in Levels :
                 queue'[p][m][a] <= queue[p][m][a]
    <3>1. admin[r].msg \in Message /\ admin[r].attempt \in Attempts
      BY <2>3 DEF ReplayPublish, AdminCrash, AdminsWellFormed, AdminRec
    <3>2. \/ MaybeEnqueue("main", admin[r].msg, 0)
          \/ MaybeEnqueue("dlq", admin[r].msg, admin[r].attempt)
      BY <2>3 DEF ReplayPublish, AdminCrash, MaybeEnqueue
    <3>3. "main" \in Place /\ "dlq" \in Place /\ 0 \in Attempts
      BY ConstantsAssumption DEF Place, Attempts
    <3> QED
      BY <3>1, <3>2, <3>3, OffScheduleEnqueue
  <2>4. ASSUME NEW r \in Admin, NEW n \in Message, NEW b \in Attempts,
               ReplayGet(r, n, b)
        PROVE  \A p \in WaitingPlace, a \in Levels :
                 queue'[p][m][a] <= queue[p][m][a]
    <3>1. Dequeue("dlq", n, b) /\ "dlq" \in Place
      BY <2>4 DEF ReplayGet, Place
    <3>2. \A q \in Place, l \in Message, c \in Attempts :
            q # "dlq" => queue'[q][l][c] = queue[q][l][c]
      BY <3>1, DequeueEffect
    <3> QED
      BY <3>2, WaitingFacts
  <2>5. ASSUME NEW H \in SUBSET Handler, Crash(H)
        PROVE  \A p \in WaitingPlace, a \in Levels :
                 queue'[p][m][a] <= queue[p][m][a]
    <3>1. "crash" \in AllFaultKinds /\ m \in Message
      BY DEF AllFaultKinds, Message
    <3>2. m \notin {worker[h].msg : h \in Busy(H)}
      BY <2>5, <3>1, FaultEffect DEF Crash, Undisturbed
    <3>3. \A p \in Place, a \in Attempts : queue'[p][m][a] = queue[p][m][a]
      BY <2>5, <3>1, <3>2, CrashEffect
    <3> QED
      BY <3>3, WaitingFacts
  <2>6. CASE \E r \in Admin : Replay(r)
    BY <2>1, <2>3, <2>4, <2>6 DEF Replay, ReplayAck, ReplayNack, ReplaySettle
  <2>7. CASE Disaster
    BY <2>1, <2>3, <2>5, <2>7 DEF Disaster, CancelContext
  <2> QED
    BY <2>2, <2>6, <2>7
<1> QED
  BY <1>1, <1>2, <1>3, FrameKeepsLock DEF Frame

LEMMA NextLockInv == Shape /\ LockInv /\ [Next]_vars => LockInv'
<1> SUFFICES ASSUME Shape, LockInv, [Next]_vars,
                    NEW m \in Notification, Undisturbed(m)'
             PROVE  Lock(m)'
  BY DEF LockInv
<1>1. Lock(m)
  BY UndisturbedBefore DEF LockInv
<1>2. QueueType'
  BY NextQueueType, ShapeParts
<1>3. CASE Broker
  BY <1>1, <1>3, ExpireKeepsLock, DeliverKeepsLock DEF Broker
<1>4. CASE \E h \in Handler : Handle(h)
  BY <1>1, <1>2, <1>4, HandleKeepsLock
<1>5. CASE Client \/ (\E r \in Admin : Replay(r)) \/ Disaster
  BY <1>1, <1>2, <1>5, OutsideKeepsLock
<1>6. CASE UNCHANGED vars
  BY <1>1, <1>6 DEF vars, Lock, OnSchedule, Waiting
<1> QED
  BY <1>3, <1>4, <1>5, <1>6 DEF Next

LEMMA InitLockInv == Init => LockInv
<1> SUFFICES ASSUME Init, NEW m \in Notification PROVE Lock(m)
  BY DEF LockInv
<1>1. \A p \in WaitingPlace, a \in Levels : queue[p][m][a] = 0
  BY WaitingFacts DEF Init
<1>2. \A h \in Handler : ~OnSchedule(h, m)
  BY DEF Init, OnSchedule, IdleHandler, SchedulePC
<1>3. accepted[m] = 0
  BY DEF Init
<1> QED
  BY <1>1, <1>2, <1>3 DEF Lock, Waiting

LEMMA LockAlways == Spec => [](Shape /\ LockInv)
  BY InitShape, NextShape, InitLockInv, NextLockInv, PTL DEF Spec

-----------------------------------------------------------------------------
(* What the lock gives                                                     *)

\* The provider accepts a notification at most once unless a worker crashed
\* with it or an answer about it was lost, for every number of handlers,
\* replays, duplicates from crashed replays, cancellations and failed calls.
THEOREM SendOnceHolds == Spec => []SendOnce
<1>1. LockInv => SendOnce
  BY DEF LockInv, SendOnce, Lock
<1> QED
  BY <1>1, LockAlways, PTL

\* The status delivered is final for such a notification, although the
\* UPDATE behind it has no guard.
THEOREM DeliveredIsFinalHolds == Spec => DeliveredIsFinal
<1>1. ASSUME Shape, LockInv, AcceptedBeforeDelivered, [Next]_vars,
             NEW m \in Notification, status[m] = "delivered", Undisturbed(m)
      PROVE  status'[m] = "delivered"
  <2>1. accepted[m] > 0
    BY <1>1 DEF AcceptedBeforeDelivered, DeliveredWasAccepted
  <2>2. Lock(m)
    BY <1>1 DEF LockInv
  <2>3. ~\E h \in Handler : worker[h].msg = m /\ MarkFailed(h)
    <3>1. \A h \in Handler : ~OnSchedule(h, m)
      BY <2>1, <2>2 DEF Lock
    <3> QED
      BY <3>1 DEF OnSchedule, SchedulePC, MarkFailed, At
  <2>4. ~Cancel(m) /\ ~Insert(m)
    BY <1>1 DEF Cancel, Insert
  <2> QED
    BY <1>1, <2>3, <2>4, StatusStep
<1>2. Shape /\ LockInv /\ AcceptedBeforeDelivered /\ [Next]_vars
      => [\A m \in Notification :
            status[m] = "delivered" /\ Undisturbed(m)
              => status'[m] = "delivered"]_vars
  BY <1>1
<1> QED
  BY <1>2, LockAlways, AcceptedAlways, PTL DEF Spec, DeliveredIsFinal

-----------------------------------------------------------------------------
(* How a message comes on schedule, and who changes its history            *)

\* Mark makes the dedup record of m and begins a schedule.
Takes(h, m) ==
  /\ Mark(h) /\ worker[h].msg = m /\ m \notin processed
  /\ m \in processed' /\ tried'[m] = {}

\* The attempts made since the record change only in Mark and in Send.
LEMMA TriedStep ==
  ASSUME Shape, [Next]_vars, NEW m \in Notification, tried'[m] # tried[m]
  PROVE  \E h \in Handler :
           \/ Takes(h, m)
           \/ /\ Send(h) /\ worker[h].msg = m
              /\ tried'[m] = tried[m] \cup {worker[h].attempt}
<1> USE ShapeParts DEF DataType
<1>1. PICK h \in Handler : Mark(h) \/ Send(h)
  BY DEF Next, Client, Insert, PublishMain, Cancel, PublishPoison, Broker,
         Expire, Deliver, Handle, HandlePoison, MarkDelivered, PublishRetry,
         PublishDLQ, MarkFailed, Unmark, Record, Ack, Nack, Settle, Replay,
         ReplayGet, ReplayPublish, ReplayAck, ReplayNack, ReplaySettle,
         Disaster, CancelContext, Crash, AdminCrash, vars
<1>2. CASE Send(h)
  <2>1. tried' = [tried EXCEPT ![worker[h].msg] = @ \cup {worker[h].attempt}]
    BY <1>2 DEF Send
  <2> QED
    BY <1>2, <2>1
<1>3. CASE Mark(h)
  <2>1. /\ worker[h].msg \notin processed
        /\ processed' = processed \cup {worker[h].msg}
        /\ tried' = [tried EXCEPT ![worker[h].msg] = {}]
    BY <1>3 DEF Mark
  <2>2. worker[h].msg = m
    BY <2>1
  <2> QED
    BY <1>3, <2>1, <2>2 DEF Takes
<1> QED
  BY <1>1, <1>2, <1>3

\* A handler that is on schedule after a step was so before, at the same
\* attempt, or the step brings m there.
LEMMA IntoSchedule ==
  ASSUME Shape, [Next]_vars, NEW h \in Handler, NEW m \in Notification,
         OnSchedule(h, m)'
  PROVE  \/ /\ OnSchedule(h, m)
            /\ worker'[h].attempt = worker[h].attempt
            /\ worker'[h].pc = "send" <=> worker[h].pc = "send"
         \/ \E a \in Levels : /\ Waiting("main", m, a)
                              /\ worker'[h].pc = "send"
                              /\ worker'[h].attempt = a
         \/ /\ Takes(h, m)
            /\ worker'[h].pc = "send"
            /\ worker'[h].attempt = 0
         \/ /\ Send(h) /\ OnSchedule(h, m) /\ worker[h].pc = "send"
            /\ worker'[h].pc # "send"
            /\ worker'[h].attempt = worker[h].attempt
<1> USE ShapeParts DEF HandlerShape
<1>1. CASE worker'[h] = worker[h]
  BY <1>1 DEF OnSchedule
<1>2. CASE worker'[h] = [worker[h] EXCEPT !.ctx = "cancelled"]
  BY <1>2 DEF OnSchedule, WorkerType, HandlerRec
<1>3. CASE worker'[h] = IdleHandler
  BY <1>3 DEF IdleHandler, OnSchedule, SchedulePC
<1>4. ASSUME NEW n \in Message, NEW a \in Attempts, Deliver(h, n, a)
      PROVE  /\ a \in Levels /\ Waiting("main", m, a)
             /\ worker'[h].pc = "send" /\ worker'[h].attempt = a
  <2>1. /\ worker'[h].msg = n /\ worker'[h].attempt = a
        /\ worker'[h].pc = FirstStep(n, a)
    BY <1>4 DEF Deliver, WorkerType, IdleHandler
  <2>2. n = m /\ worker'[h].pc = "send" /\ a # 0
    BY <2>1 DEF OnSchedule, SchedulePC, FirstStep
  <2>3. a \in Levels
    BY <2>2, ConstantsAssumption DEF Levels, Attempts
  <2> QED
    BY <1>4, <2>1, <2>2, <2>3 DEF Deliver, Dequeue, Waiting
<1>5. CASE Send(h)
  <2>1. worker[h].pc = "send" /\ worker'[h].pc # "send"
    BY <1>5, HandleStep DEF Send, At, Moves, Handle, HandlePoison, Mark,
       MarkDelivered, PublishRetry, PublishDLQ, MarkFailed, Unmark, Record, Ack,
       Nack, Settle
  <2> QED
    BY <1>5, <2>1, HandleStep DEF OnSchedule, SchedulePC, Handle, IdleHandler
<1>6. CASE Moves(h)
  <2>1. worker'[h].msg = worker[h].msg /\ worker'[h].attempt = worker[h].attempt
    BY <1>6, GotoEffect
    DEF Moves, HandlePoison, Mark, MarkDelivered, PublishRetry, PublishDLQ,
        MarkFailed, Unmark, Record, HandlerPC
  <2>2. CASE Mark(h)
    <3>1. Goto(h, "send") /\ worker[h].attempt = 0
      BY <2>2, GotoEffect
      DEF Mark, At, OnSchedule, SchedulePC, HandlersWellFormed, HandlerPC
    <3>2. worker'[h].pc = "send"
      BY <3>1, GotoEffect DEF HandlerPC
    <3>3. /\ m \notin processed /\ processed' = processed \cup {m}
          /\ tried' = [tried EXCEPT ![m] = {}]
      BY <2>1, <2>2, <3>2, GotoEffect DEF Mark, HandlerPC, OnSchedule
    <3> QED
      BY <2>1, <2>2, <3>1, <3>2, <3>3 DEF Takes, OnSchedule, DataType
  <2>3. CASE PublishDLQ(h) \/ MarkFailed(h)
    <3>1. worker[h].pc \in {"dlq", "markFailed"}
      BY <2>3 DEF PublishDLQ, MarkFailed, At
    <3>2. Goto(h, "markFailed") \/ Goto(h, "unmark") \/ Goto(h, "nack")
      BY <2>3 DEF PublishDLQ, MarkFailed
    <3>3. worker'[h].pc # "send"
      BY <3>2, GotoEffect DEF HandlerPC
    <3> QED
      BY <2>1, <3>1, <3>3 DEF OnSchedule, SchedulePC
  <2>4. CASE HandlePoison(h) \/ MarkDelivered(h) \/ PublishRetry(h)
             \/ Unmark(h) \/ Record(h)
    <3>1. \E pc \in {"ack", "nack", "record"} : Goto(h, pc)
      BY <2>4 DEF HandlePoison, MarkDelivered, PublishRetry, Unmark, Record
    <3>2. worker'[h].pc \in {"ack", "nack", "record"}
      BY <3>1, GotoEffect DEF HandlerPC
    <3> QED
      BY <3>2 DEF OnSchedule, SchedulePC
  <2> QED
    BY <1>6, <2>2, <2>3, <2>4 DEF Moves
<1> QED
  BY <1>1, <1>2, <1>3, <1>4, <1>5, <1>6, WorkerStep, HandleStep

-----------------------------------------------------------------------------
(* Who changes the queues                                                  *)

\* Where a published message comes from.
Source(p, n, a) ==
  \/ /\ p = "main" /\ a = 0
     /\ \/ n \in Notification /\ PublishMain(n)
        \/ n \in Poison /\ PublishPoison(n)
        \/ \E r \in Admin : ReplayPublish(r) /\ admin[r].msg = n
  \/ /\ p = "retry"
     /\ \E h \in Handler : /\ PublishRetry(h) /\ worker[h].msg = n
                           /\ a = worker[h].attempt + 1
  \/ /\ p = "dlq"
     /\ \/ \E h \in Handler : /\ HandlePoison(h) \/ PublishDLQ(h)
                              /\ worker[h].msg = n /\ a = worker[h].attempt
        \/ \E r \in Admin : /\ AdminCrash(r)
                            /\ admin[r].msg = n /\ a = admin[r].attempt

LEMMA QueueStep ==
  ASSUME Shape, [Next]_vars
  PROVE  \/ UNCHANGED queue
         \/ \E p \in Place, n \in Message, a \in Attempts :
              Enqueue(p, n, a) /\ Source(p, n, a)
         \/ \E n \in Message, a \in Attempts : Expire(n, a)
         \/ \E h \in Handler, n \in Message, a \in Attempts : Deliver(h, n, a)
         \/ \E r \in Admin, n \in Message, a \in Attempts : ReplayGet(r, n, a)
         \/ \E H \in SUBSET Handler : Crash(H)
<1> USE ShapeParts DEF HandlerShape, AdminShape
<1> DEFINE Published == \E p \in Place, n \in Message, a \in Attempts :
                          Enqueue(p, n, a) /\ Source(p, n, a)
<1>1. "main" \in Place /\ "retry" \in Place /\ "dlq" \in Place /\ 0 \in Attempts
  BY ConstantsAssumption DEF Place, Attempts
<1>2. CASE Client
  <2>1. ASSUME NEW n \in Notification, PublishMain(n)
        PROVE  UNCHANGED queue \/ Published
    <3>1. n \in Message /\ Source("main", n, 0)
      BY <2>1 DEF Source, Message
    <3>2. UNCHANGED queue \/ Enqueue("main", n, 0)
      BY <2>1 DEF PublishMain, MaybeEnqueue
    <3> QED
      BY <1>1, <3>1, <3>2
  <2>2. ASSUME NEW n \in Poison, PublishPoison(n) PROVE Published
    <3>1. n \in Message /\ Source("main", n, 0)
      BY <2>2 DEF Source, Message
    <3> QED
      BY <1>1, <2>2, <3>1 DEF PublishPoison
  <2> HIDE DEF Published
  <2>3. UNCHANGED queue \/ Published
    BY <1>2, <2>1, <2>2 DEF Client, Insert, Cancel
  <2> QED
    BY <2>3 DEF Published
<1>3. ASSUME NEW h \in Handler, Handle(h) PROVE UNCHANGED queue \/ Published
  <2>1. worker[h].attempt \in Attempts
    BY DEF WorkerType, HandlerRec
  <2>2. CASE HandlePoison(h) \/ PublishDLQ(h)
    <3>1. worker[h].msg \in Message
      BY <2>2 DEF HandlePoison, PublishDLQ, At, HandlersWellFormed, Message
    <3>2. Source("dlq", worker[h].msg, worker[h].attempt)
      BY <2>2 DEF Source
    <3>3. \/ UNCHANGED queue
          \/ Enqueue("dlq", worker[h].msg, worker[h].attempt)
      BY <2>2 DEF HandlePoison, PublishDLQ, MaybeEnqueue
    <3> QED
      BY <1>1, <2>1, <3>1, <3>2, <3>3
  <2>3. CASE PublishRetry(h)
    <3>1. worker[h].msg \in Message /\ worker[h].attempt + 1 \in Attempts
      BY <2>1, <2>3, ConstantsAssumption
      DEF PublishRetry, At, HandlersWellFormed, Message, Attempts
    <3>2. Source("retry", worker[h].msg, worker[h].attempt + 1)
      BY <2>3 DEF Source
    <3>3. \/ UNCHANGED queue
          \/ Enqueue("retry", worker[h].msg, worker[h].attempt + 1)
      BY <2>3 DEF PublishRetry, MaybeEnqueue
    <3> QED
      BY <1>1, <3>1, <3>2, <3>3
  <2> HIDE DEF Published
  <2> QED
    BY <1>3, <2>2, <2>3
    DEF Handle, Mark, Send, MarkDelivered, MarkFailed, Unmark, Record, Ack, Nack,
        Settle
<1>4. ASSUME NEW r \in Admin, ReplayPublish(r) \/ AdminCrash(r)
      PROVE  UNCHANGED queue \/ Published
  <2>1. admin[r].msg \in Message /\ admin[r].attempt \in Attempts
    BY <1>4 DEF ReplayPublish, AdminCrash, AdminsWellFormed, AdminRec
  <2>2. CASE ReplayPublish(r)
    <3>1. Source("main", admin[r].msg, 0)
      BY <2>2 DEF Source
    <3>2. UNCHANGED queue \/ Enqueue("main", admin[r].msg, 0)
      BY <2>2 DEF ReplayPublish, MaybeEnqueue
    <3> QED
      BY <1>1, <2>1, <3>1, <3>2
  <2>3. CASE AdminCrash(r)
    <3>1. Source("dlq", admin[r].msg, admin[r].attempt)
      BY <2>3 DEF Source
    <3>2. Enqueue("dlq", admin[r].msg, admin[r].attempt)
      BY <2>3 DEF AdminCrash
    <3> QED
      BY <1>1, <2>1, <3>1, <3>2
  <2> QED
    BY <1>4, <2>2, <2>3
<1> HIDE DEF Published
<1>5. CASE \E r \in Admin : Replay(r)
  <2>1. \/ UNCHANGED queue \/ \E r \in Admin : ReplayPublish(r)
        \/ \E r \in Admin, n \in Message, a \in Attempts : ReplayGet(r, n, a)
    BY <1>5 DEF Replay, ReplayAck, ReplayNack, ReplaySettle
  <2> QED
    BY <2>1, <1>4 DEF Published
<1>6. CASE Disaster
  <2>1. \/ UNCHANGED queue \/ \E r \in Admin : AdminCrash(r)
        \/ \E H \in SUBSET Handler : Crash(H)
    BY <1>6 DEF Disaster, CancelContext
  <2> QED
    BY <2>1, <1>4 DEF Published
<1>7. CASE \E h \in Handler : Handle(h)
  BY <1>3, <1>7 DEF Published
<1>8. CASE Broker \/ UNCHANGED vars
  BY <1>8 DEF Broker, vars
<1> QED
  BY <1>2, <1>5, <1>6, <1>7, <1>8 DEF Next

\* What makes a message wait on schedule: it waited before, a retry, or the
\* crash of a handler that held it.
LEMMA IntoWaiting ==
  ASSUME Shape, [Next]_vars, NEW m \in Notification,
         NEW p \in WaitingPlace, NEW a \in Levels, Waiting(p, m, a)'
  PROVE  \/ Waiting(p, m, a)
         \/ p = "main" /\ Waiting("retry", m, a)
         \/ \E h \in Handler : /\ PublishRetry(h) /\ worker[h].msg = m
                               /\ a = worker[h].attempt + 1
         \/ \E H \in SUBSET Handler :
              /\ Crash(H)
              /\ \E h \in Busy(H) : worker[h].msg = m /\ worker[h].attempt = a
<1> USE ShapeParts DEF Waiting
<1>1. /\ p \in Place /\ p # "dlq" /\ m \in Message /\ a \in Attempts /\ a > 0
      /\ queue[p][m][a] \in Nat
  BY WaitingFacts
<1>2. ASSUME NEW q \in Place, NEW n \in Message, NEW b \in Attempts,
             Enqueue(q, n, b), Source(q, n, b)
      PROVE  \/ Waiting(p, m, a)
             \/ \E h \in Handler : /\ PublishRetry(h) /\ worker[h].msg = m
                                   /\ a = worker[h].attempt + 1
  <2>1. queue'[p][m][a] = IF p = q /\ m = n /\ a = b
                          THEN queue[p][m][a] + 1 ELSE queue[p][m][a]
    BY <1>1, <1>2, EnqueueEffect
  <2>2. CASE p = q /\ m = n /\ a = b
    BY <1>1, <1>2, <2>2 DEF Source
  <2> QED
    BY <2>1, <2>2
<1>3. ASSUME NEW n \in Message, NEW b \in Attempts, Expire(n, b)
      PROVE  \/ Waiting(p, m, a)
             \/ p = "main" /\ Waiting("retry", m, a)
  <2>1. /\ queue["retry"][n][b] > 0
        /\ queue'[p][m][a] = IF p = "retry" /\ m = n /\ a = b
                             THEN queue[p][m][a] - 1
                             ELSE IF p = "main" /\ m = n /\ a = b
                             THEN queue[p][m][a] + 1 ELSE queue[p][m][a]
    BY <1>1, <1>3, ExpireEffect
  <2> QED
    BY <1>1, <2>1
<1>4. ASSUME NEW q \in Place, NEW n \in Message, NEW b \in Attempts,
             Dequeue(q, n, b)
      PROVE  Waiting(p, m, a)
  BY <1>1, <1>4, DequeueEffect
<1>5. ASSUME NEW H \in SUBSET Handler, Crash(H), ~Waiting(p, m, a)
      PROVE  \E h \in Busy(H) : worker[h].msg = m /\ worker[h].attempt = a
  BY <1>1, <1>5, CrashEffect
<1>6. "main" \in Place /\ "dlq" \in Place
  BY DEF Place
<1> QED
  BY <1>2, <1>3, <1>4, <1>5, <1>6, QueueStep DEF Deliver, ReplayGet

\* Of an undisturbed notification no handler has died.
LEMMA IntoWaitingUndisturbed ==
  ASSUME Shape, [Next]_vars, NEW m \in Notification, Undisturbed(m)',
         NEW p \in WaitingPlace, NEW a \in Levels, Waiting(p, m, a)'
  PROVE  \/ Waiting(p, m, a)
         \/ p = "main" /\ Waiting("retry", m, a)
         \/ \E h \in Handler : /\ PublishRetry(h) /\ worker[h].msg = m
                               /\ a = worker[h].attempt + 1
<1>1. ASSUME NEW H \in SUBSET Handler, Crash(H)
      PROVE  m \notin {worker[h].msg : h \in Busy(H)}
  <2>1. "crash" \in AllFaultKinds /\ m \in Message
    BY DEF AllFaultKinds, Message
  <2>2. m \in {worker[h].msg : h \in Busy(H)} => fault'[m] = fault[m] \cup {"crash"}
    BY <1>1, <2>1, FaultEffect, ShapeParts DEF Crash
  <2> QED
    BY <2>2 DEF Undisturbed
<1> QED
  BY <1>1, IntoWaiting

-----------------------------------------------------------------------------
(* The schedule is in order                                                *)

LEMMA NextScheduleInv ==
  Shape /\ LockInv /\ ScheduleInv /\ [Next]_vars => ScheduleInv'
<1> SUFFICES ASSUME Shape, LockInv, ScheduleInv, [Next]_vars,
                    NEW m \in Notification, Undisturbed(m)'
             PROVE  InOrder(m)'
  BY DEF ScheduleInv
<1>1. Lock(m) /\ InOrder(m)
  BY UndisturbedBefore DEF LockInv, ScheduleInv
<1>2. \A h \in Handler : worker[h].attempt \in Nat
  BY ShapeParts, ConstantsAssumption
  DEF HandlerShape, WorkerType, HandlerRec, Attempts
<1>3. \A a \in Levels : a \in Nat
  BY WaitingFacts DEF Levels
<1>4. "main" \in WaitingPlace /\ "retry" \in WaitingPlace
  BY DEF WaitingPlace
<1>5. \A n \in Nat : 0..n = (0..(n - 1)) \cup {n} /\ 0..((n + 1) - 1) = 0..n
  OBVIOUS
<1>6. ASSUME NEW h \in Handler, Send(h), worker[h].msg = m,
             tried'[m] = tried[m] \cup {worker[h].attempt}
      PROVE  InOrder(m)'
  <2>1. OnSchedule(h, m) /\ worker[h].pc = "send"
    BY <1>6 DEF Send, At, OnSchedule, SchedulePC
  <2>2. tried'[m] = 0..worker[h].attempt
    BY <1>1, <1>2, <1>5, <1>6, <2>1 DEF InOrder
  <2>3. /\ m \in processed
        /\ \A g \in Handler : OnSchedule(g, m) => g = h
        /\ \A p \in WaitingPlace, a \in Levels : ~Waiting(p, m, a)
    BY <1>1, <2>1 DEF Lock
  <2>4. ASSUME NEW g \in Handler, OnSchedule(g, m)'
        PROVE  /\ g = h
               /\ worker'[h].attempt = worker[h].attempt
               /\ worker'[h].pc # "send"
    <3>1. g = h
      BY <1>4, <2>3, <2>4, IntoSchedule DEF Takes
    <3>2. worker'[h].pc \in {"markDelivered", "retry", "dlq", "nack"}
      BY <1>6, HandleStep
      DEF Handle, Moves, HandlePoison, Mark, Send, MarkDelivered, PublishRetry,
          PublishDLQ, MarkFailed, Unmark, Record, Ack, Nack, Settle, At
    <3> QED
      BY <1>4, <2>3, <2>4, <3>1, <3>2, IntoSchedule DEF Takes
  <2>5. \A p \in WaitingPlace, a \in Levels : ~Waiting(p, m, a)'
    <3>1. \A g \in Handler : PublishRetry(g) => worker[g].msg # m
      BY <2>1, <2>3 DEF PublishRetry, At, OnSchedule, SchedulePC
    <3> QED
      BY <1>4, <2>3, <3>1, IntoWaitingUndisturbed
  <2> QED
    BY <2>2, <2>4, <2>5 DEF InOrder
<1>7. ASSUME NEW h \in Handler, Takes(h, m) PROVE InOrder(m)'
  <2>1. /\ \A g \in Handler : ~OnSchedule(g, m)
        /\ \A p \in WaitingPlace, a \in Levels : ~Waiting(p, m, a)
    BY <1>1, <1>7 DEF Lock, Takes
  <2>2. ASSUME NEW g \in Handler, OnSchedule(g, m)'
        PROVE  worker'[g].pc = "send" /\ worker'[g].attempt = 0
    BY <1>4, <2>1, <2>2, IntoSchedule
  <2>3. \A p \in WaitingPlace, a \in Levels : ~Waiting(p, m, a)'
    <3>1. \A g \in Handler : PublishRetry(g) => worker[g].msg # m
      BY <2>1 DEF PublishRetry, At, OnSchedule, SchedulePC
    <3> QED
      BY <1>4, <2>1, <3>1, IntoWaitingUndisturbed
  <2>4. tried'[m] = 0..(0 - 1)
    BY <1>7 DEF Takes
  <2> QED
    BY <2>2, <2>3, <2>4 DEF InOrder
<1>8. CASE tried'[m] = tried[m]
  <2>1. ASSUME NEW h \in Handler, OnSchedule(h, m)'
        PROVE  tried'[m] = IF worker'[h].pc = "send"
                           THEN 0..(worker'[h].attempt - 1)
                           ELSE 0..worker'[h].attempt
    <3>1. CASE /\ OnSchedule(h, m)
               /\ worker'[h].attempt = worker[h].attempt
               /\ worker'[h].pc = "send" <=> worker[h].pc = "send"
      BY <1>1, <1>8, <3>1 DEF InOrder
    <3>2. ASSUME NEW a \in Levels, Waiting("main", m, a),
                 worker'[h].pc = "send", worker'[h].attempt = a
          PROVE  tried'[m] = 0..(worker'[h].attempt - 1)
      BY <1>1, <1>4, <1>8, <3>2 DEF InOrder
    <3>3. ASSUME Takes(h, m), worker'[h].pc = "send", worker'[h].attempt = 0
          PROVE  tried'[m] = 0..(worker'[h].attempt - 1)
      BY <3>3 DEF Takes
    <3>4. CASE Send(h) /\ OnSchedule(h, m) /\ worker[h].pc = "send"
      <4>1. tried' = [tried EXCEPT ![m] = @ \cup {worker[h].attempt}]
        BY <3>4 DEF Send, OnSchedule
      <4>2. tried'[m] = tried[m] \cup {worker[h].attempt}
        BY <4>1, ShapeParts DEF DataType
      <4>3. InOrder(m)'
        BY <1>6, <3>4, <4>2 DEF OnSchedule
      <4> QED
        BY <2>1, <4>3 DEF InOrder
    <3> QED
      BY <2>1, <3>1, <3>2, <3>3, <3>4, IntoSchedule
  <2>2. ASSUME NEW p \in WaitingPlace, NEW a \in Levels, Waiting(p, m, a)'
        PROVE  tried'[m] = 0..(a - 1)
    <3>1. ASSUME NEW h \in Handler, PublishRetry(h), worker[h].msg = m,
                 a = worker[h].attempt + 1
          PROVE  tried'[m] = 0..(a - 1)
      <4>1. OnSchedule(h, m) /\ worker[h].pc = "retry"
        BY <3>1 DEF PublishRetry, At, OnSchedule, SchedulePC
      <4>2. tried[m] = 0..worker[h].attempt
        BY <1>1, <4>1 DEF InOrder
      <4> QED
        BY <1>2, <1>5, <1>8, <3>1, <4>2
    <3>2. CASE Waiting(p, m, a) \/ Waiting("retry", m, a)
      BY <1>1, <1>4, <1>8, <3>2 DEF InOrder
    <3> QED
      BY <2>2, <3>1, <3>2, IntoWaitingUndisturbed
  <2> QED
    BY <2>1, <2>2 DEF InOrder
<1> QED
  BY <1>6, <1>7, <1>8, TriedStep

LEMMA ScheduleAlways ==
  Spec => [](Shape /\ LockInv /\ ScheduleInv /\ AcceptedBeforeDelivered)
<1>1. Init => ScheduleInv
  <2> SUFFICES ASSUME Init, NEW m \in Notification PROVE InOrder(m)
    BY DEF ScheduleInv
  <2>1. \A p \in WaitingPlace, a \in Levels : queue[p][m][a] = 0
    BY WaitingFacts DEF Init
  <2>2. \A h \in Handler : ~OnSchedule(h, m)
    BY DEF Init, OnSchedule, IdleHandler, SchedulePC
  <2> QED
    BY <2>1, <2>2 DEF InOrder, Waiting
<1>2. Spec => []ScheduleInv
  BY <1>1, NextScheduleInv, LockAlways, PTL DEF Spec
<1> QED
  BY <1>2, LockAlways, AcceptedAlways, PTL

\* What an undisturbed notification on its way to the DLQ, or out of its
\* schedule, has behind it.
LEMMA ExhaustedOnSchedule ==
  ASSUME Shape, LockInv, ScheduleInv, NEW m \in Notification, Undisturbed(m),
         NEW h \in Handler, worker[h].msg = m,
         worker[h].pc \in {"dlq", "markFailed", "unmark"}
  PROVE  m \in processed /\ accepted[m] = 0 /\ tried[m] = Attempts
<1>1. OnSchedule(h, m) /\ worker[h].attempt = MaxAttempts
  BY ShapeParts DEF OnSchedule, SchedulePC, HandlerShape, HandlersWellFormed
<1>2. Lock(m) /\ InOrder(m)
  BY DEF LockInv, ScheduleInv
<1> QED
  BY <1>1, <1>2 DEF Lock, InOrder, Attempts

-----------------------------------------------------------------------------
(* Nothing is dead-lettered early                                          *)

\* Only a handler that has exhausted its retries adds a dead letter; an
\* API crash only puts one back.
LEMMA DeadLetterStep ==
  ASSUME Shape, [Next]_vars, NEW m \in Notification, NEW a \in Attempts,
         queue'["dlq"][m][a] > queue["dlq"][m][a], UNCHANGED admin
  PROVE  \E h \in Handler : PublishDLQ(h) /\ worker[h].msg = m
<1> USE ShapeParts DEF AdminShape
<1>1. "main" \in Place /\ "retry" \in Place /\ "dlq" \in Place /\ m \in Message
  BY DEF Place, Message
<1>2. queue'["dlq"][m][a] # queue["dlq"][m][a] /\ queue["dlq"][m][a] \in Nat
  BY <1>1 DEF QueueType
<1>3. ASSUME NEW q \in Place, NEW n \in Message, NEW b \in Attempts,
             Enqueue(q, n, b), Source(q, n, b)
      PROVE  \E h \in Handler : PublishDLQ(h) /\ worker[h].msg = m
  <2>1. q = "dlq" /\ n = m
    BY <1>1, <1>2, <1>3, EnqueueEffect
  <2>2. \A r \in Admin : ~AdminCrash(r)
    <3>1. \A r \in Admin : AdminCrash(r) =>
            admin'[r].pc = "idle" /\ admin[r].pc # "idle"
      BY DEF AdminCrash, IdleAdmin
    <3> QED
      BY <3>1
  <2>3. \A h \in Handler : HandlePoison(h) => worker[h].msg # m
    BY ConstantsAssumption
    DEF HandlePoison, At, HandlerShape, HandlersWellFormed
  <2> QED
    BY <1>3, <2>1, <2>2, <2>3 DEF Source
<1>4. \A n \in Message, b \in Attempts : ~Expire(n, b)
  BY <1>1, <1>2, ExpireEffect
<1>5. \A q \in Place, n \in Message, b \in Attempts : ~Dequeue(q, n, b)
  BY <1>1, <1>2, DequeueEffect
<1>6. \A H \in SUBSET Handler : ~Crash(H)
  BY <1>1, <1>2, CrashEffect
<1> QED
  BY <1>1, <1>2, <1>3, <1>4, <1>5, <1>6, QueueStep DEF Deliver, ReplayGet

\* An undisturbed notification enters the DLQ only when every attempt of its
\* schedule has been made, for every number of retry levels and handlers.
THEOREM DeadLetteredAfterFullScheduleHolds ==
  Spec => DeadLetteredAfterFullSchedule
<1>1. ASSUME Shape, LockInv, ScheduleInv, [Next]_vars, NEW m \in Notification,
             \E a \in Attempts : queue'["dlq"][m][a] > queue["dlq"][m][a],
             UNCHANGED admin, Undisturbed(m)
      PROVE  tried[m] = Attempts
  <2>1. PICK h \in Handler : PublishDLQ(h) /\ worker[h].msg = m
    BY <1>1, DeadLetterStep
  <2> QED
    BY <1>1, <2>1, ExhaustedOnSchedule DEF PublishDLQ, At
<1>2. Shape /\ LockInv /\ ScheduleInv /\ [Next]_vars
      => [\A m \in Notification :
            /\ \E a \in Attempts : queue'["dlq"][m][a] > queue["dlq"][m][a]
            /\ UNCHANGED admin
            /\ Undisturbed(m)
            => tried[m] = Attempts]_vars
  BY <1>1
<1> QED
  BY <1>2, ScheduleAlways, PTL DEF Spec, DeadLetteredAfterFullSchedule

-----------------------------------------------------------------------------
(* Delivery implements NotificationLifecycle                               *)

\* Who changes the number of acceptances, and who the dedup record.
LEMMA AcceptedStep ==
  ASSUME Shape, [Next]_vars, NEW m \in Notification, accepted'[m] # accepted[m]
  PROVE  \E h \in Handler : /\ Send(h) /\ worker[h].msg = m
                            /\ accepted'[m] = accepted[m] + 1
<1> USE ShapeParts DEF DataType
<1>1. PICK h \in Handler : Send(h)
  BY DEF Next, Client, Insert, PublishMain, Cancel, PublishPoison, Broker,
         Expire, Deliver, Handle, HandlePoison, Mark, MarkDelivered,
         PublishRetry, PublishDLQ, MarkFailed, Unmark, Record, Ack, Nack,
         Settle, Replay, ReplayGet, ReplayPublish, ReplayAck, ReplayNack,
         ReplaySettle, Disaster, CancelContext, Crash, AdminCrash, vars
<1>2. accepted' \in {accepted, [accepted EXCEPT ![worker[h].msg] = @ + 1]}
  BY <1>1 DEF Send
<1> QED
  BY <1>1, <1>2

LEMMA RecordStep ==
  ASSUME Shape, [Next]_vars, NEW m \in Notification,
         (m \in processed') # (m \in processed)
  PROVE  \E h \in Handler :
           \/ Takes(h, m)
           \/ Unmark(h) /\ worker[h].msg = m /\ m \notin processed'
<1> USE ShapeParts DEF DataType
<1>1. PICK h \in Handler : Mark(h) \/ Unmark(h)
  BY DEF Next, Client, Insert, PublishMain, Cancel, PublishPoison, Broker,
         Expire, Deliver, Handle, HandlePoison, Send, MarkDelivered,
         PublishRetry, PublishDLQ, MarkFailed, Record, Ack, Nack,
         Settle, Replay, ReplayGet, ReplayPublish, ReplayAck, ReplayNack,
         ReplaySettle, Disaster, CancelContext, Crash, AdminCrash, vars
<1>2. CASE Unmark(h)
  BY <1>2 DEF Unmark
<1>3. CASE Mark(h)
  <2>1. /\ worker[h].msg \notin processed
        /\ processed' = processed \cup {worker[h].msg}
        /\ tried' = [tried EXCEPT ![worker[h].msg] = {}]
    BY <1>3 DEF Mark
  <2>2. worker[h].msg = m
    BY <2>1
  <2> QED
    BY <1>3, <2>1, <2>2 DEF Takes
<1> QED
  BY <1>1, <1>2, <1>3

\* The life of an undisturbed notification, step by step.
LEMMA UndisturbedLife ==
  ASSUME Shape, LockInv, ScheduleInv, AcceptedBeforeDelivered, [Next]_vars,
         NEW m \in Notification, Undisturbed(m)'
  PROVE  Lifecycle!Step(m)
<1> USE ShapeParts DEF DataType
<1> USE DEF Lifecycle!Step, Lifecycle!KeepStatus, Lifecycle!KeepAccepted,
            Lifecycle!KeepRecord, Lifecycle!KeepTried
<1>1. Undisturbed(m) /\ Lock(m) /\ InOrder(m)
  BY UndisturbedBefore DEF LockInv, ScheduleInv
<1>2. m \notin {n \in Notification : ~Undisturbed(n)'}
  OBVIOUS
<1>3. ASSUME status'[m] # status[m] PROVE Lifecycle!Step(m)
  <2>1. CASE Insert(m)
    BY <1>2, <2>1 DEF Insert, Lifecycle!Create
  <2>2. CASE Cancel(m)
    BY <1>2, <2>2 DEF Cancel, Lifecycle!Cancel
  <2>3. ASSUME NEW h \in Handler, worker[h].msg = m, MarkDelivered(h),
               status'[m] = "delivered"
        PROVE  Lifecycle!Step(m)
    <3>1. accepted[m] > 0
      BY <2>3 DEF AcceptedBeforeDelivered, MarkDelivered, At
    <3> QED
      BY <1>2, <2>3, <3>1 DEF MarkDelivered, Lifecycle!Deliver
  <2>4. ASSUME NEW h \in Handler, worker[h].msg = m, MarkFailed(h),
               status'[m] = "failed"
        PROVE  Lifecycle!Step(m)
    <3>1. m \in processed /\ accepted[m] = 0 /\ tried[m] = Attempts
      BY <1>1, <2>4, ExhaustedOnSchedule DEF MarkFailed, At
    <3> QED
      BY <1>2, <2>4, <3>1
      DEF MarkFailed, Lifecycle!Fail, Lifecycle!Exhausted, Attempts,
          Lifecycle!Attempts
  <2> QED
    BY <1>3, <2>1, <2>2, <2>3, <2>4, StatusStep
<1>4. ASSUME NEW h \in Handler, Send(h), worker[h].msg = m
      PROVE  Lifecycle!Step(m)
  <2> DEFINE k == worker[h].attempt
  <2>1. OnSchedule(h, m) /\ worker[h].pc = "send" /\ k \in Attempts
    BY <1>4 DEF Send, At, OnSchedule, SchedulePC, HandlerShape, WorkerType,
                HandlerRec
  <2>2. m \in processed /\ accepted[m] = 0 /\ tried[m] = 0..(k - 1)
    BY <1>1, <2>1 DEF Lock, InOrder
  <2>3. tried'[m] = 0..k
    <3>1. tried'[m] = tried[m] \cup {k}
      BY <1>4 DEF Send
    <3>2. k \in Nat
      BY <2>1, ConstantsAssumption DEF Attempts
    <3> QED
      BY <2>2, <3>1, <3>2
  <2>4. accepted'[m] \in {0, 1}
    <3>1. accepted' \in {accepted, [accepted EXCEPT ![m] = @ + 1]}
      BY <1>4 DEF Send
    <3> QED
      BY <2>2, <3>1
  <2>5. Lifecycle!Attempt(m, k)
    BY <1>4, <2>2, <2>3, <2>4 DEF Send, Lifecycle!Attempt
  <2>6. k \in Lifecycle!Attempts
    BY <2>1 DEF Attempts, Lifecycle!Attempts
  <2> QED
    BY <1>2, <2>5, <2>6
<1>5. ASSUME NEW h \in Handler, Takes(h, m) PROVE Lifecycle!Step(m)
  <2>1. accepted[m] = 0
    BY <1>1, <1>5 DEF Takes, Lock
  <2> QED
    BY <1>2, <1>5, <2>1 DEF Takes, Mark, Lifecycle!Take
<1>6. ASSUME NEW h \in Handler, Unmark(h), worker[h].msg = m,
             m \notin processed'
      PROVE  Lifecycle!Step(m)
  <2>1. m \in processed /\ accepted[m] = 0 /\ tried[m] = Attempts
    BY <1>1, <1>6, ExhaustedOnSchedule DEF Unmark, At
  <2> QED
    BY <1>2, <1>6, <2>1
    DEF Unmark, Lifecycle!Release, Lifecycle!Exhausted, Attempts,
        Lifecycle!Attempts
<1>7. CASE /\ status'[m] = status[m] /\ accepted'[m] = accepted[m]
           /\ tried'[m] = tried[m] /\ (m \in processed') = (m \in processed)
  BY <1>2, <1>7 DEF Lifecycle!Same
<1> QED
  BY <1>3, <1>4, <1>5, <1>6, <1>7, TriedStep, AcceptedStep, RecordStep

\* Of a disturbed one less is promised, and kept.
LEMMA DisturbedLife ==
  ASSUME Shape, AcceptedBeforeDelivered, [Next]_vars,
         NEW m \in Notification, ~Undisturbed(m)'
  PROVE  Lifecycle!Step(m)
<1> USE DEF Lifecycle!KeepStatus, Lifecycle!KeepAccepted,
            Lifecycle!KeepRecord, Lifecycle!KeepTried
<1>1. m \in {n \in Notification : ~Undisturbed(n)'}
  OBVIOUS
<1>2. accepted'[m] >= accepted[m]
  BY AcceptedGrows
<1>3. \/ Lifecycle!KeepStatus(m)
      \/ status'[m] \in {"cancelled", "failed"}
      \/ status'[m] = "delivered" /\ accepted[m] > 0
      \/ Lifecycle!Create(m)
  <2>1. CASE Insert(m)
    BY <2>1, ShapeParts DEF Insert, Lifecycle!Create, DataType
  <2>2. CASE Cancel(m)
    BY <2>2, ShapeParts DEF Cancel, DataType
  <2>3. ASSUME NEW h \in Handler, worker[h].msg = m, MarkDelivered(h)
        PROVE  accepted[m] > 0
    BY <2>3 DEF AcceptedBeforeDelivered, MarkDelivered, At
  <2> QED
    BY <2>1, <2>2, <2>3, StatusStep
<1> QED
  BY <1>1, <1>2, <1>3 DEF Lifecycle!Step, Lifecycle!Disturbed

LEMMA LifecycleStep ==
  Shape /\ LockInv /\ ScheduleInv /\ AcceptedBeforeDelivered /\ [Next]_vars
    => Lifecycle!Next
<1> SUFFICES ASSUME Shape, LockInv, ScheduleInv, AcceptedBeforeDelivered,
                    [Next]_vars
             PROVE  Lifecycle!Next
  OBVIOUS
<1>1. \A m \in Notification : Lifecycle!Step(m)
  BY UndisturbedLife, DisturbedLife
<1>2. {m \in Notification : ~Undisturbed(m)}
        \subseteq {m \in Notification : ~Undisturbed(m)}'
  BY UndisturbedBefore
<1> QED
  BY <1>1, <1>2 DEF Lifecycle!Next

\* Whatever handlers, replays, cancellations and faults do, each notification
\* lives the life of NotificationLifecycle: one schedule at a time, attempts in
\* order, none after an acceptance, failed and released only when exhausted.
THEOREM ImplementsLifecycleHolds == Spec => ImplementsLifecycle
<1>1. Init => Lifecycle!Init
  BY DEF Init, Lifecycle!Init, Undisturbed, Message
<1>2. Shape /\ LockInv /\ ScheduleInv /\ AcceptedBeforeDelivered /\ [Next]_vars
        => [Lifecycle!Next]_(Lifecycle!life)
  BY LifecycleStep
<1> QED
  BY <1>1, <1>2, ScheduleAlways, PTL DEF Spec, Lifecycle!Spec, ImplementsLifecycle
=============================================================================
