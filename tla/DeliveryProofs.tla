--------------------------- MODULE DeliveryProofs ---------------------------
(***************************************************************************)
(* Machine-checked proofs about Delivery, for every number of              *)
(* notifications, handlers, admins, retry levels, faults and replays.      *)
(***************************************************************************)
EXTENDS DeliveryInvariant, FiniteSetTheorems, TLAPS



-----------------------------------------------------------------------------
(* What the helpers do to the broker and to the history of faults          *)

QueueType == queue \in [Place -> [Message -> [Attempts -> Nat]]]
FaultType == faults \in 0..MaxFaults /\ fault \in [Message -> SUBSET AllFaultKinds]

\* The count of the enqueued kind of message grows by one, no other changes.
LEMMA EnqueueEffect ==
  ASSUME QueueType, NEW p \in Place, NEW m \in Message, NEW a \in Attempts,
         Enqueue(p, m, a)
  PROVE  /\ QueueType'
         /\ \A q \in Place, n \in Message, b \in Attempts :
              queue'[q][n][b] = IF q = p /\ n = m /\ b = a
                                THEN queue[q][n][b] + 1 ELSE queue[q][n][b]
  BY DEF QueueType, Enqueue

LEMMA MaybeEnqueueEffect ==
  ASSUME QueueType, NEW p \in Place, NEW m \in Message, NEW a \in Attempts,
         MaybeEnqueue(p, m, a)
  PROVE  /\ QueueType'
         /\ \/ UNCHANGED queue
            \/ \A q \in Place, n \in Message, b \in Attempts :
                 queue'[q][n][b] = IF q = p /\ n = m /\ b = a
                                   THEN queue[q][n][b] + 1 ELSE queue[q][n][b]
<1>1. CASE Enqueue(p, m, a)
  BY <1>1, EnqueueEffect
<1>2. CASE UNCHANGED queue
  BY <1>2 DEF QueueType
<1> QED
  BY <1>1, <1>2 DEF MaybeEnqueue

LEMMA DequeueEffect ==
  ASSUME QueueType, NEW p \in Place, NEW m \in Message, NEW a \in Attempts,
         Dequeue(p, m, a)
  PROVE  /\ QueueType'
         /\ queue[p][m][a] > 0
         /\ \A q \in Place, n \in Message, b \in Attempts :
              queue'[q][n][b] = IF q = p /\ n = m /\ b = a
                                THEN queue[q][n][b] - 1 ELSE queue[q][n][b]
  BY DEF QueueType, Dequeue

LEMMA ExpireEffect ==
  ASSUME QueueType, NEW m \in Message, NEW a \in Attempts, Expire(m, a)
  PROVE  /\ QueueType'
         /\ queue["retry"][m][a] > 0
         /\ \A q \in Place, n \in Message, b \in Attempts :
              queue'[q][n][b] =
                IF q = "retry" /\ n = m /\ b = a THEN queue[q][n][b] - 1
                ELSE IF q = "main" /\ n = m /\ b = a THEN queue[q][n][b] + 1
                ELSE queue[q][n][b]
<1> DEFINE mid == [queue EXCEPT !["retry"][m][a] = @ - 1]
<1>1. "retry" \in Place /\ "main" \in Place
  BY DEF Place
<1>2. queue["retry"][m][a] > 0
  BY DEF Expire
<1>3. /\ mid \in [Place -> [Message -> [Attempts -> Nat]]]
      /\ \A q \in Place, n \in Message, b \in Attempts :
           mid[q][n][b] = IF q = "retry" /\ n = m /\ b = a
                          THEN queue[q][n][b] - 1 ELSE queue[q][n][b]
  BY <1>1, <1>2 DEF QueueType
<1>4. queue' = [mid EXCEPT !["main"][m][a] = @ + 1]
  BY DEF Expire
<1> HIDE DEF mid
<1>5. /\ QueueType'
      /\ \A q \in Place, n \in Message, b \in Attempts :
           queue'[q][n][b] = IF q = "main" /\ n = m /\ b = a
                          THEN mid[q][n][b] + 1 ELSE mid[q][n][b]
  BY <1>1, <1>3, <1>4 DEF QueueType
<1> QED
  BY <1>2, <1>3, <1>5

LEMMA FaultEffect ==
  ASSUME FaultType, NEW k \in AllFaultKinds, NEW ms, Fault(k, ms)
  PROVE  /\ FaultType'
         /\ \A m \in Message :
              fault'[m] = IF m \in ms THEN fault[m] \cup {k} ELSE fault[m]
  BY ConstantsAssumption DEF FaultType, Fault

-----------------------------------------------------------------------------
(* The shape of the state: types, and what each step of a handler holds    *)

Shape == TypeOK /\ HandlersWellFormed /\ AdminsWellFormed

LEMMA InitShape == Init => Shape
  BY ConstantsAssumption
  DEF Init, Shape, TypeOK, HandlersWellFormed, AdminsWellFormed, Message,
      Attempts, Status, HandlerRec, HandlerPC, IdleHandler, AdminRec, IdleAdmin

\* The parts of the shape, so that a proof sees only what it needs.
WorkerType == worker \in [Handler -> HandlerRec]
HandlerShape == WorkerType /\ HandlersWellFormed
AdminShape ==
  admin \in [Admin -> AdminRec] /\ replays \in 0..MaxReplays /\ AdminsWellFormed
DataType ==
  /\ status \in [Notification -> Status]
  /\ api \in [Message -> {"new", "inserted", "accepted", "rejected"}]
  /\ processed \in SUBSET Notification
  /\ rows \in [Notification -> SUBSET (Attempts \X RowStatus)]
  /\ accepted \in [Notification -> Nat]
  /\ tried \in [Notification -> SUBSET Attempts]

LEMMA ShapeParts ==
  Shape <=> QueueType /\ FaultType /\ HandlerShape /\ AdminShape /\ DataType
  BY DEF Shape, TypeOK, QueueType, FaultType, HandlerShape, WorkerType,
         AdminShape, DataType

\* Goto moves one handler and changes nothing else of it.
LEMMA GotoEffect ==
  ASSUME WorkerType, NEW h \in Handler, NEW pc \in HandlerPC, Goto(h, pc)
  PROVE  /\ WorkerType'
         /\ worker'[h].pc = pc
         /\ worker'[h].msg = worker[h].msg
         /\ worker'[h].attempt = worker[h].attempt
         /\ worker'[h].outcome = worker[h].outcome
         /\ worker'[h].ctx = worker[h].ctx
         /\ \A g \in Handler : g # h => worker'[g] = worker[g]
  BY DEF WorkerType, HandlerRec, Goto

\* A handler that goes from a step on a notification to another keeps the
\* shape if it satisfies what the new step asks of it.
LEMMA GotoShape ==
  ASSUME WorkerType, HandlersWellFormed, NEW h \in Handler,
         NEW pc \in HandlerPC, Goto(h, pc),
         worker[h].pc # "idle", pc # "idle", pc # "poison", pc # "mark",
         pc = "ack" \/ worker[h].msg \in Notification,
         pc = "retry" => worker[h].attempt < MaxAttempts,
         pc \in {"dlq", "markFailed", "unmark"} => worker[h].attempt = MaxAttempts
  PROVE  WorkerType' /\ HandlersWellFormed'
<1>1. WorkerType'
  BY GotoEffect
<1>2. ASSUME NEW g \in Handler
      PROVE  LET w == worker'[g] IN
             /\ w.pc = "idle" <=> w.msg = NoMessage
             /\ w.pc = "poison" => w.msg \in Poison
             /\ w.pc \notin {"idle", "poison", "ack"} => w.msg \in Notification
             /\ w.pc = "mark" => w.attempt = 0
             /\ w.pc = "retry" => w.attempt < MaxAttempts
             /\ w.pc \in {"dlq", "markFailed", "unmark"}
                  => w.attempt = MaxAttempts
  <2>1. CASE g = h
    BY <2>1, GotoEffect DEF HandlersWellFormed
  <2>2. CASE g # h
    BY <2>2, GotoEffect DEF HandlersWellFormed
  <2> QED
    BY <2>1, <2>2
<1> QED
  BY <1>1, <1>2 DEF HandlersWellFormed

LEMMA NextHandlerShape == HandlerShape /\ [Next]_vars => HandlerShape'
<1> SUFFICES ASSUME HandlerShape, [Next]_vars PROVE HandlerShape'
  OBVIOUS
<1> USE DEF HandlerShape
<1>1. CASE UNCHANGED worker
  BY <1>1 DEF WorkerType, HandlersWellFormed
<1>2. ASSUME NEW m \in Message, NEW a \in Attempts, NEW h \in Handler,
             Deliver(h, m, a)
      PROVE HandlerShape'
  <2> DEFINE w == [IdleHandler EXCEPT !.pc = FirstStep(m, a),
                                      !.msg = m, !.attempt = a]
  <2>1. /\ w \in HandlerRec
        /\ w.pc # "idle" /\ w.msg # NoMessage
        /\ w.pc = "poison" => w.msg \in Poison
        /\ w.pc # "poison" => w.msg \in Notification
        /\ w.pc = "mark" => w.attempt = 0
        /\ w.pc \in {"poison", "mark", "send"}
    BY ConstantsAssumption
    DEF HandlerRec, HandlerPC, IdleHandler, FirstStep, Message
  <2>2. worker' = [worker EXCEPT ![h] = w]
    BY <1>2 DEF Deliver
  <2> QED
    BY <2>1, <2>2 DEF WorkerType, HandlersWellFormed
<1>3. ASSUME NEW h \in Handler, HandlePoison(h) PROVE HandlerShape'
  BY <1>3, GotoShape DEF HandlePoison, At, HandlerPC
<1>4. ASSUME NEW h \in Handler, Mark(h) PROVE HandlerShape'
  BY <1>4, GotoShape DEF Mark, At, HandlerPC, HandlersWellFormed
<1>5. ASSUME NEW h \in Handler, Send(h) PROVE HandlerShape'
  BY <1>5, ConstantsAssumption
  DEF Send, At, NextOnFailure, WorkerType, HandlersWellFormed, HandlerRec,
      HandlerPC, Attempts
<1>6. ASSUME NEW h \in Handler, MarkDelivered(h) PROVE HandlerShape'
  BY <1>6, GotoShape DEF MarkDelivered, At, HandlerPC, HandlersWellFormed
<1>7. ASSUME NEW h \in Handler, PublishRetry(h) PROVE HandlerShape'
  BY <1>7, GotoShape DEF PublishRetry, At, HandlerPC, HandlersWellFormed
<1>8. ASSUME NEW h \in Handler, PublishDLQ(h) PROVE HandlerShape'
  BY <1>8, GotoShape DEF PublishDLQ, At, HandlerPC, HandlersWellFormed
<1>9. ASSUME NEW h \in Handler, MarkFailed(h) PROVE HandlerShape'
  BY <1>9, GotoShape DEF MarkFailed, At, HandlerPC, HandlersWellFormed
<1>10. ASSUME NEW h \in Handler, Unmark(h) PROVE HandlerShape'
  BY <1>10, GotoShape DEF Unmark, At, HandlerPC, HandlersWellFormed
<1>11. ASSUME NEW h \in Handler, Record(h) PROVE HandlerShape'
  BY <1>11, GotoShape DEF Record, At, HandlerPC, HandlersWellFormed
<1>12. ASSUME NEW h \in Handler, Ack(h) \/ Nack(h) PROVE HandlerShape'
  <2>1. IdleHandler \in HandlerRec
    BY ConstantsAssumption DEF IdleHandler, HandlerRec, HandlerPC, Attempts
  <2>2. worker' = [worker EXCEPT ![h] = IdleHandler]
    BY <1>12 DEF Ack, Nack, Settle
  <2> QED
    BY <2>1, <2>2 DEF WorkerType, HandlersWellFormed, IdleHandler
<1>13. ASSUME CancelContext PROVE HandlerShape'
  <2>1. \A h \in Handler :
          \/ worker'[h] = worker[h]
          \/ worker'[h] = [worker[h] EXCEPT !.ctx = "cancelled"]
    BY <1>13 DEF CancelContext
  <2>2. WorkerType'
    BY <1>13 DEF CancelContext, WorkerType, HandlerRec
  <2> QED
    BY <2>1, <2>2 DEF WorkerType, HandlersWellFormed, HandlerRec
<1>14. ASSUME NEW H \in SUBSET Handler, Crash(H) PROVE HandlerShape'
  <2>1. IdleHandler \in HandlerRec
    BY ConstantsAssumption DEF IdleHandler, HandlerRec, HandlerPC, Attempts
  <2>2. worker' = [h \in Handler |-> IF h \in H THEN IdleHandler ELSE worker[h]]
    BY <1>14 DEF Crash
  <2> QED
    BY <2>1, <2>2 DEF WorkerType, HandlersWellFormed, IdleHandler
<1> QED
  <2>1. CASE Client
    BY <2>1, <1>1 DEF Client, Insert, PublishMain, Cancel, PublishPoison
  <2>2. CASE Broker
    BY <2>2, <1>1, <1>2 DEF Broker, Expire
  <2>3. CASE \E h \in Handler : Handle(h)
    BY <2>3, <1>3, <1>4, <1>5, <1>6, <1>7, <1>8, <1>9, <1>10, <1>11, <1>12
    DEF Handle
  <2>4. CASE \E r \in Admin : Replay(r)
    BY <2>4, <1>1
    DEF Replay, ReplayGet, ReplayPublish, ReplayAck, ReplayNack, ReplaySettle
  <2>5. CASE Disaster
    BY <2>5, <1>1, <1>13, <1>14 DEF Disaster, AdminCrash
  <2>6. CASE UNCHANGED vars
    BY <2>6, <1>1 DEF vars
  <2> QED
    BY <2>1, <2>2, <2>3, <2>4, <2>5, <2>6 DEF Next

LEMMA NextAdminShape == AdminShape /\ [Next]_vars => AdminShape'
<1> SUFFICES ASSUME AdminShape, [Next]_vars PROVE AdminShape'
  OBVIOUS
<1> USE ConstantsAssumption DEF AdminShape, AdminsWellFormed, AdminRec
<1>1. CASE UNCHANGED <<admin, replays>>
  BY <1>1
<1>2. ASSUME NEW r \in Admin, NEW m \in Message, NEW a \in Attempts,
             ReplayGet(r, m, a)
      PROVE AdminShape'
  BY <1>2 DEF ReplayGet
<1>3. ASSUME NEW r \in Admin, ReplayPublish(r) PROVE AdminShape'
  <2>1. PICK pc \in {"ack", "nack"} : admin' = [admin EXCEPT ![r].pc = pc]
    BY <1>3 DEF ReplayPublish
  <2>2. admin[r].pc = "publish" /\ UNCHANGED replays
    BY <1>3 DEF ReplayPublish
  <2> QED
    BY <2>1, <2>2
<1>4. ASSUME NEW r \in Admin, ReplayAck(r) \/ ReplayNack(r) \/ AdminCrash(r)
      PROVE AdminShape'
  <2>1. admin' = [admin EXCEPT ![r] = IdleAdmin] /\ UNCHANGED replays
    BY <1>4 DEF ReplayAck, ReplayNack, ReplaySettle, AdminCrash
  <2>2. IdleAdmin \in AdminRec
    BY DEF IdleAdmin, Attempts
  <2> QED
    BY <2>1, <2>2 DEF IdleAdmin
<1> QED
  <2>1. CASE Client
    BY <2>1, <1>1 DEF Client, Insert, PublishMain, Cancel, PublishPoison
  <2>2. CASE Broker
    BY <2>2, <1>1 DEF Broker, Expire, Deliver
  <2>3. CASE \E h \in Handler : Handle(h)
    BY <2>3, <1>1
    DEF Handle, HandlePoison, Mark, Send, MarkDelivered, PublishRetry,
        PublishDLQ, MarkFailed, Unmark, Record, Ack, Nack, Settle
  <2>4. CASE \E r \in Admin : Replay(r)
    BY <2>4, <1>2, <1>3, <1>4 DEF Replay
  <2>5. CASE Disaster
    BY <2>5, <1>1, <1>4 DEF Disaster, CancelContext, Crash
  <2>6. CASE UNCHANGED vars
    BY <2>6, <1>1 DEF vars
  <2> QED
    BY <2>1, <2>2, <2>3, <2>4, <2>5, <2>6 DEF Next

LEMMA NextDataType == HandlerShape /\ DataType /\ [Next]_vars => DataType'
<1> SUFFICES ASSUME HandlerShape, DataType, [Next]_vars PROVE DataType'
  OBVIOUS
<1> USE DEF DataType, Status
<1>1. CASE UNCHANGED <<status, api, processed, rows, accepted, tried>>
  BY <1>1
<1>2. CASE Client
  BY <1>2 DEF Client, Insert, PublishMain, Cancel, PublishPoison
<1>3. ASSUME NEW h \in Handler, Handle(h) PROVE DataType'
  <2> DEFINE m == worker[h].msg
  <2>1. At(h, "poison") \/ At(h, "ack") \/ m \in Notification
    BY <1>3
    DEF Handle, HandlePoison, Mark, Send, MarkDelivered, PublishRetry,
        PublishDLQ, MarkFailed, Unmark, Record, Ack, Nack, Settle, At,
        HandlerShape, HandlersWellFormed
  <2>2. worker[h].attempt \in Attempts
    BY DEF HandlerShape, WorkerType, HandlerRec
  <2>3. CASE Mark(h)
    BY <2>1, <2>3 DEF Mark, At
  <2>4. CASE Send(h)
    <3>1. tried' = [tried EXCEPT ![m] = @ \cup {worker[h].attempt}]
      BY <2>4 DEF Send
    <3>2. accepted' \in {accepted, [accepted EXCEPT ![m] = @ + 1]}
      BY <2>4 DEF Send
    <3>3. tried' \in [Notification -> SUBSET Attempts]
      BY <2>2, <3>1
    <3>4. accepted' \in [Notification -> Nat]
      BY <3>2
    <3> QED
      BY <3>3, <3>4, <2>4 DEF Send
  <2>5. CASE MarkDelivered(h) \/ MarkFailed(h)
    BY <2>5 DEF MarkDelivered, MarkFailed, SetStatus, MaybeSetStatus
  <2>6. CASE Unmark(h)
    BY <2>6 DEF Unmark
  <2>7. CASE Record(h)
    <3>1. RowOf(h) \in Attempts \X RowStatus
      BY <2>2 DEF RowOf, RowStatus
    <3>2. rows' \in {rows, [rows EXCEPT ![m] = @ \cup {RowOf(h)}]}
      BY <2>7 DEF Record
    <3> QED
      BY <3>1, <3>2, <2>7 DEF Record
  <2>8. CASE HandlePoison(h) \/ PublishRetry(h) \/ PublishDLQ(h) \/ Ack(h) \/ Nack(h)
    BY <2>8, <1>1 DEF HandlePoison, PublishRetry, PublishDLQ, Ack, Nack, Settle
  <2> QED
    BY <1>3, <2>3, <2>4, <2>5, <2>6, <2>7, <2>8 DEF Handle
<1> QED
  <2>1. CASE Broker
    BY <2>1, <1>1 DEF Broker, Expire, Deliver
  <2>2. CASE \E r \in Admin : Replay(r)
    BY <2>2, <1>1
    DEF Replay, ReplayGet, ReplayPublish, ReplayAck, ReplayNack, ReplaySettle
  <2>3. CASE Disaster
    BY <2>3, <1>1 DEF Disaster, CancelContext, Crash, AdminCrash
  <2>4. CASE UNCHANGED vars
    BY <2>4, <1>1 DEF vars
  <2> QED
    BY <1>2, <1>3, <2>1, <2>2, <2>3, <2>4 DEF Next

\* A step leaves the history of faults alone or injects one fault.
LEMMA FaultStep ==
  [Next]_vars => NoFault \/ \E ms : \E k \in AllFaultKinds : Fault(k, ms)
<1> SUFFICES ASSUME [Next]_vars
             PROVE  NoFault \/ \E ms : \E k \in AllFaultKinds : Fault(k, ms)
  OBVIOUS
<1> USE DEF AllFaultKinds
<1>1. CASE Client
  BY <1>1 DEF Client, Insert, PublishMain, Cancel, PublishPoison, NoFault
<1>2. CASE Broker
  BY <1>2 DEF Broker, Expire, Deliver, NoFault
<1>3. ASSUME NEW h \in Handler, Handle(h)
      PROVE  NoFault \/ \E ms : \E k \in AllFaultKinds : Fault(k, ms)
  BY <1>3
  DEF Handle, HandlePoison, Mark, Send, MarkDelivered, PublishRetry, PublishDLQ,
      MarkFailed, Unmark, Record, Ack, Nack, Settle, CallOK, CallFails, NoFault
<1>4. CASE \E r \in Admin : Replay(r)
  BY <1>4
  DEF Replay, ReplayGet, ReplayPublish, ReplayAck, ReplayNack, ReplaySettle,
      NoFault
<1>5. CASE Disaster
  BY <1>5 DEF Disaster, CancelContext, Crash, AdminCrash
<1>6. CASE UNCHANGED vars
  BY <1>6 DEF vars, NoFault
<1> QED
  BY <1>1, <1>2, <1>3, <1>4, <1>5, <1>6 DEF Next

LEMMA NextFaultType == FaultType /\ [Next]_vars => FaultType'
<1> SUFFICES ASSUME FaultType, [Next]_vars PROVE FaultType'
  OBVIOUS
<1>1. CASE NoFault
  BY <1>1 DEF NoFault, FaultType
<1>2. CASE \E ms : \E k \in AllFaultKinds : Fault(k, ms)
  BY <1>2, FaultEffect
<1> QED
  BY <1>1, <1>2, FaultStep

\* A crash touches the main queue only, where it puts back what was unacked.
LEMMA CrashEffect ==
  ASSUME QueueType, NEW H \in SUBSET Handler, Crash(H)
  PROVE  /\ QueueType'
         /\ \A p \in Place, m \in Message, a \in Attempts :
              \/ queue'[p][m][a] = queue[p][m][a]
              \/ /\ p = "main" /\ queue'[p][m][a] > queue[p][m][a]
                 /\ \E h \in Busy(H) : worker[h].msg = m /\ worker[h].attempt = a
         /\ \A h \in Busy(H), m \in Message, a \in Attempts :
              worker[h].msg = m /\ worker[h].attempt = a
                => queue'["main"][m][a] > 0
<1> DEFINE unacked(m, a) ==
             {h \in Busy(H) : worker[h].msg = m /\ worker[h].attempt = a}
<1>1. ASSUME NEW m, NEW a
      PROVE  /\ Cardinality(unacked(m, a)) \in Nat
             /\ unacked(m, a) = {} <=> Cardinality(unacked(m, a)) = 0
  <2>1. IsFiniteSet(unacked(m, a))
    BY FS_Subset, ConstantsAssumption DEF Busy
  <2> QED
    BY <2>1, FS_CardinalityType, FS_EmptySet
<1>2. queue' = [queue EXCEPT !["main"] =
                  [m \in Message |-> [a \in Attempts |->
                     @[m][a] + Cardinality(unacked(m, a))]]]
  BY DEF Crash
<1>3. \A m, a : (\E h \in Busy(H) : worker[h].msg = m /\ worker[h].attempt = a)
                  <=> unacked(m, a) # {}
  OBVIOUS
<1> HIDE DEF unacked
<1>4. "main" \in Place
  BY DEF Place
<1>5. QueueType'
  BY <1>1, <1>2, <1>4 DEF QueueType
<1>6. ASSUME NEW p \in Place, NEW m \in Message, NEW a \in Attempts, p # "main"
      PROVE  queue'[p][m][a] = queue[p][m][a]
  BY <1>2, <1>6 DEF QueueType
<1>7. ASSUME NEW m \in Message, NEW a \in Attempts
      PROVE  /\ queue'["main"][m][a]
                  = queue["main"][m][a] + Cardinality(unacked(m, a))
             /\ queue["main"][m][a] \in Nat
  BY <1>2, <1>4 DEF QueueType
<1>8. ASSUME NEW m \in Message, NEW a \in Attempts
      PROVE  IF unacked(m, a) = {}
             THEN queue'["main"][m][a] = queue["main"][m][a]
             ELSE /\ queue'["main"][m][a] > queue["main"][m][a]
                  /\ queue'["main"][m][a] > 0
  BY <1>1, <1>7
<1> QED
  BY <1>3, <1>5, <1>6, <1>8

LEMMA NextQueueType ==
  QueueType /\ HandlerShape /\ AdminShape /\ [Next]_vars => QueueType'
<1> SUFFICES ASSUME QueueType, HandlerShape, AdminShape, [Next]_vars
             PROVE  QueueType'
  OBVIOUS
<1>1. CASE UNCHANGED queue
  BY <1>1 DEF QueueType
<1>2. "main" \in Place /\ "retry" \in Place /\ "dlq" \in Place
  BY DEF Place
<1>3. 0 \in Attempts
  BY ConstantsAssumption DEF Attempts
<1>4. CASE Client
  BY <1>4, <1>1, <1>2, <1>3, EnqueueEffect, MaybeEnqueueEffect
  DEF Client, Insert, PublishMain, Cancel, PublishPoison, Message
<1>5. CASE Broker
  BY <1>5, <1>2, DequeueEffect, ExpireEffect DEF Broker, Deliver
<1>6. ASSUME NEW h \in Handler, Handle(h) PROVE QueueType'
  <2>1. worker[h].attempt \in Attempts
    BY DEF HandlerShape, WorkerType, HandlerRec
  <2>2. CASE HandlePoison(h)
    <3>1. worker[h].msg \in Message
      BY <2>2 DEF HandlePoison, At, HandlerShape, HandlersWellFormed, Message
    <3> QED
      BY <2>1, <2>2, <3>1, <1>2, EnqueueEffect, MaybeEnqueueEffect
      DEF HandlePoison
  <2>3. CASE PublishRetry(h)
    <3>1. worker[h].msg \in Message /\ worker[h].attempt + 1 \in Attempts
      BY <2>1, <2>3, ConstantsAssumption
      DEF PublishRetry, At, HandlerShape, HandlersWellFormed, Message, Attempts
    <3> QED
      BY <2>3, <3>1, <1>2, EnqueueEffect, MaybeEnqueueEffect
      DEF PublishRetry
  <2>4. CASE PublishDLQ(h)
    <3>1. worker[h].msg \in Message
      BY <2>4 DEF PublishDLQ, At, HandlerShape, HandlersWellFormed, Message
    <3> QED
      BY <2>1, <2>4, <3>1, <1>2, EnqueueEffect, MaybeEnqueueEffect
      DEF PublishDLQ
  <2> QED
    BY <1>6, <1>1, <2>2, <2>3, <2>4
    DEF Handle, Mark, Send, MarkDelivered, MarkFailed, Unmark, Record, Ack, Nack,
        Settle
<1>7. ASSUME NEW r \in Admin, Replay(r) \/ AdminCrash(r) PROVE QueueType'
  <2>1. admin[r].attempt \in Attempts
    BY DEF AdminShape, AdminRec
  <2>2. CASE ReplayPublish(r) \/ AdminCrash(r)
    <3>1. admin[r].msg \in Message
      BY <2>2
      DEF ReplayPublish, AdminCrash, AdminShape, AdminsWellFormed, AdminRec
    <3> QED
      BY <2>1, <2>2, <3>1, <1>2, <1>3, EnqueueEffect, MaybeEnqueueEffect
      DEF ReplayPublish, AdminCrash
  <2>3. ASSUME NEW m \in Message, NEW a \in Attempts, ReplayGet(r, m, a)
        PROVE QueueType'
    BY <2>3, <1>2, DequeueEffect DEF ReplayGet
  <2> QED
    BY <1>7, <1>1, <2>2, <2>3 DEF Replay, ReplayAck, ReplayNack, ReplaySettle
<1>8. CASE Disaster
  BY <1>8, <1>1, <1>7, CrashEffect DEF Disaster, CancelContext
<1>9. CASE UNCHANGED vars
  BY <1>9, <1>1 DEF vars
<1> QED
  BY <1>4, <1>5, <1>6, <1>7, <1>8, <1>9 DEF Next

LEMMA NextShape == Shape /\ [Next]_vars => Shape'
<1>1. (QueueType /\ FaultType /\ HandlerShape /\ AdminShape /\ DataType)'
        => Shape'
  BY DEF Shape, TypeOK, QueueType, FaultType, HandlerShape, WorkerType,
         AdminShape, DataType
<1> QED
  BY <1>1, ShapeParts, NextQueueType, NextFaultType, NextHandlerShape,
     NextAdminShape, NextDataType

\* The state of the delivery path is well typed, and every handler and every
\* replay request holds a message its step can be made on: no handler
\* publishes to a retry level above maxAttempts or dead-letters below it
\* (deliver.go:229-264).
THEOREM TypeCorrect == Spec => []TypeOK
<1>1. Spec => []Shape
  BY InitShape, NextShape, PTL DEF Spec
<1>2. Shape => TypeOK
  BY DEF Shape
<1> QED
  BY <1>1, <1>2, PTL

-----------------------------------------------------------------------------
(* What a step can do to one handler                                       *)

LEMMA WorkerStep ==
  ASSUME Shape, [Next]_vars, NEW h \in Handler
  PROVE  \/ worker'[h] = worker[h]
         \/ Handle(h)
         \/ \E m \in Message, a \in Attempts : Deliver(h, m, a)
         \/ worker'[h] = [worker[h] EXCEPT !.ctx = "cancelled"] /\ CancelContext
         \/ worker'[h] = IdleHandler /\ \E H \in SUBSET Handler : Crash(H)
<1> USE ShapeParts DEF HandlerShape
<1>1. ASSUME NEW g \in Handler, g # h, Handle(g) PROVE worker'[h] = worker[h]
  BY <1>1
  DEF Handle, HandlePoison, Mark, Send, MarkDelivered, PublishRetry, PublishDLQ,
      MarkFailed, Unmark, Record, Ack, Nack, Settle, Goto, WorkerType
<1>2. ASSUME NEW g \in Handler, g # h, NEW m \in Message, NEW a \in Attempts,
             Deliver(g, m, a)
      PROVE  worker'[h] = worker[h]
  BY <1>2 DEF Deliver, WorkerType
<1>3. ASSUME CancelContext
      PROVE  \/ worker'[h] = worker[h]
             \/ worker'[h] = [worker[h] EXCEPT !.ctx = "cancelled"]
  BY <1>3 DEF CancelContext
<1>4. ASSUME NEW H \in SUBSET Handler, Crash(H)
      PROVE  worker'[h] = worker[h] \/ worker'[h] = IdleHandler
  BY <1>4 DEF Crash
<1>5. CASE Client \/ (\E r \in Admin : Replay(r) \/ AdminCrash(r))
             \/ UNCHANGED vars \/ \E m \in Message, a \in Attempts : Expire(m, a)
  BY <1>5
  DEF Client, Insert, PublishMain, Cancel, PublishPoison, Replay, ReplayGet,
      ReplayPublish, ReplayAck, ReplayNack, ReplaySettle, AdminCrash, Expire,
      vars
<1> QED
  BY <1>1, <1>2, <1>3, <1>4, <1>5 DEF Next, Broker, Disaster

\* The steps of Handle that only move a handler on.
Moves(h) ==
  \/ HandlePoison(h) \/ Mark(h) \/ MarkDelivered(h) \/ PublishRetry(h)
  \/ PublishDLQ(h) \/ MarkFailed(h) \/ Unmark(h) \/ Record(h)

LEMMA HandleStep ==
  ASSUME Shape, NEW h \in Handler, Handle(h)
  PROVE  \/ Moves(h) /\ worker'[h].msg = worker[h].msg
                      /\ worker'[h].attempt = worker[h].attempt
         \/ Send(h) /\ worker'[h].msg = worker[h].msg
                    /\ worker'[h].attempt = worker[h].attempt
                    /\ worker'[h].pc \in {"markDelivered", "retry", "dlq", "nack"}
         \/ (Ack(h) \/ Nack(h)) /\ worker'[h] = IdleHandler
<1> USE ShapeParts DEF HandlerShape
<1>1. CASE Send(h)
  BY <1>1 DEF Send, WorkerType, HandlerRec, NextOnFailure
<1>2. CASE Ack(h) \/ Nack(h)
  BY <1>2 DEF Ack, Nack, Settle, WorkerType
<1>3. CASE Moves(h)
  <2>1. \E pc \in HandlerPC : Goto(h, pc)
    BY <1>3
    DEF Moves, HandlePoison, Mark, MarkDelivered, PublishRetry, PublishDLQ,
        MarkFailed, Unmark, Record, HandlerPC
  <2> QED
    BY <1>3, <2>1, GotoEffect
<1> QED
  BY <1>1, <1>2, <1>3 DEF Handle, Moves

-----------------------------------------------------------------------------
(* Delivered means accepted                                                *)

\* The provider's acceptances only grow.
LEMMA AcceptedGrows ==
  Shape /\ [Next]_vars => \A m \in Notification : accepted'[m] >= accepted[m]
<1> SUFFICES ASSUME Shape, [Next]_vars
             PROVE  \A m \in Notification : accepted'[m] >= accepted[m]
  OBVIOUS
<1> USE ShapeParts
<1>1. CASE UNCHANGED accepted
  BY <1>1 DEF DataType
<1>2. ASSUME NEW h \in Handler, Send(h)
      PROVE  \A m \in Notification : accepted'[m] >= accepted[m]
  <2>1. accepted' \in {accepted, [accepted EXCEPT ![worker[h].msg] = @ + 1]}
    BY <1>2 DEF Send
  <2> QED
    BY <2>1 DEF DataType
<1>3. ASSUME NEW h \in Handler, Handle(h), ~Send(h) PROVE UNCHANGED accepted
  BY <1>3
  DEF Handle, HandlePoison, Mark, MarkDelivered, PublishRetry, PublishDLQ,
      MarkFailed, Unmark, Record, Ack, Nack, Settle
<1>4. CASE ~(\E h \in Handler : Handle(h))
  BY <1>4, <1>1
  DEF Next, Client, Insert, PublishMain, Cancel, PublishPoison, Broker, Expire,
      Deliver, Replay, ReplayGet, ReplayPublish, ReplayAck, ReplayNack,
      ReplaySettle, Disaster, CancelContext, Crash, AdminCrash, vars
<1> QED
  BY <1>1, <1>2, <1>3, <1>4

\* Who changes a status: the API's insert and cancel, and a handler.
LEMMA StatusStep ==
  ASSUME Shape, [Next]_vars, NEW m \in Notification, status'[m] # status[m]
  PROVE  \/ Insert(m) \/ Cancel(m)
         \/ \E h \in Handler :
              /\ worker[h].msg = m
              /\ \/ MarkDelivered(h) /\ status'[m] = "delivered"
                 \/ MarkFailed(h) /\ status'[m] = "failed"
<1> USE ShapeParts
<1>1. CASE Client
  BY <1>1 DEF Client, Insert, PublishMain, Cancel, PublishPoison, DataType
<1>2. ASSUME NEW h \in Handler, Handle(h)
      PROVE  /\ worker[h].msg = m
             /\ \/ MarkDelivered(h) /\ status'[m] = "delivered"
                \/ MarkFailed(h) /\ status'[m] = "failed"
  <2>1. CASE MarkDelivered(h) \/ MarkFailed(h)
    BY <2>1 DEF MarkDelivered, MarkFailed, SetStatus, MaybeSetStatus, DataType
  <2>2. CASE ~MarkDelivered(h) /\ ~MarkFailed(h)
    BY <1>2, <2>2
    DEF Handle, HandlePoison, Mark, Send, PublishRetry, PublishDLQ, Unmark,
        Record, Ack, Nack, Settle
  <2> QED
    BY <2>1, <2>2
<1>3. CASE Broker \/ (\E r \in Admin : Replay(r)) \/ Disaster \/ UNCHANGED vars
  BY <1>3
  DEF Broker, Expire, Deliver, Replay, ReplayGet, ReplayPublish, ReplayAck,
      ReplayNack, ReplaySettle, Disaster, CancelContext, Crash, AdminCrash, vars
<1> QED
  BY <1>1, <1>2, <1>3 DEF Next

\* A handler that is at "markDelivered" after a step was there before, with
\* the same message, or its Send has just been accepted.
LEMMA IntoMarkDelivered ==
  ASSUME Shape, [Next]_vars, NEW h \in Handler, worker'[h].pc = "markDelivered"
  PROVE  /\ worker'[h].msg = worker[h].msg
         /\ worker[h].pc = "markDelivered" \/ accepted'[worker[h].msg] > 0
<1> USE ShapeParts DEF HandlerShape
<1>1. CASE worker'[h] = worker[h]
  BY <1>1
<1>2. CASE worker'[h] = [worker[h] EXCEPT !.ctx = "cancelled"]
  BY <1>2 DEF WorkerType, HandlerRec
<1>3. CASE worker'[h] = IdleHandler
  BY <1>3 DEF IdleHandler
<1>4. ASSUME NEW m \in Message, NEW a \in Attempts, Deliver(h, m, a)
      PROVE  worker'[h].pc # "markDelivered"
  BY <1>4 DEF Deliver, FirstStep, IdleHandler, WorkerType
<1>5. CASE Send(h)
  <2>1. worker[h].msg \in Notification
    BY <1>5 DEF Send, At, HandlersWellFormed
  <2>2. accepted' = [accepted EXCEPT ![worker[h].msg] = @ + 1]
    BY <1>5 DEF Send, WorkerType, HandlerRec, NextOnFailure
  <2>3. worker'[h].msg = worker[h].msg
    BY <1>5 DEF Send, WorkerType, HandlerRec
  <2> QED
    BY <2>1, <2>2, <2>3 DEF DataType
<1>6. CASE Moves(h)
  <2>1. \E pc \in HandlerPC \ {"markDelivered"} : Goto(h, pc)
    BY <1>6
    DEF Moves, HandlePoison, Mark, MarkDelivered, PublishRetry, PublishDLQ,
        MarkFailed, Unmark, Record, HandlerPC
  <2> QED
    BY <2>1, GotoEffect
<1> QED
  BY <1>1, <1>2, <1>3, <1>4, <1>5, <1>6, WorkerStep, HandleStep

LEMMA NextAcceptedBeforeDelivered ==
  Shape /\ AcceptedBeforeDelivered /\ [Next]_vars => AcceptedBeforeDelivered'
<1> SUFFICES ASSUME Shape, AcceptedBeforeDelivered, [Next]_vars
             PROVE  AcceptedBeforeDelivered'
  OBVIOUS
<1> USE ShapeParts DEF AcceptedBeforeDelivered, DeliveredWasAccepted
<1>1. ASSUME NEW h \in Handler, worker'[h].pc = "markDelivered"
      PROVE  accepted'[worker'[h].msg] > 0
  <2>1. CASE worker[h].pc = "markDelivered"
    <3>1. worker[h].msg \in Notification
      BY <2>1 DEF HandlerShape, HandlersWellFormed
    <3> QED
      BY <1>1, <2>1, <3>1, IntoMarkDelivered, AcceptedGrows, NextDataType
      DEF DataType
  <2>2. CASE worker[h].pc # "markDelivered"
    BY <1>1, <2>2, IntoMarkDelivered
  <2> QED
    BY <2>1, <2>2
<1>2. ASSUME NEW m \in Notification, status'[m] = "delivered"
      PROVE  accepted'[m] > 0
  <2>1. CASE status[m] = "delivered"
    BY <2>1, AcceptedGrows, NextDataType DEF DataType
  <2>2. ASSUME NEW h \in Handler, MarkDelivered(h), worker[h].msg = m
        PROVE  accepted'[m] > 0
    BY <2>2 DEF MarkDelivered, At
  <2>3. status[m] # "delivered"
          => \E h \in Handler : MarkDelivered(h) /\ worker[h].msg = m
    BY <1>2, StatusStep DEF Insert, Cancel, DataType
  <2> QED
    BY <2>1, <2>2, <2>3
<1> QED
  BY <1>1, <1>2

LEMMA AcceptedAlways == Spec => []AcceptedBeforeDelivered
<1>1. Init => Shape /\ AcceptedBeforeDelivered
  BY InitShape
  DEF Init, IdleHandler, AcceptedBeforeDelivered, DeliveredWasAccepted
<1>2. Shape /\ AcceptedBeforeDelivered /\ [Next]_vars
        => (Shape /\ AcceptedBeforeDelivered)'
  BY NextShape, NextAcceptedBeforeDelivered
<1> QED
  BY <1>1, <1>2, PTL DEF Spec

\* A notification is delivered only if the provider accepted it, through any
\* interleaving of crashes, failed calls, replays and cancellations.
THEOREM DeliveredWasAcceptedHolds == Spec => []DeliveredWasAccepted
<1>1. AcceptedBeforeDelivered => DeliveredWasAccepted
  BY DEF AcceptedBeforeDelivered
<1> QED
  BY <1>1, AcceptedAlways, PTL

-----------------------------------------------------------------------------
(* Failed means dead-lettered                                              *)

LEMMA ReplaysGrow == Shape /\ [Next]_vars /\ replays' = 0 => replays = 0
<1> SUFFICES ASSUME Shape, [Next]_vars, replays' = 0 PROVE replays = 0
  OBVIOUS
<1>1. CASE UNCHANGED replays
  BY <1>1
<1>2. ASSUME NEW r \in Admin, NEW m \in Message, NEW a \in Attempts,
             ReplayGet(r, m, a)
      PROVE  FALSE
  BY <1>2, ConstantsAssumption DEF ReplayGet, Shape, TypeOK
<1> QED
  BY <1>1, <1>2
  DEF Next, Client, Insert, PublishMain, Cancel, PublishPoison, Broker, Expire,
      Deliver, Handle, HandlePoison, Mark, Send, MarkDelivered, PublishRetry,
      PublishDLQ, MarkFailed, Unmark, Record, Ack, Nack, Settle, Replay,
      ReplayPublish, ReplayAck, ReplayNack, ReplaySettle, Disaster,
      CancelContext, Crash, AdminCrash, vars

\* Until a replay takes one, dead letters stay.
LEMMA DeadLettersStay ==
  ASSUME Shape, [Next]_vars, replays' = 0, NEW m \in Message, NEW a \in Attempts
  PROVE  replays = 0 /\ queue'["dlq"][m][a] >= queue["dlq"][m][a]
<1> USE ShapeParts
<1>1. "main" \in Place /\ "retry" \in Place /\ "dlq" \in Place
  BY DEF Place
<1>2. queue["dlq"][m][a] \in Nat
  BY <1>1 DEF QueueType
<1>3. 0 \in Attempts
  BY ConstantsAssumption DEF Attempts
<1>4. CASE UNCHANGED queue /\ UNCHANGED replays
  BY <1>2, <1>4
<1>5. CASE Client
  <2>1. ASSUME NEW n \in Notification, PublishMain(n)
        PROVE  queue'["dlq"][m][a] = queue["dlq"][m][a]
    <3>1. MaybeEnqueue("main", n, 0)
      BY <2>1 DEF PublishMain, MaybeEnqueue
    <3> QED
      BY <3>1, <1>1, <1>3, MaybeEnqueueEffect DEF Message
  <2>2. ASSUME NEW n \in Poison, PublishPoison(n)
        PROVE  queue'["dlq"][m][a] = queue["dlq"][m][a]
    BY <2>2, <1>1, <1>3, EnqueueEffect DEF PublishPoison, Message
  <2>3. UNCHANGED replays
    BY <1>5 DEF Client, Insert, PublishMain, Cancel, PublishPoison
  <2>4. queue'["dlq"][m][a] = queue["dlq"][m][a]
    BY <1>5, <2>1, <2>2 DEF Client, Insert, Cancel
  <2> QED
    BY <1>2, <2>3, <2>4
<1>6. CASE Broker
  BY <1>6, <1>1, <1>2, DequeueEffect, ExpireEffect DEF Broker, Expire, Deliver
<1>7. ASSUME NEW h \in Handler, Handle(h)
      PROVE  replays = 0 /\ queue'["dlq"][m][a] >= queue["dlq"][m][a]
  <2>1. worker[h].attempt \in Attempts
    BY DEF HandlerShape, WorkerType, HandlerRec
  <2>2. CASE HandlePoison(h)
    <3>1. worker[h].msg \in Message
      BY <2>2 DEF HandlePoison, At, HandlerShape, HandlersWellFormed, Message
    <3> QED
      BY <2>1, <2>2, <3>1, <1>1, <1>2, EnqueueEffect, MaybeEnqueueEffect
      DEF HandlePoison
  <2>3. CASE PublishRetry(h)
    <3>1. worker[h].msg \in Message /\ worker[h].attempt + 1 \in Attempts
      BY <2>1, <2>3, ConstantsAssumption
      DEF PublishRetry, At, HandlerShape, HandlersWellFormed, Message, Attempts
    <3> QED
      BY <2>3, <3>1, <1>1, <1>2, EnqueueEffect, MaybeEnqueueEffect
      DEF PublishRetry
  <2>4. CASE PublishDLQ(h)
    <3>1. worker[h].msg \in Message
      BY <2>4 DEF PublishDLQ, At, HandlerShape, HandlersWellFormed, Message
    <3> QED
      BY <2>1, <2>4, <3>1, <1>1, <1>2, EnqueueEffect, MaybeEnqueueEffect
      DEF PublishDLQ
  <2> QED
    BY <1>7, <1>4, <2>2, <2>3, <2>4
    DEF Handle, Mark, Send, MarkDelivered, MarkFailed, Unmark, Record, Ack, Nack,
        Settle
<1>8. CASE \E r \in Admin : Replay(r)
  <2>1. ~\E r \in Admin, n \in Message, b \in Attempts : ReplayGet(r, n, b)
    BY DEF ReplayGet, AdminShape
  <2>2. UNCHANGED replays
    BY <1>8, <2>1
    DEF Replay, ReplayPublish, ReplayAck, ReplayNack, ReplaySettle
  <2>3. \A r \in Admin : admin[r].pc = "idle"
    BY <2>2 DEF AdminShape, AdminsWellFormed
  <2> QED
    BY <1>8, <2>1, <2>3
    DEF Replay, ReplayPublish, ReplayAck, ReplayNack, ReplaySettle
<1>9. CASE Disaster
  <2>1. UNCHANGED replays
    BY <1>9 DEF Disaster, CancelContext, Crash, AdminCrash
  <2>2. \A r \in Admin : admin[r].pc = "idle"
    BY <2>1 DEF AdminShape, AdminsWellFormed
  <2>3. ASSUME NEW H \in SUBSET Handler, Crash(H)
        PROVE  queue'["dlq"][m][a] = queue["dlq"][m][a]
    BY <2>3, <1>1, CrashEffect
  <2>4. CASE CancelContext
    BY <2>4, <2>1, <1>4 DEF CancelContext
  <2>5. ~\E r \in Admin : AdminCrash(r)
    BY <2>2 DEF AdminCrash
  <2> QED
    BY <1>9, <1>2, <2>1, <2>3, <2>4, <2>5 DEF Disaster
<1> QED
  BY <1>4, <1>5, <1>6, <1>7, <1>8, <1>9 DEF Next, vars

\* A handler that is at "markFailed" was there before with the same message,
\* or has just put the message in the DLQ.
LEMMA IntoMarkFailed ==
  ASSUME Shape, [Next]_vars, NEW h \in Handler, worker'[h].pc = "markFailed"
  PROVE  /\ worker'[h].msg = worker[h].msg
         /\ worker[h].msg \in Notification
         /\ \/ worker[h].pc = "markFailed"
            \/ \E a \in Attempts : queue'["dlq"][worker[h].msg][a] > 0
<1> USE ShapeParts DEF HandlerShape
<1>1. CASE worker'[h] = worker[h]
  BY <1>1 DEF HandlersWellFormed
<1>2. CASE worker'[h] = [worker[h] EXCEPT !.ctx = "cancelled"]
  BY <1>2 DEF WorkerType, HandlerRec, HandlersWellFormed
<1>3. CASE worker'[h] = IdleHandler
  BY <1>3 DEF IdleHandler
<1>4. ASSUME NEW m \in Message, NEW a \in Attempts, Deliver(h, m, a)
      PROVE  worker'[h].pc # "markFailed"
  BY <1>4 DEF Deliver, FirstStep, IdleHandler, WorkerType
<1>5. CASE Moves(h)
  <2>1. \/ PublishDLQ(h)
        \/ \E pc \in HandlerPC \ {"markFailed"} : Goto(h, pc)
    BY <1>5
    DEF Moves, HandlePoison, Mark, MarkDelivered, PublishRetry,
        MarkFailed, Unmark, Record, HandlerPC
  <2>2. PublishDLQ(h)
    BY <2>1, GotoEffect
  <2>3. \/ Enqueue("dlq", worker[h].msg, worker[h].attempt)
        \/ Goto(h, "nack")
    BY <2>2 DEF PublishDLQ
  <2>4. Enqueue("dlq", worker[h].msg, worker[h].attempt)
    BY <2>3, GotoEffect DEF HandlerPC
  <2>5. worker[h].msg \in Notification /\ worker[h].attempt \in Attempts
    BY <2>2 DEF PublishDLQ, At, HandlersWellFormed, WorkerType, HandlerRec
  <2>6. "dlq" \in Place /\ worker[h].msg \in Message
    BY <2>5 DEF Place, Message
  <2>7. queue'["dlq"][worker[h].msg][worker[h].attempt] > 0
    BY <2>4, <2>5, <2>6, EnqueueEffect DEF QueueType
  <2> QED
    BY <1>5, <2>5, <2>7, GotoEffect, HandleStep, <2>2
    DEF PublishDLQ, HandlerPC
<1> QED
  BY <1>1, <1>2, <1>3, <1>4, <1>5, WorkerStep, HandleStep

LEMMA NextDeadLetteredBeforeFailed ==
  Shape /\ DeadLetteredBeforeFailed /\ [Next]_vars => DeadLetteredBeforeFailed'
<1> SUFFICES ASSUME Shape, DeadLetteredBeforeFailed, [Next]_vars, replays' = 0
             PROVE  /\ FailedIsDeadLettered'
                    /\ \A h \in Handler : worker'[h].pc = "markFailed"
                         => DeadLettered(worker[h].msg)'
                            /\ worker'[h].msg = worker[h].msg
  BY DEF DeadLetteredBeforeFailed, DeadLettered
<1>1. replays = 0
  BY ReplaysGrow
<1>2. ASSUME NEW m \in Message, DeadLettered(m) PROVE DeadLettered(m)'
  <2>1. PICK a \in Attempts : queue["dlq"][m][a] > 0
    BY <1>2 DEF DeadLettered
  <2>2. queue'["dlq"][m][a] >= queue["dlq"][m][a]
    BY DeadLettersStay
  <2>3. queue["dlq"][m][a] \in Nat /\ queue'["dlq"][m][a] \in Nat
    BY ShapeParts, NextQueueType DEF QueueType, Place
  <2> QED
    BY <2>1, <2>2, <2>3 DEF DeadLettered
<1>3. ASSUME NEW h \in Handler, worker'[h].pc = "markFailed"
      PROVE  DeadLettered(worker[h].msg)' /\ worker'[h].msg = worker[h].msg
  <2>1. CASE worker[h].pc = "markFailed"
    BY <1>1, <1>2, <1>3, <2>1, IntoMarkFailed
    DEF DeadLetteredBeforeFailed, Message
  <2>2. CASE \E a \in Attempts : queue'["dlq"][worker[h].msg][a] > 0
    BY <1>3, <2>2, IntoMarkFailed DEF DeadLettered
  <2> QED
    BY <1>3, <2>1, <2>2, IntoMarkFailed
<1>4. ASSUME NEW m \in Notification, status'[m] = "failed"
      PROVE  DeadLettered(m)'
  <2>1. CASE status[m] = "failed"
    BY <1>1, <1>2, <2>1
    DEF DeadLetteredBeforeFailed, FailedIsDeadLettered, Message
  <2>2. CASE status[m] # "failed"
    <3>1. PICK h \in Handler : worker[h].msg = m /\ MarkFailed(h)
      BY <1>4, <2>2, StatusStep, ShapeParts DEF Insert, Cancel, DataType
    <3>2. DeadLettered(m)
      BY <1>1, <3>1 DEF DeadLetteredBeforeFailed, MarkFailed, At
    <3> QED
      BY <1>2, <3>2 DEF Message
  <2> QED
    BY <2>1, <2>2
<1> QED
  BY <1>3, <1>4 DEF FailedIsDeadLettered

\* As long as no admin has taken a dead letter, a notification marked failed
\* lies in the DLQ, whatever calls failed and whoever crashed.
THEOREM FailedIsDeadLetteredHolds == Spec => []FailedIsDeadLettered
<1>1. Init => Shape /\ DeadLetteredBeforeFailed
  BY InitShape
  DEF Init, IdleHandler, DeadLetteredBeforeFailed, FailedIsDeadLettered
<1>2. Shape /\ DeadLetteredBeforeFailed /\ [Next]_vars
        => (Shape /\ DeadLetteredBeforeFailed)'
  BY NextShape, NextDeadLetteredBeforeFailed
<1>3. DeadLetteredBeforeFailed => FailedIsDeadLettered
  BY DEF DeadLetteredBeforeFailed, FailedIsDeadLettered
<1> QED
  BY <1>1, <1>2, <1>3, PTL DEF Spec
=============================================================================
