------------------------- MODULE DeliveryLossProofs -------------------------
(***************************************************************************)
(* Proofs that look across crashes: what a message of the delivery path    *)
(* still has behind it when a worker, a replay request or an answer dies;  *)
(* and, where nothing fails, the rows that its attempts leave.             *)
(***************************************************************************)
EXTENDS DeliveryLockProofs, FunctionTheorems

-----------------------------------------------------------------------------
(* Faults leave a trace                                                    *)

LEMMA FaultGrows ==
  ASSUME Shape, [Next]_vars, NEW m \in Message
  PROVE  fault[m] \subseteq fault'[m]
<1>1. CASE NoFault
  BY <1>1 DEF NoFault
<1>2. CASE \E ms : \E k \in AllFaultKinds : Fault(k, ms)
  BY <1>2, FaultEffect, ShapeParts
<1> QED
  BY <1>1, <1>2, FaultStep

LEMMA UnfailedBefore ==
  ASSUME Shape, [Next]_vars, NEW m \in Message, Unfailed(m)'
  PROVE  Unfailed(m)
  BY FaultGrows DEF Unfailed

LEMMA CtxStep ==
  ASSUME Shape, [Next]_vars, NEW h \in Handler, worker'[h].ctx = "cancelled"
  PROVE  /\ worker'[h].msg = worker[h].msg
         /\ \/ worker[h].ctx = "cancelled"
            \/ worker[h].msg \in Message /\ "ctx" \in fault'[worker[h].msg]
<1> USE ShapeParts DEF HandlerShape
<1>1. CASE worker'[h] = worker[h]
  BY <1>1
<1>2. CASE worker'[h] = IdleHandler
  BY <1>2 DEF IdleHandler
<1>3. ASSUME NEW m \in Message, NEW a \in Attempts, Deliver(h, m, a)
      PROVE  worker'[h].ctx = "live"
  BY <1>3 DEF Deliver, IdleHandler, WorkerType
<1>4. CASE Send(h)
  BY <1>4 DEF Send, WorkerType, HandlerRec
<1>5. CASE Moves(h)
  BY <1>5, GotoEffect
  DEF Moves, HandlePoison, Mark, MarkDelivered, PublishRetry, PublishDLQ,
      MarkFailed, Unmark, Record, HandlerPC
<1>6. ASSUME CancelContext, worker'[h] = [worker[h] EXCEPT !.ctx = "cancelled"]
      PROVE  /\ worker'[h].msg = worker[h].msg
             /\ \/ worker[h].ctx = "cancelled"
                \/ worker[h].msg \in Message /\ "ctx" \in fault'[worker[h].msg]
  <2>1. worker'[h].msg = worker[h].msg
    BY <1>6 DEF WorkerType, HandlerRec
  <2>2. CASE h \in Busy(Handler)
    <3>1. worker[h].msg \in Message
      BY <2>2 DEF Busy, At, HandlersWellFormed, WorkerType, HandlerRec
    <3>2. Fault("ctx", {worker[g].msg : g \in Busy(Handler)})
      BY <1>6 DEF CancelContext
    <3>3. "ctx" \in fault'[worker[h].msg]
      <4>1. "ctx" \in AllFaultKinds
        BY DEF AllFaultKinds
      <4> QED
        <5>1. \A n \in Message :
                fault'[n] = IF n \in {worker[g].msg : g \in Busy(Handler)}
                            THEN fault[n] \cup {"ctx"} ELSE fault[n]
          BY <3>2, <4>1, FaultEffect
        <5> QED
          BY <2>2, <3>1, <5>1
    <3> QED
      BY <2>1, <3>1, <3>3
  <2>3. CASE h \notin Busy(Handler)
    <3>1. worker'[h] = worker[h]
      BY <1>6, <2>3 DEF CancelContext
    <3> QED
      BY <1>1, <3>1
  <2> QED
    BY <2>2, <2>3
<1> QED
  BY <1>1, <1>2, <1>3, <1>4, <1>5, <1>6, WorkerStep, HandleStep

LEMMA NextCancelledIsAFault ==
  Shape /\ CancelledIsAFault /\ [Next]_vars => CancelledIsAFault'
<1> SUFFICES ASSUME Shape, CancelledIsAFault, [Next]_vars,
                    NEW h \in Handler, worker'[h].ctx = "cancelled"
             PROVE  /\ worker'[h].msg \in Message
                    /\ "ctx" \in fault'[worker'[h].msg]
  BY DEF CancelledIsAFault
<1> QED
  BY CtxStep, FaultGrows DEF CancelledIsAFault

\* While no call about a message has failed, its handler's context lives and
\* its calls succeed.
LEMMA CallsSucceed ==
  ASSUME Shape, CancelledIsAFault, [Next]_vars, NEW h \in Handler,
         NEW m \in Message, worker[h].msg = m, Unfailed(m)'
  PROVE  /\ worker[h].ctx = "live"
         /\ \A k \in {"db", "publish"} : ~CallFails(h, k, m)
<1>1. worker[h].ctx = "live"
  <2>1. "ctx" \notin fault[m]
    BY UnfailedBefore DEF Unfailed
  <2> QED
    BY <2>1, ShapeParts
    DEF CancelledIsAFault, HandlerShape, WorkerType, HandlerRec
<1>2. ASSUME NEW k \in {"db", "publish"}, Fault(k, {m}) PROVE FALSE
  <2>1. k \in AllFaultKinds
    BY DEF AllFaultKinds
  <2>2. k \in fault'[m]
    <3>1. \A n \in Message :
            fault'[n] = IF n \in {m} THEN fault[n] \cup {k} ELSE fault[n]
      BY <1>2, <2>1, FaultEffect, ShapeParts
    <3> QED
      BY <3>1
  <2> QED
    BY <2>2 DEF Unfailed
<1> QED
  BY <1>1, <1>2 DEF CallFails

\* Nor did a publish of the API.
LEMMA PublishSucceeds ==
  ASSUME Shape, [Next]_vars, NEW m \in Message, Unfailed(m)'
  PROVE  ~Fault("publish", {m})
<1> SUFFICES ASSUME Fault("publish", {m}) PROVE FALSE
  OBVIOUS
<1>1. "publish" \in fault'[m]
  BY FaultEffect, ShapeParts DEF AllFaultKinds
<1> QED
  BY <1>1 DEF Unfailed

-----------------------------------------------------------------------------
(* The status is final before the record goes                              *)

LEMMA FinalStays ==
  ASSUME Shape, [Next]_vars, NEW m \in Notification,
         status[m] \in {"failed", "delivered"}
  PROVE  status'[m] \in {"failed", "delivered"}
  BY StatusStep DEF Insert, Cancel

\* A handler that is at "unmark" was there before, or did MarkFailed.
LEMMA IntoUnmark ==
  ASSUME Shape, [Next]_vars, NEW h \in Handler, worker'[h].pc = "unmark"
  PROVE  /\ worker'[h].msg = worker[h].msg
         /\ worker[h].msg \in Notification
         /\ worker[h].pc = "unmark" \/ MarkFailed(h)
<1> USE ShapeParts DEF HandlerShape
<1>1. CASE worker'[h] = worker[h]
  BY <1>1 DEF HandlersWellFormed
<1>2. CASE worker'[h] = [worker[h] EXCEPT !.ctx = "cancelled"]
  BY <1>2 DEF WorkerType, HandlerRec, HandlersWellFormed
<1>3. CASE worker'[h] = IdleHandler
  BY <1>3 DEF IdleHandler
<1>4. ASSUME NEW m \in Message, NEW a \in Attempts, Deliver(h, m, a)
      PROVE  worker'[h].pc # "unmark"
  BY <1>4 DEF Deliver, FirstStep, IdleHandler, WorkerType
<1>5. CASE Moves(h)
  <2>1. MarkFailed(h) \/ \E pc \in HandlerPC \ {"unmark"} : Goto(h, pc)
    BY <1>5
    DEF Moves, HandlePoison, Mark, MarkDelivered, PublishRetry, PublishDLQ,
        Unmark, Record, HandlerPC
  <2>2. MarkFailed(h)
    BY <2>1, GotoEffect
  <2> QED
    BY <2>2, GotoEffect DEF MarkFailed, At, HandlersWellFormed, HandlerPC
<1> QED
  BY <1>1, <1>2, <1>3, <1>4, <1>5, WorkerStep, HandleStep

LEMMA NextFinalBeforeUnmark ==
  Shape /\ CancelledIsAFault /\ FinalBeforeUnmark /\ [Next]_vars
    => FinalBeforeUnmark'
<1> SUFFICES ASSUME Shape, CancelledIsAFault, FinalBeforeUnmark, [Next]_vars,
                    NEW h \in Handler, worker'[h].pc = "unmark",
                    fault'[worker'[h].msg] \subseteq {"crash", "answer", "apiCrash"}
             PROVE  status'[worker'[h].msg] \in {"failed", "delivered"}
  BY DEF FinalBeforeUnmark, Unfailed
<1>1. PICK m \in Notification : worker'[h].msg = m /\ worker[h].msg = m
  BY IntoUnmark
<1>2. Unfailed(m)' /\ m \in Message
  BY <1>1 DEF Unfailed, Message
<1>3. CASE worker[h].pc = "unmark"
  <2>1. Unfailed(m)
    BY <1>1, <1>2, UnfailedBefore
  <2> QED
    BY <1>1, <1>3, <2>1, FinalStays DEF FinalBeforeUnmark
<1>4. CASE MarkFailed(h)
  <2>1. SetStatus(m, "failed")
    BY <1>1, <1>2, <1>4, CallsSucceed DEF MarkFailed
  <2> QED
    BY <1>1, <2>1, ShapeParts DEF SetStatus, DataType
<1> QED
  BY <1>3, <1>4, IntoUnmark

-----------------------------------------------------------------------------
(* Where messages are and where they go                                    *)

\* What a step can do to one replay request.
LEMMA AdminStep ==
  ASSUME Shape, [Next]_vars, NEW r \in Admin
  PROVE  \/ admin'[r] = admin[r]
         \/ \E m \in Message, a \in Attempts :
              ReplayGet(r, m, a) /\ admin'[r].msg = m
         \/ ReplayPublish(r) /\ admin'[r].msg = admin[r].msg
         \/ admin'[r] = IdleAdmin /\ (ReplayAck(r) \/ ReplayNack(r) \/ AdminCrash(r))
<1> USE ShapeParts DEF AdminShape
<1>1. CASE UNCHANGED admin
  BY <1>1
<1>2. CASE Client \/ Broker \/ (\E h \in Handler : Handle(h)) \/ UNCHANGED vars
  BY <1>1, <1>2
  DEF Client, Insert, PublishMain, Cancel, PublishPoison, Broker, Expire, Deliver,
      Handle, HandlePoison, Mark, Send, MarkDelivered, PublishRetry, PublishDLQ,
      MarkFailed, Unmark, Record, Ack, Nack, Settle, vars
<1>3. ASSUME NEW q \in Admin, q # r, Replay(q) \/ AdminCrash(q)
      PROVE  admin'[r] = admin[r]
  BY <1>3 DEF Replay, ReplayGet, ReplayPublish, ReplayAck, ReplayNack,
              ReplaySettle, AdminCrash
<1>4. ASSUME NEW m \in Message, NEW a \in Attempts, ReplayGet(r, m, a)
      PROVE  admin'[r].msg = m
  BY <1>4 DEF ReplayGet
<1>5. ASSUME ReplayPublish(r) PROVE admin'[r].msg = admin[r].msg
  BY <1>5 DEF ReplayPublish, AdminRec
<1>6. ASSUME ReplayAck(r) \/ ReplayNack(r) \/ AdminCrash(r)
      PROVE  admin'[r] = IdleAdmin
  BY <1>6 DEF ReplayAck, ReplayNack, ReplaySettle, AdminCrash
<1>7. CASE Replay(r) \/ AdminCrash(r)
  BY <1>4, <1>5, <1>6, <1>7 DEF Replay
<1>8. CASE CancelContext \/ \E H \in SUBSET Handler : Crash(H)
  BY <1>1, <1>8 DEF CancelContext, Crash
<1> QED
  BY <1>2, <1>3, <1>7, <1>8 DEF Next, Disaster

\* A handler holds a message it held before, or has just been given.
LEMMA HandStep ==
  ASSUME Shape, [Next]_vars, NEW h \in Handler, worker'[h].msg # NoMessage
  PROVE  \/ /\ worker'[h].msg = worker[h].msg
            /\ worker'[h].attempt = worker[h].attempt
            /\ worker[h].pc # "idle"
         \/ \E a \in Attempts : /\ Deliver(h, worker'[h].msg, a)
                                /\ worker'[h].msg \in Message
                                /\ worker'[h].attempt = a
                                /\ worker'[h].pc = FirstStep(worker'[h].msg, a)
<1> USE ShapeParts DEF HandlerShape
<1>1. CASE worker'[h] = worker[h] \/ worker'[h] = [worker[h] EXCEPT !.ctx = "cancelled"]
  BY <1>1 DEF WorkerType, HandlerRec, HandlersWellFormed
<1>2. CASE worker'[h] = IdleHandler
  BY <1>2 DEF IdleHandler
<1>3. ASSUME NEW m \in Message, NEW a \in Attempts, Deliver(h, m, a)
      PROVE  /\ worker'[h].msg = m /\ worker'[h].attempt = a
             /\ worker'[h].pc = FirstStep(m, a)
  BY <1>3 DEF Deliver, IdleHandler, WorkerType
<1>4. CASE Handle(h)
  <2>1. worker[h].pc # "idle"
    BY <1>4 DEF Handle, HandlePoison, Mark, Send, MarkDelivered, PublishRetry,
                PublishDLQ, MarkFailed, Unmark, Record, Ack, Nack, Settle, At
  <2> QED
    BY <1>2, <1>4, <2>1, HandleStep
<1> QED
  BY <1>1, <1>2, <1>3, <1>4, WorkerStep

\* A ready message was ready before, was in somebody's hands, or is new.
LEMMA IntoQueue ==
  ASSUME Shape, [Next]_vars, NEW p \in Place, NEW m \in Message,
         NEW a \in Attempts, queue'[p][m][a] > 0
  PROVE  \/ queue[p][m][a] > 0
         \/ queue["retry"][m][a] > 0
         \/ \E h \in Handler : worker[h].msg = m
         \/ \E r \in Admin : admin[r].msg = m
         \/ m \in Notification /\ PublishMain(m)
         \/ m \in Poison /\ PublishPoison(m)
<1> USE ShapeParts
<1>1. queue[p][m][a] \in Nat /\ "main" \in Place /\ "dlq" \in Place
  BY DEF QueueType, Place
<1>2. ASSUME NEW q \in Place, NEW n \in Message, NEW b \in Attempts,
             Enqueue(q, n, b), Source(q, n, b), queue[p][m][a] = 0
      PROVE  \/ \E h \in Handler : worker[h].msg = m
             \/ \E r \in Admin : admin[r].msg = m
             \/ m \in Notification /\ PublishMain(m)
             \/ m \in Poison /\ PublishPoison(m)
  <2>1. n = m
    BY <1>1, <1>2, EnqueueEffect
  <2> QED
    BY <1>2, <2>1 DEF Source
<1>3. ASSUME NEW n \in Message, NEW b \in Attempts, Expire(n, b),
             queue[p][m][a] = 0
      PROVE  queue["retry"][m][a] > 0
  BY <1>1, <1>3, ExpireEffect
<1>4. ASSUME NEW q \in Place, NEW n \in Message, NEW b \in Attempts,
             Dequeue(q, n, b)
      PROVE  queue[p][m][a] > 0
  BY <1>1, <1>4, DequeueEffect
<1>5. ASSUME NEW H \in SUBSET Handler, Crash(H), queue[p][m][a] = 0
      PROVE  \E h \in Handler : worker[h].msg = m
  BY <1>1, <1>5, CrashEffect DEF Busy
<1>6. \A h \in Handler, n \in Message, b \in Attempts :
        Deliver(h, n, b) => queue[p][m][a] > 0
  BY <1>1, <1>4 DEF Deliver
<1>7. \A r \in Admin, n \in Message, b \in Attempts :
        ReplayGet(r, n, b) => queue[p][m][a] > 0
  BY <1>1, <1>4 DEF ReplayGet
<1>8. queue[p][m][a] = 0 \/ queue[p][m][a] > 0
  BY <1>1
<1> QED
  BY <1>2, <1>3, <1>5, <1>6, <1>7, <1>8, QueueStep

\* A ready message stays, unless it is taken or its TTL runs out.
LEMMA QueueStays ==
  ASSUME Shape, [Next]_vars, NEW p \in Place, NEW m \in Message,
         NEW a \in Attempts, queue[p][m][a] > 0
  PROVE  \/ queue'[p][m][a] > 0
         \/ p = "main" /\ \E h \in Handler : Deliver(h, m, a)
         \/ p = "retry" /\ Expire(m, a) /\ queue'["main"][m][a] > 0
         \/ p = "dlq" /\ \E r \in Admin : ReplayGet(r, m, a)
<1> USE ShapeParts
<1>1. /\ queue[p][m][a] \in Nat /\ queue["main"][m][a] \in Nat
      /\ "main" \in Place /\ "retry" \in Place /\ "dlq" \in Place
  BY DEF QueueType, Place
<1>2. ASSUME NEW q \in Place, NEW n \in Message, NEW b \in Attempts,
             Enqueue(q, n, b)
      PROVE  queue'[p][m][a] > 0
  BY <1>1, <1>2, EnqueueEffect
<1>3. ASSUME NEW n \in Message, NEW b \in Attempts, Expire(n, b),
             ~(queue'[p][m][a] > 0)
      PROVE  p = "retry" /\ Expire(m, a) /\ queue'["main"][m][a] > 0
  <2>1. p = "retry" /\ n = m /\ b = a
    BY <1>1, <1>3, ExpireEffect
  <2> QED
    BY <1>1, <1>3, <2>1, ExpireEffect
<1>4. ASSUME NEW q \in Place, NEW n \in Message, NEW b \in Attempts,
             Dequeue(q, n, b), ~(queue'[p][m][a] > 0)
      PROVE  p = q /\ n = m /\ b = a
  BY <1>1, <1>4, DequeueEffect
<1>5. ASSUME NEW H \in SUBSET Handler, Crash(H) PROVE queue'[p][m][a] > 0
  BY <1>1, <1>5, CrashEffect
<1>6. CASE UNCHANGED queue
  BY <1>6
<1> QED
  BY <1>1, <1>2, <1>3, <1>4, <1>5, <1>6, QueueStep DEF Deliver, ReplayGet

-----------------------------------------------------------------------------
(* Nothing carries a notification that was not created                     *)

LEMMA ApiStep ==
  ASSUME Shape, [Next]_vars, NEW m \in Notification, api'[m] # api[m]
  PROVE  Insert(m) \/ PublishMain(m)
<1> USE ShapeParts DEF DataType
<1>1. CASE Client
  BY <1>1, ConstantsAssumption
  DEF Client, Insert, PublishMain, Cancel, PublishPoison, Message
<1>2. CASE ~Client
  BY <1>2
  DEF Next, Broker, Expire, Deliver, Handle, HandlePoison, Mark, Send,
      MarkDelivered, PublishRetry, PublishDLQ, MarkFailed, Unmark, Record, Ack,
      Nack, Settle, Replay, ReplayGet, ReplayPublish, ReplayAck, ReplayNack,
      ReplaySettle, Disaster, CancelContext, Crash, AdminCrash, vars
<1> QED
  BY <1>1, <1>2

LEMMA NextNothingBeforeInsert ==
  Shape /\ NothingBeforeInsert /\ [Next]_vars => NothingBeforeInsert'
<1> SUFFICES ASSUME Shape, NothingBeforeInsert, [Next]_vars,
                    NEW m \in Notification, api'[m] = "new"
             PROVE  /\ status'[m] = "none" /\ accepted'[m] = 0
                    /\ m \notin processed' /\ ~Alive(m)'
  BY DEF NothingBeforeInsert
<1>1. ~Insert(m) /\ ~PublishMain(m)
  BY ShapeParts, NextDataType DEF Insert, PublishMain, DataType, Message
<1>2. api[m] = "new"
  BY <1>1, ApiStep
<1>3. /\ status[m] = "none" /\ accepted[m] = 0 /\ m \notin processed
      /\ \A p \in Place, a \in Attempts : ~(queue[p][m][a] > 0)
      /\ \A h \in Handler : worker[h].msg # m
      /\ \A r \in Admin : admin[r].msg # m
  BY <1>2 DEF NothingBeforeInsert, Alive, InHand
<1>4. m \in Message /\ m # NoMessage /\ m \notin Poison
  BY ConstantsAssumption DEF Message
<1>5. status'[m] = "none"
  BY <1>1, <1>3, StatusStep DEF Cancel
<1>6. accepted'[m] = 0
  BY <1>3, AcceptedStep
<1>7. m \notin processed'
  BY <1>3, RecordStep DEF Takes
<1>8. \A h \in Handler : worker'[h].msg # m
  BY <1>3, <1>4, HandStep DEF Deliver, Dequeue, Place
<1>9. \A r \in Admin : admin'[r].msg # m
  BY <1>3, <1>4, AdminStep DEF ReplayGet, Dequeue, Place, IdleAdmin
<1>10. \A p \in Place, a \in Attempts : ~(queue'[p][m][a] > 0)
  BY <1>1, <1>3, <1>4, IntoQueue DEF Place
<1> QED
  BY <1>5, <1>6, <1>7, <1>8, <1>9, <1>10 DEF Alive, InHand

-----------------------------------------------------------------------------
(* The first schedule of a notification                                    *)

\* A copy past the guard comes from one, or from a retry.
LEMMA IntoLater ==
  ASSUME Shape, [Next]_vars, NEW m \in Notification, LaterCopy(m)'
  PROVE  \/ LaterCopy(m)
         \/ \E h \in Handler : PublishRetry(h) /\ worker[h].msg = m
<1> USE ShapeParts DEF HandlerShape
<1>1. ASSUME NEW h \in Handler, worker'[h].msg = m, worker'[h].attempt > 0
      PROVE  LaterCopy(m)
  <2>1. m # NoMessage
    BY ConstantsAssumption DEF Message
  <2>2. CASE worker'[h].msg = worker[h].msg /\ worker'[h].attempt = worker[h].attempt
    BY <1>1, <2>2 DEF LaterCopy
  <2>3. ASSUME NEW a \in Attempts, Deliver(h, m, a), worker'[h].attempt = a
        PROVE  LaterCopy(m)
    <3>1. a \in Levels
      BY <1>1, <2>3, ConstantsAssumption DEF Attempts, Levels
    <3>2. Waiting("main", m, a)
      BY <2>3 DEF Deliver, Dequeue, Waiting
    <3> QED
      BY <3>1, <3>2 DEF LaterCopy, WaitingPlace
  <2> QED
    BY <1>1, <2>1, <2>2, <2>3, HandStep
<1>2. ASSUME NEW p \in WaitingPlace, NEW a \in Levels, Waiting(p, m, a)'
      PROVE  \/ LaterCopy(m)
             \/ \E h \in Handler : PublishRetry(h) /\ worker[h].msg = m
  <2>1. CASE Waiting(p, m, a) \/ Waiting("retry", m, a)
    BY <2>1 DEF LaterCopy, WaitingPlace
  <2>2. ASSUME NEW H \in SUBSET Handler, NEW h \in Busy(H),
               worker[h].msg = m, worker[h].attempt = a
        PROVE  LaterCopy(m)
    BY <2>2, WaitingFacts DEF LaterCopy, Busy
  <2> QED
    BY <1>2, <2>1, <2>2, IntoWaiting
<1> QED
  BY <1>1, <1>2 DEF LaterCopy

\* A first attempt was one before, or Mark has just let it through.
LEMMA IntoFirstTry ==
  ASSUME Shape, [Next]_vars, NEW h \in Handler, NEW m \in Notification,
         FirstTry(h, m)'
  PROVE  FirstTry(h, m) \/ Takes(h, m)
<1> USE ShapeParts DEF HandlerShape, FirstTry
<1>1. CASE worker'[h] = worker[h]
  BY <1>1
<1>2. CASE worker'[h] = [worker[h] EXCEPT !.ctx = "cancelled"]
  BY <1>2 DEF WorkerType, HandlerRec
<1>3. CASE worker'[h] = IdleHandler
  BY <1>3 DEF IdleHandler
<1>4. ASSUME NEW n \in Message, NEW a \in Attempts, Deliver(h, n, a)
      PROVE  FALSE
  BY <1>4 DEF Deliver, FirstStep, IdleHandler, WorkerType
<1>5. CASE Send(h)
  <2>1. worker[h].pc = "send"
    BY <1>5 DEF Send, At
  <2> QED
    BY <1>5, <2>1, HandleStep
    DEF Handle, Moves, HandlePoison, Mark, MarkDelivered, PublishRetry,
        PublishDLQ, MarkFailed, Unmark, Record, Ack, Nack, Settle, At
<1>6. CASE Moves(h)
  <2>1. \/ Mark(h)
        \/ \E pc \in {"ack", "nack", "record", "markFailed", "unmark"} : Goto(h, pc)
    BY <1>6 DEF Moves, HandlePoison, MarkDelivered, PublishRetry, PublishDLQ,
                MarkFailed, Unmark, Record
  <2>2. Mark(h)
    BY <2>1, GotoEffect DEF HandlerPC
  <2>3. worker'[h].msg = worker[h].msg
    BY <2>2, GotoEffect DEF Mark, HandlerPC
  <2>4. /\ m \notin processed /\ processed' = processed \cup {m}
        /\ tried' = [tried EXCEPT ![m] = {}]
    BY <2>2, <2>3, GotoEffect DEF Mark, HandlerPC
  <2> QED
    BY <2>2, <2>3, <2>4 DEF Takes, DataType
<1> QED
  BY <1>1, <1>2, <1>3, <1>4, <1>5, <1>6, WorkerStep, HandleStep

\* The handler that carries m goes on with it, short of its crash.
LEMMA CarrierStep ==
  ASSUME Shape, CancelledIsAFault, [Next]_vars, NEW m \in Notification,
         Unfailed(m)', status'[m] \in {"pending", "cancelled"},
         NEW h \in Handler, worker[h].msg = m,
         worker[h].pc \in {"send", "markDelivered", "retry", "dlq", "markFailed"}
  PROVE  \/ Carried(m)'
         \/ \E H \in SUBSET Handler : Crash(H) /\ h \in Busy(H)
<1> USE ShapeParts DEF HandlerShape
<1>1. m \in Message
  BY DEF Message
<1>2. /\ worker[h].ctx = "live"
      /\ \A k \in {"db", "publish"} : ~CallFails(h, k, m)
  BY <1>1, CallsSucceed
<1>3. CASE worker'[h] = worker[h]
  BY <1>3 DEF Carried
<1>4. CASE worker'[h] = [worker[h] EXCEPT !.ctx = "cancelled"]
  BY <1>4 DEF Carried, WorkerType, HandlerRec
<1>5. ASSUME NEW H \in SUBSET Handler, Crash(H), worker'[h] = IdleHandler
      PROVE  h \in Busy(H)
  BY <1>5 DEF Crash, Busy, At, IdleHandler
<1>6. \A n \in Message, a \in Attempts : ~Deliver(h, n, a)
  BY DEF Deliver, At
<1>7. CASE Send(h)
  <2>1. worker'[h].msg = m /\ worker'[h].pc \in {"markDelivered", "retry", "dlq"}
    BY <1>2, <1>7 DEF Send, NextOnFailure, WorkerType, HandlerRec
  <2> QED
    BY <2>1 DEF Carried
<1>8. ~MarkDelivered(h) /\ ~MarkFailed(h)
  BY <1>2 DEF MarkDelivered, MarkFailed, SetStatus, DataType
<1>9. CASE PublishRetry(h)
  <2> DEFINE level == worker[h].attempt + 1
  <2>1. Enqueue("retry", m, level)
    BY <1>2, <1>9 DEF PublishRetry
  <2>2. level \in Levels
    <3>1. worker[h].attempt \in Attempts /\ worker[h].attempt < MaxAttempts
      BY <1>9 DEF WorkerType, HandlerRec, HandlersWellFormed, PublishRetry, At
    <3> QED
      BY <3>1, ConstantsAssumption DEF Attempts, Levels
  <2> HIDE DEF level
  <2>3. "retry" \in WaitingPlace
    BY DEF WaitingPlace
  <2>4. queue'["retry"][m][level] > 0
    BY <2>1, <2>2, <2>3, WaitingFacts, EnqueueEffect
  <2> QED
    BY <2>2, <2>3, <2>4 DEF Carried, Waiting
<1>10. CASE PublishDLQ(h)
  <2>1. Goto(h, "markFailed")
    BY <1>2, <1>10 DEF PublishDLQ
  <2>2. worker'[h].msg = m /\ worker'[h].pc = "markFailed"
    BY <2>1, GotoEffect DEF HandlerPC
  <2> QED
    BY <2>2 DEF Carried
<1>11. CASE Handle(h)
  BY <1>7, <1>8, <1>9, <1>10, <1>11
  DEF Handle, HandlePoison, Mark, Unmark, Record, Ack, Nack, Settle, At
<1> QED
  BY <1>3, <1>4, <1>5, <1>6, <1>11, WorkerStep

\* What carries m is lost only by the crash of a first attempt.
LEMMA CarriedStays ==
  ASSUME Shape, CancelledIsAFault, [Next]_vars, NEW m \in Notification,
         Unfailed(m)', status'[m] \in {"pending", "cancelled"},
         FirstSchedule(m), Carried(m)
  PROVE  Carried(m)' \/ ("crash" \in fault'[m] /\ tried'[m] \subseteq {0})
<1> USE ShapeParts DEF HandlerShape
<1>1. m \in Message
  BY DEF Message
<1>2. ASSUME NEW h \in Handler, worker[h].msg = m,
             worker[h].pc \in {"send", "markDelivered", "retry", "dlq", "markFailed"},
             NEW H \in SUBSET Handler, Crash(H), h \in Busy(H)
      PROVE  Carried(m)' \/ ("crash" \in fault'[m] /\ tried'[m] \subseteq {0})
  <2>1. worker[h].attempt \in Attempts
    BY DEF WorkerType, HandlerRec
  <2>2. CASE worker[h].attempt = 0
    <3>1. FirstTry(h, m)
      BY <1>2, <2>2, ConstantsAssumption DEF FirstTry, HandlersWellFormed
    <3>2. tried'[m] \subseteq {0}
      BY <1>2, <3>1 DEF FirstSchedule, OneFirstTry, Crash
    <3>3. "crash" \in AllFaultKinds
      BY DEF AllFaultKinds
    <3>4. \A n \in Message : fault'[n] = IF n \in {worker[g].msg : g \in Busy(H)}
                                        THEN fault[n] \cup {"crash"} ELSE fault[n]
      BY <1>2, <3>3, FaultEffect DEF Crash
    <3> QED
      BY <1>1, <1>2, <3>2, <3>4
  <2>3. CASE worker[h].attempt # 0
    <3>1. worker[h].attempt \in Levels
      BY <2>1, <2>3, ConstantsAssumption DEF Attempts, Levels
    <3>2. queue'["main"][m][worker[h].attempt] > 0
      BY <1>1, <1>2, <2>1, CrashEffect
    <3> QED
      BY <3>1, <3>2 DEF Carried, Waiting, WaitingPlace
  <2> QED
    BY <2>2, <2>3
<1>3. ASSUME NEW p \in WaitingPlace, NEW a \in Levels, Waiting(p, m, a)
      PROVE  Carried(m)'
  <2>1. p \in Place /\ p # "dlq" /\ a \in Attempts /\ a > 0 /\ a # 0
    BY WaitingFacts
  <2>2. CASE queue'[p][m][a] > 0
    BY <2>2 DEF Carried, Waiting
  <2>3. CASE queue'["main"][m][a] > 0
    BY <2>3 DEF Carried, Waiting, WaitingPlace
  <2>4. ASSUME NEW h \in Handler, Deliver(h, m, a) PROVE Carried(m)'
    <3>1. m \notin Poison
      BY ConstantsAssumption
    <3>2. worker'[h].msg = m /\ worker'[h].pc = "send"
      BY <2>1, <2>4, <3>1 DEF Deliver, IdleHandler, WorkerType, FirstStep
    <3> QED
      BY <3>2 DEF Carried
  <2> QED
    BY <1>1, <1>3, <2>1, <2>2, <2>3, <2>4, QueueStays DEF Waiting
<1>4. CASE \E h \in Handler :
             /\ worker[h].msg = m
             /\ worker[h].pc \in {"send", "markDelivered", "retry", "dlq", "markFailed"}
  BY <1>2, <1>4, CarrierStep
<1> QED
  BY <1>3, <1>4 DEF Carried

\* The message that Create published reaches the dedup guard.
LEMMA FirstMessageStays ==
  ASSUME Shape, CancelledIsAFault, [Next]_vars, NEW m \in Notification,
         Unfailed(m)', m \notin processed, m \notin processed',
         \/ queue["main"][m][0] > 0
         \/ \E h \in Handler : worker[h].msg = m /\ worker[h].pc = "mark"
  PROVE  \/ queue'["main"][m][0] > 0
         \/ \E h \in Handler : worker'[h].msg = m /\ worker'[h].pc = "mark"
<1> USE ShapeParts DEF HandlerShape
<1>1. m \in Message /\ m \notin Poison /\ "main" \in Place /\ 0 \in Attempts
  BY ConstantsAssumption DEF Message, Place, Attempts
<1>2. ASSUME NEW h \in Handler, Deliver(h, m, 0)
      PROVE  worker'[h].msg = m /\ worker'[h].pc = "mark"
  BY <1>1, <1>2 DEF Deliver, IdleHandler, WorkerType, FirstStep
<1>3. CASE queue["main"][m][0] > 0
  BY <1>1, <1>2, <1>3, QueueStays
<1>4. ASSUME NEW h \in Handler, worker[h].msg = m, worker[h].pc = "mark"
      PROVE  \/ queue'["main"][m][0] > 0
             \/ worker'[h].msg = m /\ worker'[h].pc = "mark"
  <2>1. ~CallFails(h, "db", m) /\ ~Mark(h)
    <3>1. ~CallFails(h, "db", m)
      BY <1>1, <1>4, CallsSucceed
    <3>2. Mark(h) => m \in processed \/ m \in processed'
      BY <1>4, <3>1 DEF Mark
    <3> QED
      BY <3>1, <3>2
  <2>2. ~Handle(h)
    BY <1>4, <2>1
    DEF Handle, HandlePoison, Send, MarkDelivered, PublishRetry, PublishDLQ,
        MarkFailed, Unmark, Record, Ack, Nack, Settle, At
  <2>3. \A n \in Message, a \in Attempts : ~Deliver(h, n, a)
    BY <1>4 DEF Deliver, At
  <2>4. ASSUME NEW H \in SUBSET Handler, Crash(H), worker'[h] = IdleHandler
        PROVE  queue'["main"][m][0] > 0
    <3>1. h \in Busy(H) /\ worker[h].attempt = 0
      BY <1>4, <2>4 DEF Crash, Busy, At, IdleHandler, HandlersWellFormed
    <3> QED
      BY <1>1, <1>4, <2>4, <3>1, CrashEffect
  <2>5. worker'[h] = [worker[h] EXCEPT !.ctx = "cancelled"]
          => worker'[h].msg = m /\ worker'[h].pc = "mark"
    BY <1>4 DEF WorkerType, HandlerRec
  <2> QED
    BY <1>4, <2>2, <2>3, <2>4, <2>5, WorkerStep
<1> QED
  BY <1>3, <1>4

\* Before its first verdict a notification is not released.
LEMMA RecordStays ==
  ASSUME Shape, FinalBeforeUnmark, [Next]_vars, NEW m \in Notification,
         Unfailed(m)', status'[m] \in {"pending", "cancelled"}, m \in processed
  PROVE  m \in processed'
<1>1. Unfailed(m)
  BY UnfailedBefore DEF Message
<1>2. ASSUME NEW h \in Handler, Unmark(h), worker[h].msg = m PROVE FALSE
  <2>1. status[m] \in {"failed", "delivered"}
    BY <1>1, <1>2 DEF Unmark, At, FinalBeforeUnmark
  <2> QED
    BY <2>1, FinalStays
<1> QED
  BY <1>2, RecordStep DEF Takes

\* While the record of m stays, one handler makes its first attempt.
LEMMA NextOneFirstTry ==
  ASSUME Shape, [Next]_vars, NEW m \in Notification,
         m \in processed => m \in processed', OneFirstTry(m)
  PROVE  OneFirstTry(m)'
<1> USE ShapeParts DEF HandlerShape
<1>1. \A h \in Handler : worker[h].attempt \in Nat
  BY ConstantsAssumption DEF WorkerType, HandlerRec, Attempts
<1>2. ASSUME NEW h \in Handler, PublishRetry(h), worker[h].msg = m
      PROVE  FirstTry(h, m) \/ LaterCopy(m)
  BY <1>1, <1>2 DEF PublishRetry, At, FirstTry, LaterCopy
<1>3. LaterCopy(m)' => m \in processed
  BY <1>2, IntoLater DEF OneFirstTry
<1>4. ASSUME NEW h \in Handler, FirstTry(h, m)'
      PROVE  m \in processed' /\ tried'[m] \subseteq {0} /\ ~LaterCopy(m)'
  <2>1. CASE Takes(h, m)
    BY <1>3, <2>1 DEF Takes
  <2>2. CASE FirstTry(h, m)
    <3>1. m \in processed /\ tried[m] \subseteq {0} /\ ~LaterCopy(m)
      BY <2>2 DEF OneFirstTry
    <3>2. tried'[m] \subseteq {0}
      <4>1. ASSUME NEW g \in Handler, worker[g].msg = m,
                   tried'[m] = tried[m] \cup {worker[g].attempt}
            PROVE  tried'[m] \subseteq {0}
        BY <1>1, <3>1, <4>1 DEF LaterCopy
      <4> QED
        BY <3>1, <4>1, TriedStep DEF Takes
    <3>3. ~LaterCopy(m)'
      <4>1. ASSUME NEW g \in Handler, PublishRetry(g), worker[g].msg = m
            PROVE  FALSE
        <5>1. g = h
          BY <1>2, <2>2, <3>1, <4>1 DEF OneFirstTry
        <5>2. Goto(h, "record") \/ Goto(h, "nack")
          BY <4>1, <5>1 DEF PublishRetry
        <5> QED
          BY <1>4, <5>2, GotoEffect DEF FirstTry, HandlerPC
      <4> QED
        BY <3>1, <4>1, IntoLater
    <3> QED
      BY <3>1, <3>2, <3>3
  <2> QED
    BY <1>4, <2>1, <2>2, IntoFirstTry
<1>5. ASSUME NEW h \in Handler, NEW g \in Handler, FirstTry(h, m)', FirstTry(g, m)'
      PROVE  h = g
  <2>1. ASSUME NEW i \in Handler, NEW j \in Handler, Takes(i, m), i # j,
               FirstTry(j, m)'
        PROVE  FALSE
    <3>1. worker'[j] = worker[j] /\ m \notin processed
      BY <2>1, OtherHandlers DEF Takes, Handle
    <3>2. FirstTry(j, m)
      BY <2>1, <3>1 DEF FirstTry
    <3> QED
      BY <3>1, <3>2 DEF OneFirstTry
  <2> QED
    BY <1>5, <2>1, IntoFirstTry DEF OneFirstTry
<1> QED
  BY <1>3, <1>4, <1>5 DEF OneFirstTry

LEMMA NextFirstSchedule ==
  ASSUME Shape, CancelledIsAFault, FinalBeforeUnmark, [Next]_vars,
         NEW m \in Notification, Unfailed(m)',
         status'[m] \in {"pending", "cancelled"}, FirstSchedule(m)
  PROVE  FirstSchedule(m)'
<1> USE ShapeParts DEF HandlerShape
<1>1. m \in processed => m \in processed'
  BY RecordStays
<1>2. OneFirstTry(m)'
  BY <1>1, NextOneFirstTry DEF FirstSchedule
<1>3. ASSUME m \in processed'
      PROVE  Carried(m)' \/ ("crash" \in fault'[m] /\ tried'[m] \subseteq {0})
  <2>1. CASE m \notin processed
    <3>1. PICK h \in Handler : Takes(h, m)
      BY <1>3, <2>1, RecordStep
    <3>2. ~CallFails(h, "db", m)
      BY <3>1, CallsSucceed DEF Takes, Message
    <3>3. Goto(h, "send")
      BY <3>1, <3>2 DEF Takes, Mark
    <3>4. worker'[h].msg = m /\ worker'[h].pc = "send"
      BY <3>1, <3>3, GotoEffect DEF Takes, HandlerPC
    <3> QED
      BY <3>4 DEF Carried
  <2>2. CASE Carried(m)
    BY <2>2, CarriedStays
  <2>3. CASE ~Carried(m) /\ "crash" \in fault[m] /\ tried[m] \subseteq {0}
    <3>1. "crash" \in fault'[m]
      BY <2>3, FaultGrows DEF Message
    <3>2. \A h \in Handler : Send(h) => worker[h].msg # m
      BY <2>3 DEF Send, At, Carried
    <3>3. tried'[m] \subseteq {0}
      BY <2>3, <3>2, TriedStep DEF Takes
    <3> QED
      BY <3>1, <3>3
  <2> QED
    BY <2>1, <2>2, <2>3 DEF FirstSchedule
<1>4. ASSUME m \notin processed', api'[m] = "accepted"
      PROVE  \/ queue'["main"][m][0] > 0
             \/ \E h \in Handler : worker'[h].msg = m /\ worker'[h].pc = "mark"
  <2>1. m \notin processed
    BY <1>1, <1>4
  <2>2. CASE api[m] = "accepted"
    BY <1>4, <2>1, <2>2, FirstMessageStays DEF FirstSchedule
  <2>3. CASE api[m] # "accepted"
    <3>1. m \in Message /\ "main" \in Place /\ 0 \in Attempts
      BY ConstantsAssumption DEF Message, Place, Attempts
    <3>2. PublishMain(m) /\ Enqueue("main", m, 0)
      <4>1. Insert(m) \/ PublishMain(m)
        BY <1>4, <2>3, ApiStep
      <4>2. ~Insert(m)
        BY <1>4, <3>1 DEF Insert, DataType
      <4>3. api' = [api EXCEPT ![m] = "rejected"] => api'[m] = "rejected"
        BY <3>1 DEF DataType
      <4> QED
        BY <1>4, <4>1, <4>2, <4>3 DEF PublishMain
    <3> QED
      BY <3>1, <3>2, EnqueueEffect DEF QueueType
  <2> QED
    BY <2>2, <2>3
<1> QED
  BY <1>2, <1>3, <1>4 DEF FirstSchedule

LEMMA NextFirstScheduleInv ==
  /\ Shape /\ CancelledIsAFault /\ FinalBeforeUnmark /\ NothingBeforeInsert
  /\ FirstScheduleInv /\ [Next]_vars
  => FirstScheduleInv'
<1> SUFFICES ASSUME Shape, CancelledIsAFault, FinalBeforeUnmark,
                    NothingBeforeInsert, FirstScheduleInv, [Next]_vars,
                    NEW m \in Notification, Unfailed(m)',
                    status'[m] \in {"pending", "cancelled"}
             PROVE  FirstSchedule(m)'
  BY DEF FirstScheduleInv
<1>1. CASE status[m] \in {"pending", "cancelled"}
  <2>1. FirstSchedule(m)
    BY <1>1, UnfailedBefore DEF FirstScheduleInv, Message
  <2> QED
    BY <2>1, NextFirstSchedule
<1>2. CASE Insert(m)
  <2>1. /\ m \notin processed
        /\ \A p \in Place, a \in Attempts : ~(queue[p][m][a] > 0)
        /\ \A h \in Handler : worker[h].msg # m
    BY <1>2 DEF Insert, NothingBeforeInsert, Alive, InHand
  <2>2. \A p \in WaitingPlace, a \in Levels : ~Waiting(p, m, a)
    BY <2>1, WaitingFacts DEF Waiting
  <2>3. UNCHANGED <<queue, worker, processed, tried, fault>>
        /\ api'[m] = "inserted"
    BY <1>2, ShapeParts DEF Insert, DataType, Message
  <2> QED
    BY <2>1, <2>2, <2>3 DEF FirstSchedule, OneFirstTry, FirstTry, LaterCopy, Waiting
<1> QED
  BY <1>1, <1>2, StatusStep DEF Cancel

\* A poison message moves between the main queue, a handler, the DLQ and a
\* replay, and stays.
LEMMA NextPoisonKept ==
  Shape /\ CancelledIsAFault /\ PoisonKept /\ [Next]_vars => PoisonKept'
<1> SUFFICES ASSUME Shape, CancelledIsAFault, PoisonKept, [Next]_vars,
                    NEW m \in Poison, api'[m] = "accepted",
                    fault'[m] \subseteq {"answer", "apiCrash"}
             PROVE  \/ \E p \in Place, a \in Attempts : queue'[p][m][a] > 0
                    \/ \E h \in Handler :
                         worker'[h].msg = m /\ worker'[h].pc = "poison"
                    \/ \E r \in Admin :
                         admin'[r].msg = m /\ admin'[r].pc = "publish"
  BY DEF PoisonKept
<1> USE ShapeParts DEF HandlerShape, AdminShape
<1>1. /\ m \in Message /\ m \notin Notification /\ m # NoMessage
      /\ "main" \in Place /\ "dlq" \in Place /\ 0 \in Attempts
  BY ConstantsAssumption DEF Message, Place, Attempts
<1>2. /\ Unfailed(m)' /\ "crash" \notin fault'[m]
      /\ fault[m] \subseteq {"answer", "apiCrash"}
  BY <1>1, FaultGrows DEF Unfailed
<1>3. \A a \in Attempts : Enqueue("main", m, a) => queue'["main"][m][a] > 0
  BY <1>1, EnqueueEffect DEF QueueType
<1>4. \A a \in Attempts : Enqueue("dlq", m, a) => queue'["dlq"][m][a] > 0
  BY <1>1, EnqueueEffect DEF QueueType
<1>5. CASE api[m] # "accepted"
  <2>1. PublishPoison(m)
    <3>1. CASE Client
      BY <1>1, <1>5, <3>1
      DEF Client, Insert, PublishMain, Cancel, PublishPoison, Message, DataType
    <3>2. CASE ~Client
      BY <1>5, <3>2
      DEF Next, Broker, Expire, Deliver, Handle, HandlePoison, Mark, Send,
          MarkDelivered, PublishRetry, PublishDLQ, MarkFailed, Unmark, Record,
          Ack, Nack, Settle, Replay, ReplayGet, ReplayPublish, ReplayAck,
          ReplayNack, ReplaySettle, Disaster, CancelContext, Crash, AdminCrash,
          vars
    <3> QED
      BY <3>1, <3>2
  <2> QED
    BY <1>1, <1>3, <2>1 DEF PublishPoison
<1>6. ASSUME NEW p \in Place, NEW a \in Attempts, queue[p][m][a] > 0
      PROVE  \/ \E q \in Place, b \in Attempts : queue'[q][m][b] > 0
             \/ \E h \in Handler :
                  worker'[h].msg = m /\ worker'[h].pc = "poison"
             \/ \E r \in Admin :
                  admin'[r].msg = m /\ admin'[r].pc = "publish"
  <2>1. \A h \in Handler : Deliver(h, m, a) =>
          worker'[h].msg = m /\ worker'[h].pc = "poison"
    BY DEF Deliver, IdleHandler, WorkerType, FirstStep
  <2>2. \A r \in Admin : ReplayGet(r, m, a) =>
          admin'[r].msg = m /\ admin'[r].pc = "publish"
    BY DEF ReplayGet
  <2> QED
    BY <1>1, <1>6, <2>1, <2>2, QueueStays
<1>7. ASSUME NEW h \in Handler, worker[h].msg = m, worker[h].pc = "poison"
      PROVE  \/ \E q \in Place, b \in Attempts : queue'[q][m][b] > 0
             \/ worker'[h].msg = m /\ worker'[h].pc = "poison"
  <2>1. ~CallFails(h, "publish", m) /\ worker[h].attempt \in Attempts
    BY <1>1, <1>2, <1>7, CallsSucceed DEF WorkerType, HandlerRec
  <2>2. HandlePoison(h) => queue'["dlq"][m][worker[h].attempt] > 0
    BY <1>4, <1>7, <2>1 DEF HandlePoison
  <2>3. Handle(h) => HandlePoison(h)
    BY <1>7
    DEF Handle, Mark, Send, MarkDelivered, PublishRetry, PublishDLQ, MarkFailed,
        Unmark, Record, Ack, Nack, Settle, At
  <2>4. \A n \in Message, a \in Attempts : ~Deliver(h, n, a)
    BY <1>7 DEF Deliver, At
  <2>5. ASSUME NEW H \in SUBSET Handler, Crash(H), worker'[h] = IdleHandler
        PROVE  FALSE
    <3>1. h \in Busy(H)
      BY <1>7, <2>5 DEF Crash, Busy, At, IdleHandler
    <3>2. "crash" \in AllFaultKinds
      BY DEF AllFaultKinds
    <3>3. \A n \in Message : fault'[n] = IF n \in {worker[g].msg : g \in Busy(H)}
                                        THEN fault[n] \cup {"crash"} ELSE fault[n]
      BY <2>5, <3>2, FaultEffect DEF Crash
    <3>4. "crash" \in fault'[m]
      BY <1>1, <1>7, <3>1, <3>3
    <3> QED
      BY <1>2, <3>4 DEF Unfailed
  <2>6. worker'[h] = [worker[h] EXCEPT !.ctx = "cancelled"]
          => worker'[h].msg = m /\ worker'[h].pc = "poison"
    BY <1>7 DEF WorkerType, HandlerRec
  <2> QED
    BY <1>1, <1>7, <2>1, <2>2, <2>3, <2>4, <2>5, <2>6, WorkerStep
<1>8. ASSUME NEW r \in Admin, admin[r].msg = m, admin[r].pc = "publish"
      PROVE  \/ \E q \in Place, b \in Attempts : queue'[q][m][b] > 0
             \/ admin'[r].msg = m /\ admin'[r].pc = "publish"
  <2>1. admin[r].attempt \in Attempts
    BY DEF AdminRec
  <2>2. CASE ReplayPublish(r)
    <3>1. ~Fault("publish", {m})
      BY <1>1, <1>2, PublishSucceeds
    <3> QED
      BY <1>1, <1>3, <1>8, <2>2, <3>1 DEF ReplayPublish
  <2>3. CASE AdminCrash(r)
    BY <1>1, <1>4, <1>8, <2>1, <2>3 DEF AdminCrash
  <2>4. /\ ~ReplayAck(r) /\ ~ReplayNack(r)
        /\ \A n \in Message, a \in Attempts : ~ReplayGet(r, n, a)
    BY <1>8 DEF ReplayAck, ReplayNack, ReplaySettle, ReplayGet
  <2> QED
    BY <1>8, <2>2, <2>3, <2>4, AdminStep
<1>9. CASE api[m] = "accepted"
  BY <1>2, <1>6, <1>7, <1>8, <1>9 DEF PoisonKept
<1> QED
  BY <1>5, <1>9

LEMMA LossAlways ==
  Spec => [](Shape /\ FirstScheduleInv /\ PoisonKept)
<1> DEFINE L == /\ Shape /\ CancelledIsAFault /\ FinalBeforeUnmark
                /\ NothingBeforeInsert /\ FirstScheduleInv /\ PoisonKept
<1>1. Init => L
  <2> SUFFICES ASSUME Init PROVE L
    OBVIOUS
  <2>1. Shape
    BY InitShape
  <2>2. CancelledIsAFault /\ FinalBeforeUnmark
    BY DEF Init, IdleHandler, CancelledIsAFault, FinalBeforeUnmark
  <2>3. NothingBeforeInsert
    <3>1. ASSUME NEW m \in Notification PROVE ~Alive(m) /\ m \in Message
      BY ConstantsAssumption
      DEF Init, Alive, InHand, IdleHandler, IdleAdmin, Message
    <3> QED
      BY <3>1 DEF Init, NothingBeforeInsert
  <2>4. FirstScheduleInv
    BY DEF Init, FirstScheduleInv
  <2>5. PoisonKept
    BY DEF Init, PoisonKept, Message
  <2> QED
    BY <2>1, <2>2, <2>3, <2>4, <2>5
<1>2. L /\ [Next]_vars => L'
  BY NextShape, NextCancelledIsAFault, NextFinalBeforeUnmark,
     NextNothingBeforeInsert, NextFirstScheduleInv, NextPoisonKept
<1> QED
  BY <1>1, <1>2, PTL DEF Spec

-----------------------------------------------------------------------------
(* What a crash can lose                                                   *)

LEMMA CarriedIsAlive ==
  ASSUME NEW m \in Notification, Carried(m) PROVE Alive(m)
<1>1. ASSUME NEW p \in WaitingPlace, NEW a \in Levels, Waiting(p, m, a)
      PROVE  Alive(m)
  BY <1>1, WaitingFacts DEF Waiting, Alive
<1> QED
  BY <1>1 DEF Carried, Alive, InHand

\* A crash loses a notification only on its first attempt, whose redelivery
\* is taken for a duplicate of the dead handler's record; a crash on a retry
\* loses nothing, for every number of handlers, crashes and replays.
THEOREM CrashLosesFirstAttemptOnlyHolds == Spec => []CrashLosesFirstAttemptOnly
<1>1. ASSUME Shape, FirstScheduleInv, NEW m \in Notification,
             api[m] = "accepted", status[m] \in {"pending", "cancelled"},
             fault[m] \subseteq {"crash", "answer", "apiCrash"}, ~Alive(m)
      PROVE  "crash" \in fault[m] /\ m \in processed /\ tried[m] \subseteq {0}
  <2>1. FirstSchedule(m)
    BY <1>1 DEF FirstScheduleInv, Unfailed
  <2>2. ~(queue["main"][m][0] > 0) /\ \A h \in Handler : worker[h].msg # m
    BY <1>1, ConstantsAssumption DEF Alive, InHand, Place, Attempts
  <2> QED
    BY <1>1, <2>1, <2>2, CarriedIsAlive DEF FirstSchedule
<1>2. Shape /\ FirstScheduleInv => CrashLosesFirstAttemptOnly
  BY <1>1 DEF CrashLosesFirstAttemptOnly
<1> QED
  BY <1>2, LossAlways, PTL

\* A message whose publish was confirmed does not vanish before its verdict,
\* through lost answers, dead replay requests, cancellations and duplicates.
THEOREM AcceptedNeverVanishesHolds == Spec => []AcceptedNeverVanishes
<1>1. CrashLosesFirstAttemptOnly /\ PoisonKept => AcceptedNeverVanishes
  <2> SUFFICES ASSUME CrashLosesFirstAttemptOnly, PoisonKept, NEW m \in Message,
                      api[m] = "accepted", fault[m] \subseteq {"answer", "apiCrash"},
                      m \in Notification => status[m] \in {"pending", "cancelled"}
               PROVE  Alive(m)
    BY DEF AcceptedNeverVanishes
  <2>1. CASE m \in Notification
    BY <2>1 DEF CrashLosesFirstAttemptOnly
  <2>2. CASE m \in Poison
    BY <2>2 DEF PoisonKept, Alive, InHand
  <2> QED
    BY <2>1, <2>2 DEF Message
<1> QED
  BY <1>1, LossAlways, CrashLosesFirstAttemptOnlyHolds, PTL

-----------------------------------------------------------------------------
(* The first attempt is made once                                          *)

LEMMA NextFirstAttempt ==
  ASSUME Shape, [Next]_vars, NEW m \in Notification, replays' = 0,
         ~DeadLettered(m)', FirstAttempt(m)
  PROVE  FirstAttempt(m)'
<1> USE ShapeParts DEF HandlerShape, DataType
<1>1. \A h \in Handler : worker[h].attempt \in Nat
  BY ConstantsAssumption DEF WorkerType, HandlerRec, Attempts
<1>2. m \in processed => m \in processed'
  BY RecordStep DEF FirstAttempt, Takes, Unmark, At
<1>3. OneFirstTry(m)'
  BY <1>2, NextOneFirstTry DEF FirstAttempt
<1>4. ASSUME NEW h \in Handler, worker'[h].msg = m
      PROVE  worker'[h].pc \notin {"markFailed", "unmark"}
  <2>1. ASSUME worker'[h].pc = "markFailed" PROVE FALSE
    <3>1. \A a \in Attempts : ~(queue'["dlq"][m][a] > 0)
      BY DEF DeadLettered
    <3> QED
      BY <1>4, <2>1, <3>1, IntoMarkFailed DEF FirstAttempt
  <2>2. ASSUME worker'[h].pc = "unmark" PROVE FALSE
    BY <1>4, <2>2, IntoUnmark DEF FirstAttempt, MarkFailed, At
  <2> QED
    BY <2>1, <2>2
\* A send by an attempt past the first leaves its number in tried.
<1>5. ASSUME NEW h \in Handler, Send(h), worker[h].msg = m, worker[h].attempt # 0
      PROVE  tried'[m] # {} /\ ~(tried'[m] \subseteq {0})
  <2>1. tried'[m] = tried[m] \cup {worker[h].attempt}
    BY <1>5 DEF Send
  <2> QED
    BY <1>5, <2>1
<1>6. ASSUME NEW h \in Handler, Send(h), worker[h].msg = m, worker[h].attempt = 0
      PROVE  /\ FirstTry(h, m) /\ m \in processed
             /\ tried'[m] # {} /\ accepted[m] = 0
  <2>1. FirstTry(h, m) /\ worker[h].pc = "send"
    BY <1>6 DEF Send, At, FirstTry
  <2>2. tried'[m] = tried[m] \cup {worker[h].attempt}
    BY <1>6 DEF Send
  <2> QED
    BY <1>6, <2>1, <2>2 DEF FirstAttempt, OneFirstTry
<1>7. ASSUME NEW h \in Handler, Send(h), worker[h].msg = m PROVE m \in processed
  <2>1. CASE worker[h].attempt # 0
    BY <1>1, <1>7, <2>1 DEF FirstAttempt, OneFirstTry, LaterCopy
  <2> QED
    BY <1>6, <1>7, <2>1
<1>8. ASSUME NEW h \in Handler, FirstTry(h, m)', worker'[h].pc = "send"
      PROVE  tried'[m] = {}
  <2>1. CASE Takes(h, m)
    BY <2>1 DEF Takes
  <2>2. CASE FirstTry(h, m) /\ worker[h].pc = "send"
    <3>1. tried[m] = {} /\ ~LaterCopy(m)
      BY <2>2 DEF FirstAttempt, OneFirstTry, FirstTry
    <3>2. ASSUME NEW g \in Handler, Send(g), worker[g].msg = m PROVE FALSE
      <4>1. worker[g].attempt = 0
        BY <1>1, <3>1, <3>2 DEF LaterCopy
      <4>2. g = h
        BY <1>6, <2>2, <3>2, <4>1 DEF FirstAttempt, OneFirstTry
      <4>3. worker'[h].pc \in {"markDelivered", "retry", "dlq", "nack"}
        BY <3>2, <4>2 DEF Send, NextOnFailure, WorkerType, HandlerRec
      <4> QED
        BY <1>8, <4>3
    <3> QED
      BY <3>1, <3>2, TriedStep DEF Takes
  <2>3. CASE FirstTry(h, m) /\ worker[h].pc # "send"
    <3>1. OnSchedule(h, m)'
      BY <1>8 DEF OnSchedule, SchedulePC, FirstTry
    <3>2. ~LaterCopy(m)
      BY <2>3 DEF FirstAttempt, OneFirstTry
    <3>3. Takes(h, m)
      BY <1>8, <2>3, <3>1, <3>2, IntoSchedule DEF LaterCopy, WaitingPlace
    <3> QED
      BY <2>1, <3>3
  <2> QED
    BY <1>8, <2>1, <2>2, <2>3, IntoFirstTry
<1>9. m \notin processed' => tried'[m] = {}
  <2>1. CASE tried'[m] = tried[m]
    BY <1>2, <2>1 DEF FirstAttempt
  <2> QED
    BY <1>2, <1>7, <2>1, TriedStep DEF Takes
<1>10. tried'[m] = {} => accepted'[m] = 0
  <2>1. CASE \E h \in Handler : Send(h) /\ worker[h].msg = m
    BY <1>5, <1>6, <2>1
  <2>2. CASE ~\E h \in Handler : Send(h) /\ worker[h].msg = m
    <3>1. accepted'[m] = accepted[m]
      BY <2>2, AcceptedStep
    <3>2. tried'[m] = {} => tried[m] = {}
      BY <2>2, TriedStep DEF Takes, FirstAttempt
    <3> QED
      BY <3>1, <3>2 DEF FirstAttempt
  <2> QED
    BY <2>1, <2>2
<1>11. tried'[m] \subseteq {0} => accepted'[m] <= 1
  <2>1. CASE \E h \in Handler : Send(h) /\ worker[h].msg = m
    <3>1. PICK h \in Handler : Send(h) /\ worker[h].msg = m
      BY <2>1
    <3>2. CASE worker[h].attempt = 0
      <4>1. accepted[m] = 0
        BY <1>6, <3>1, <3>2
      <4>2. accepted' \in {accepted, [accepted EXCEPT ![m] = @ + 1]}
        BY <3>1 DEF Send
      <4> QED
        BY <4>1, <4>2
    <3> QED
      BY <1>5, <3>1, <3>2
  <2>2. CASE ~\E h \in Handler : Send(h) /\ worker[h].msg = m
    <3>1. accepted'[m] = accepted[m]
      BY <2>2, AcceptedStep
    <3>2. CASE tried'[m] = tried[m]
      BY <3>1, <3>2 DEF FirstAttempt
    <3>3. CASE tried'[m] # tried[m]
      <4>1. m \notin processed
        BY <2>2, <3>3, TriedStep DEF Takes
      <4> QED
        BY <3>1, <4>1 DEF FirstAttempt
    <3> QED
      BY <3>2, <3>3
  <2> QED
    BY <2>1, <2>2
<1> QED
  BY <1>3, <1>4, <1>8, <1>9, <1>10, <1>11 DEF FirstAttempt

\* A first attempt that is redelivered after a crash, or left in doubt by a
\* lost answer, is not sent again: as long as m was never dead-lettered, only
\* a retry can be its second acceptance.
THEOREM FirstAttemptSentOnceHolds == Spec => []FirstAttemptSentOnce
<1>1. Init => Shape /\ FirstAttemptInv
  <2> SUFFICES ASSUME Init, NEW m \in Notification PROVE FirstAttempt(m)
    BY InitShape DEF FirstAttemptInv
  <2>1. m # NoMessage
    BY ConstantsAssumption DEF Message
  <2>2. \A p \in WaitingPlace, a \in Levels : ~Waiting(p, m, a)
    BY WaitingFacts DEF Init, Waiting
  <2>3. \A h \in Handler : worker[h].msg # m
    BY <2>1 DEF Init, IdleHandler
  <2>4. OneFirstTry(m)
    BY <2>2, <2>3 DEF OneFirstTry, FirstTry, LaterCopy
  <2> QED
    BY <2>3, <2>4 DEF Init, FirstAttempt
<1>2. Shape /\ FirstAttemptInv /\ [Next]_vars => (Shape /\ FirstAttemptInv)'
  <2> SUFFICES ASSUME Shape, FirstAttemptInv, [Next]_vars,
                      NEW m \in Notification, ~DeadLettered(m)', replays' = 0
               PROVE  FirstAttempt(m)'
    BY NextShape DEF FirstAttemptInv
  <2>1. replays = 0
    BY ReplaysGrow
  <2>2. ASSUME NEW a \in Attempts, queue["dlq"][m][a] > 0 PROVE FALSE
    <3>1. m \in Message /\ "dlq" \in Place
      BY DEF Message, Place
    <3>2. queue'["dlq"][m][a] >= queue["dlq"][m][a]
      BY <3>1, DeadLettersStay
    <3>3. queue["dlq"][m][a] \in Nat /\ queue'["dlq"][m][a] \in Nat
      BY <3>1, ShapeParts, NextQueueType DEF QueueType
    <3>4. queue'["dlq"][m][a] > 0
      BY <2>2, <3>2, <3>3
    <3> QED
      BY <3>4 DEF DeadLettered
  <2>3. FirstAttempt(m)
    BY <2>1, <2>2 DEF FirstAttemptInv, DeadLettered
  <2> QED
    BY <2>3, NextFirstAttempt
<1>3. FirstAttemptInv => FirstAttemptSentOnce
  BY DEF FirstAttemptInv, FirstAttempt, FirstAttemptSentOnce
<1> QED
  BY <1>1, <1>2, <1>3, PTL DEF Spec

-----------------------------------------------------------------------------
(* The audit trail of a notification that nothing disturbed                *)

\* No fault has touched m, and no admin has taken a dead letter.
Clean(m) == fault[m] = {} /\ replays = 0

\* What a clean step starts from.
LEMMA CleanBefore ==
  ASSUME Shape, [Next]_vars, NEW m \in Notification, Clean(m)'
  PROVE  /\ Clean(m)
         /\ Unfailed(m)' /\ Undisturbed(m)' /\ Undisturbed(m)
         /\ \A r \in Admin : admin[r].msg # m
         /\ \A k \in AllFaultKinds : \A ms : Fault(k, ms) => m \notin ms
<1>1. m \in Message /\ m # NoMessage
  BY ConstantsAssumption DEF Message
<1>2. Clean(m)
  BY <1>1, FaultGrows, ReplaysGrow DEF Clean
<1>3. \A r \in Admin : admin[r].msg # m
  BY <1>1, <1>2, ShapeParts DEF AdminShape, AdminsWellFormed, Clean
<1>4. ASSUME NEW k \in AllFaultKinds, NEW ms, Fault(k, ms), m \in ms PROVE FALSE
  <2>1. \A n \in Message :
          fault'[n] = IF n \in ms THEN fault[n] \cup {k} ELSE fault[n]
    BY <1>4, FaultEffect, ShapeParts
  <2>2. k \in fault'[m]
    BY <1>1, <1>4, <2>1
  <2> QED
    BY <2>2 DEF Clean
<1> QED
  BY <1>2, <1>3, <1>4 DEF Clean, Unfailed, Undisturbed

\* A handler that holds m makes its next call, and the call succeeds.
LEMMA CleanWorker ==
  ASSUME Shape, CancelledIsAFault, [Next]_vars, NEW m \in Notification,
         Clean(m)', NEW h \in Handler, worker[h].msg = m
  PROVE  /\ worker'[h] = worker[h] \/ Handle(h)
         /\ worker[h].ctx = "live"
         /\ \A k \in {"db", "publish"} : ~CallFails(h, k, m)
<1>1. m \in Message /\ m # NoMessage
  BY ConstantsAssumption DEF Message
<1>2. /\ worker[h].ctx = "live"
      /\ \A k \in {"db", "publish"} : ~CallFails(h, k, m)
  BY <1>1, CleanBefore, CallsSucceed
<1>3. h \in Busy(Handler)
  BY <1>1, ShapeParts DEF Busy, At, HandlerShape, HandlersWellFormed
<1>4. ~CancelContext
  <2>1. "ctx" \in AllFaultKinds
    BY DEF AllFaultKinds
  <2>2. CancelContext => Fault("ctx", {worker[g].msg : g \in Busy(Handler)})
    BY DEF CancelContext
  <2> QED
    BY <1>3, <2>1, <2>2, CleanBefore
<1>5. ASSUME NEW H \in SUBSET Handler, Crash(H) PROVE worker'[h] = worker[h]
  <2>1. "crash" \in AllFaultKinds
    BY DEF AllFaultKinds
  <2>2. Fault("crash", {worker[g].msg : g \in Busy(H)})
    BY <1>5 DEF Crash
  <2>3. h \notin Busy(H)
    BY <2>1, <2>2, CleanBefore
  <2>4. h \notin H
    BY <1>3, <2>3 DEF Busy
  <2> QED
    BY <1>5, <2>4 DEF Crash
<1>6. \A n \in Message, a \in Attempts : ~Deliver(h, n, a)
  BY <1>3 DEF Deliver, Busy, At
<1> QED
  BY <1>2, <1>4, <1>5, <1>6, WorkerStep

\* What Send does to a clean notification: its number is new, and the
\* outcome tells an acceptance.
LEMMA CleanSend ==
  ASSUME Shape, CancelledIsAFault, LockInv, ScheduleInv, [Next]_vars,
         NEW m \in Notification, Clean(m)', NEW h \in Handler, Send(h),
         worker[h].msg = m
  PROVE  /\ m \in processed /\ accepted[m] = 0
         /\ tried[m] = 0..(worker[h].attempt - 1)
         /\ tried'[m] = 0..worker[h].attempt
         /\ worker[h].attempt \notin tried[m]
         /\ UNCHANGED <<rows, status, queue, processed>>
         /\ worker'[h].msg = m /\ worker'[h].attempt = worker[h].attempt
         /\ Owes(h, m)'
         /\ \/ /\ accepted'[m] = 1 /\ worker'[h].outcome = "ok"
               /\ worker'[h].pc = "markDelivered"
            \/ /\ accepted'[m] = 0 /\ worker'[h].outcome # "ok"
               /\ worker'[h].pc \in {"retry", "dlq"}
<1> USE ShapeParts DEF HandlerShape, DataType
<1>1. OnSchedule(h, m) /\ worker[h].pc = "send"
  BY DEF Send, At, OnSchedule, SchedulePC
<1>2. Lock(m) /\ InOrder(m)
  BY CleanBefore DEF LockInv, ScheduleInv
<1>3. /\ m \in processed /\ accepted[m] = 0
      /\ tried[m] = 0..(worker[h].attempt - 1)
  BY <1>1, <1>2 DEF Lock, InOrder
<1>4. worker[h].attempt \in Nat
  BY ConstantsAssumption DEF WorkerType, HandlerRec, Attempts
<1>5. tried'[m] = tried[m] \cup {worker[h].attempt}
  BY DEF Send
<1>6. tried'[m] = 0..worker[h].attempt /\ worker[h].attempt \notin tried[m]
  BY <1>3, <1>4, <1>5
<1>7. worker[h].ctx = "live" /\ ~Fault("answer", {m})
  <2>1. "answer" \in AllFaultKinds
    BY DEF AllFaultKinds
  <2> QED
    BY <2>1, CleanWorker, CleanBefore
<1>8. /\ worker'[h].msg = m /\ worker'[h].attempt = worker[h].attempt
      /\ \/ /\ accepted'[m] = 1 /\ worker'[h].outcome = "ok"
            /\ worker'[h].pc = "markDelivered"
         \/ /\ accepted'[m] = 0 /\ worker'[h].outcome # "ok"
            /\ worker'[h].pc \in {"retry", "dlq"}
  BY <1>3, <1>7 DEF Send, NextOnFailure, WorkerType, HandlerRec
<1> QED
  BY <1>3, <1>6, <1>8 DEF Send, Owes

\* The attempts of a clean notification grow by the sends, and never restart.
LEMMA CleanTried ==
  ASSUME Shape, CancelledIsAFault, LockInv, ScheduleInv, [Next]_vars,
         NEW m \in Notification, Clean(m)', Audit(m)
  PROVE  \/ tried'[m] = tried[m]
         \/ \E h \in Handler : Send(h) /\ worker[h].msg = m
<1>1. ASSUME NEW h \in Handler, Takes(h, m) PROVE tried'[m] = tried[m]
  BY <1>1 DEF Takes, Mark, At, Audit, GuardOnce, AwaitsGuard, AtMark
<1> QED
  BY <1>1, TriedStep

\* Rows are written by Record only, and a written row stays.
LEMMA RowsStep ==
  ASSUME Shape, CancelledIsAFault, [Next]_vars, NEW m \in Notification,
         Clean(m)'
  PROVE  \/ rows'[m] = rows[m]
         \/ \E h \in Handler : /\ Record(h) /\ worker[h].msg = m
                               /\ rows'[m] = rows[m] \cup {RowOf(h)}
<1> USE ShapeParts DEF DataType
<1>1. CASE \E h \in Handler : Record(h)
  <2>1. PICK h \in Handler : Record(h)
    BY <1>1
  <2>2. CASE worker[h].msg = m
    <3>1. rows' = [rows EXCEPT ![m] = @ \cup {RowOf(h)}]
      BY <2>1, <2>2, CleanWorker DEF Record
    <3> QED
      BY <2>1, <2>2, <3>1
  <2>3. CASE worker[h].msg # m
    BY <2>1, <2>3 DEF Record
  <2> QED
    BY <2>2, <2>3
<1>2. CASE ~\E h \in Handler : Record(h)
  BY <1>2
  DEF Next, Client, Insert, PublishMain, Cancel, PublishPoison, Broker, Expire,
      Deliver, Handle, HandlePoison, Mark, Send, MarkDelivered, PublishRetry,
      PublishDLQ, MarkFailed, Unmark, Ack, Nack, Settle, Replay, ReplayGet,
      ReplayPublish, ReplayAck, ReplayNack, ReplaySettle, Disaster,
      CancelContext, Crash, AdminCrash, vars
<1> QED
  BY <1>1, <1>2

\* A handler that owes a row sent the attempt just now, or owed it before.
LEMMA IntoOwes ==
  ASSUME Shape, CancelledIsAFault, [Next]_vars, NEW m \in Notification,
         Clean(m)', NEW h \in Handler, Owes(h, m)'
  PROVE  /\ worker[h].msg = m
         /\ worker'[h].attempt = worker[h].attempt
         /\ \/ Send(h)
            \/ /\ Owes(h, m) /\ ~Record(h)
               /\ worker'[h].outcome = worker[h].outcome
               /\ worker'[h].pc = "markDelivered"
                    => worker[h].pc = "markDelivered"
               /\ worker'[h].pc \notin {"markDelivered", "record"}
                    => worker[h].pc \notin {"markDelivered", "record"}
<1> USE ShapeParts DEF HandlerShape
<1>1. worker'[h].msg = m /\ m # NoMessage /\ worker'[h].pc # "mark"
      /\ worker'[h].pc \notin {"idle", "poison", "send", "ack", "nack"}
  BY ConstantsAssumption DEF Owes, Message
<1>2. worker[h].msg = m /\ worker'[h].attempt = worker[h].attempt
  BY <1>1, HandStep DEF FirstStep
<1>3. CASE worker'[h] = worker[h]
  <2>1. ~Record(h)
    BY <1>3, GotoEffect DEF Record, At, HandlerPC
  <2> QED
    BY <1>2, <1>3, <2>1 DEF Owes
<1>4. CASE Handle(h)
  <2>1. CASE Moves(h)
    <3>1. \E pc \in HandlerPC : Goto(h, pc) /\ worker'[h].pc = pc
      BY <2>1, GotoEffect
      DEF Moves, HandlePoison, Mark, MarkDelivered, PublishRetry, PublishDLQ,
          MarkFailed, Unmark, Record, HandlerPC
    <3>2. worker'[h].outcome = worker[h].outcome
      BY <3>1, GotoEffect
    <3>3. \/ PublishDLQ(h) /\ worker'[h].pc = "markFailed"
          \/ MarkFailed(h) /\ worker'[h].pc = "unmark"
          \/ /\ MarkDelivered(h) \/ PublishRetry(h) \/ Unmark(h)
             /\ worker'[h].pc = "record"
      BY <1>1, <2>1, GotoEffect
      DEF Moves, HandlePoison, Mark, MarkDelivered, PublishRetry, PublishDLQ,
          MarkFailed, Unmark, Record, HandlerPC
    <3>4. ~Record(h) /\ worker[h].pc \in
              {"markDelivered", "retry", "dlq", "markFailed", "unmark"}
      BY <3>3 DEF MarkDelivered, PublishRetry, PublishDLQ, MarkFailed, Unmark,
                  Record, At
    <3>5. worker'[h].pc \notin {"markDelivered", "record"}
            => worker[h].pc \notin {"markDelivered", "record"}
      BY <3>3 DEF MarkDelivered, PublishRetry, PublishDLQ, MarkFailed, Unmark, At
    <3> QED
      BY <1>2, <3>2, <3>3, <3>4, <3>5 DEF Owes
  <2>2. CASE Send(h)
    BY <1>2, <2>2
  <2> QED
    BY <1>1, <1>4, <2>1, <2>2, HandleStep DEF IdleHandler
<1> QED
  BY <1>2, <1>3, <1>4, CleanWorker

\* A row that is owed stays owed until it is written.
LEMMA OwesStays ==
  ASSUME Shape, CancelledIsAFault, [Next]_vars, NEW m \in Notification,
         Clean(m)', NEW h \in Handler, Owes(h, m)
  PROVE  \/ /\ Owes(h, m)' /\ worker'[h].attempt = worker[h].attempt
            /\ worker'[h].outcome = worker[h].outcome
         \/ Record(h) /\ rows'[m] = rows[m] \cup {RowOf(h)}
<1> USE ShapeParts DEF HandlerShape
<1>1. worker[h].msg = m
  BY DEF Owes
<1>2. CASE worker'[h] = worker[h]
  BY <1>2 DEF Owes
<1>3. CASE Record(h)
  BY <1>1, <1>3, CleanWorker DEF Record, DataType
<1>4. CASE Handle(h) /\ ~Record(h)
  <2>1. MarkDelivered(h) \/ PublishRetry(h) \/ PublishDLQ(h) \/ MarkFailed(h)
        \/ Unmark(h)
    BY <1>4 DEF Owes, Handle, HandlePoison, Mark, Send, Ack, Nack, Settle, At
  <2>2. \E pc \in {"record", "markFailed", "unmark"} : Goto(h, pc)
    BY <1>1, <2>1, CleanWorker
    DEF MarkDelivered, PublishRetry, PublishDLQ, MarkFailed, Unmark
  <2> QED
    BY <1>1, <2>2, GotoEffect DEF HandlerPC, Owes
<1> QED
  BY <1>1, <1>2, <1>3, <1>4, CleanWorker

-----------------------------------------------------------------------------
(* A clean notification passes the dedup guard once                        *)

\* Only the API's publish puts a clean message before the guard, and only a
\* delivery takes it to a handler.
LEMMA CleanGuardQueue ==
  ASSUME Shape, CancelledIsAFault, [Next]_vars, NEW m \in Notification,
         Clean(m)', GuardOnce(m)
  PROVE  /\ queue'["retry"][m][0] = 0
         /\ \/ queue'["main"][m][0] <= queue["main"][m][0]
            \/ /\ api[m] = "inserted" /\ api'[m] = "accepted"
               /\ queue'["main"][m][0] = queue["main"][m][0] + 1
         /\ \A h \in Handler :
              AtMark(h, m)' =>
                \/ AtMark(h, m)
                \/ /\ queue["main"][m][0] > 0 /\ queue'["main"][m][0] = 0
                   /\ UNCHANGED api
                   /\ \A g \in Handler : AtMark(g, m)' => g = h \/ AtMark(g, m)
<1> USE ShapeParts DEF HandlerShape, DataType
<1>1. /\ m \in Message /\ m # NoMessage /\ 0 \in Attempts
      /\ "main" \in Place /\ "retry" \in Place
      /\ queue["main"][m][0] \in Nat /\ queue["retry"][m][0] = 0
  <2>1. m \in Message /\ m # NoMessage
    BY ConstantsAssumption DEF Message
  <2>2. 0 \in Attempts /\ "main" \in Place /\ "retry" \in Place
    BY ConstantsAssumption DEF Attempts, Place
  <2> QED
    BY <2>1, <2>2 DEF QueueType, GuardOnce
<1>2. ASSUME NEW p \in Place, NEW n \in Message, NEW a \in Attempts,
             Enqueue(p, n, a), Source(p, n, a)
      PROVE  /\ queue'["retry"][m][0] = 0
             /\ \/ queue'["main"][m][0] <= queue["main"][m][0]
                \/ /\ api[m] = "inserted" /\ api'[m] = "accepted"
                   /\ queue'["main"][m][0] = queue["main"][m][0] + 1
  <2>1. queue'["retry"][m][0] = 0
    <3>1. ~(p = "retry" /\ n = m /\ a = 0)
      BY <1>2, ConstantsAssumption
      DEF Source, WorkerType, HandlerRec, Attempts
    <3> QED
      BY <1>1, <1>2, <3>1, EnqueueEffect
  <2>2. CASE p = "main" /\ n = m /\ a = 0
    <3>1. PublishMain(m)
      BY <1>1, <1>2, <2>2, CleanBefore, ConstantsAssumption DEF Source
    <3>2. ~Fault("publish", {m})
      BY CleanBefore DEF AllFaultKinds
    <3>3. api[m] = "inserted" /\ api'[m] = "accepted"
      BY <1>1, <3>1, <3>2 DEF PublishMain
    <3> QED
      BY <1>1, <1>2, <2>1, <2>2, <3>3, EnqueueEffect
  <2>3. CASE ~(p = "main" /\ n = m /\ a = 0)
    BY <1>1, <1>2, <2>1, <2>3, EnqueueEffect
  <2> QED
    BY <2>2, <2>3
<1>3. ASSUME NEW n \in Message, NEW a \in Attempts, Expire(n, a)
      PROVE  /\ queue'["retry"][m][0] = 0
             /\ queue'["main"][m][0] <= queue["main"][m][0]
  <2>1. ~(n = m /\ a = 0)
    BY <1>1, <1>3, ExpireEffect
  <2> QED
    BY <1>1, <1>3, <2>1, ExpireEffect
<1>4. ASSUME NEW p \in Place, NEW n \in Message, NEW a \in Attempts,
             Dequeue(p, n, a)
      PROVE  /\ queue'["retry"][m][0] = 0
             /\ queue'["main"][m][0] <= queue["main"][m][0]
  <2>1. ~(p = "retry" /\ n = m /\ a = 0)
    BY <1>1, <1>4 DEF Dequeue
  <2> QED
    BY <1>1, <1>4, <2>1, DequeueEffect
<1>5. ASSUME NEW H \in SUBSET Handler, Crash(H)
      PROVE  /\ queue'["retry"][m][0] = 0
             /\ queue'["main"][m][0] <= queue["main"][m][0]
  <2>1. "crash" \in AllFaultKinds
    BY DEF AllFaultKinds
  <2>2. Fault("crash", {worker[g].msg : g \in Busy(H)})
    BY <1>5 DEF Crash
  <2>3. \A g \in Busy(H) : worker[g].msg # m
    BY <2>1, <2>2, CleanBefore
  <2> QED
    BY <1>1, <1>5, <2>3, CrashEffect
<1>6. ASSUME UNCHANGED queue
      PROVE  /\ queue'["retry"][m][0] = 0
             /\ queue'["main"][m][0] <= queue["main"][m][0]
  BY <1>1, <1>6
<1>7. /\ queue'["retry"][m][0] = 0
      /\ \/ queue'["main"][m][0] <= queue["main"][m][0]
         \/ /\ api[m] = "inserted" /\ api'[m] = "accepted"
            /\ queue'["main"][m][0] = queue["main"][m][0] + 1
  <2>1. "dlq" \in Place
    BY DEF Place
  <2> QED
    BY <1>1, <1>2, <1>3, <1>4, <1>5, <1>6, <2>1, QueueStep DEF Deliver, ReplayGet
<1>8. ASSUME NEW h \in Handler, AtMark(h, m)'
      PROVE  \/ AtMark(h, m)
             \/ /\ queue["main"][m][0] > 0 /\ queue'["main"][m][0] = 0
                /\ UNCHANGED api
                /\ \A g \in Handler : AtMark(g, m)' => g = h \/ AtMark(g, m)
  <2>1. worker'[h].msg = m /\ worker'[h].pc = "mark"
    BY <1>8 DEF AtMark
  <2>2. ASSUME NEW a \in Attempts, Deliver(h, m, a),
               worker'[h].pc = FirstStep(m, a)
        PROVE  /\ queue["main"][m][0] > 0 /\ queue'["main"][m][0] = 0
               /\ UNCHANGED api
               /\ \A g \in Handler : AtMark(g, m)' => g = h \/ AtMark(g, m)
    <3>1. a = 0
      BY <2>1, <2>2, ConstantsAssumption DEF FirstStep
    <3>2. queue["main"][m][0] > 0 /\ queue'["main"][m][0] = queue["main"][m][0] - 1
      BY <1>1, <2>2, <3>1, DequeueEffect DEF Deliver
    <3>3. queue["main"][m][0] <= 1
      BY DEF GuardOnce
    <3>4. \A g \in Handler : g # h => worker'[g] = worker[g]
      BY <2>2 DEF Deliver, WorkerType
    <3> QED
      BY <1>1, <2>2, <3>2, <3>3, <3>4 DEF Deliver, AtMark
  <2>3. CASE worker[h].msg = m
    <3>1. worker'[h] = worker[h] \/ Handle(h)
      BY <2>3, CleanWorker
    <3>2. ASSUME Handle(h) PROVE FALSE
      <4>1. Moves(h)
        BY <1>1, <2>1, <3>2, HandleStep DEF IdleHandler
      <4>2. \E pc \in HandlerPC \ {"mark"} : Goto(h, pc)
        BY <4>1
        DEF Moves, HandlePoison, Mark, MarkDelivered, PublishRetry, PublishDLQ,
            MarkFailed, Unmark, Record, HandlerPC
      <4> QED
        BY <2>1, <4>2, GotoEffect
    <3> QED
      BY <2>1, <3>1, <3>2 DEF AtMark
  <2> QED
    BY <1>1, <2>1, <2>2, <2>3, HandStep
<1> QED
  BY <1>7, <1>8

LEMMA NextGuardOnce ==
  ASSUME Shape, CancelledIsAFault, LockInv, ScheduleInv, [Next]_vars,
         NEW m \in Notification, Clean(m)', Audit(m)
  PROVE  GuardOnce(m)'
<1> USE ShapeParts DEF HandlerShape, DataType
<1>1. GuardOnce(m) /\ RowsOwed(m) /\ Lock(m) /\ m \in Message
  BY CleanBefore DEF Audit, LockInv, Message
<1>2. /\ queue'["retry"][m][0] = 0
      /\ \/ queue'["main"][m][0] <= queue["main"][m][0]
         \/ /\ api[m] = "inserted" /\ api'[m] = "accepted"
            /\ queue'["main"][m][0] = queue["main"][m][0] + 1
      /\ \A h \in Handler :
           AtMark(h, m)' =>
             \/ AtMark(h, m)
             \/ /\ queue["main"][m][0] > 0 /\ queue'["main"][m][0] = 0
                /\ UNCHANGED api
                /\ \A g \in Handler : AtMark(g, m)' => g = h \/ AtMark(g, m)
  BY <1>1, CleanGuardQueue
<1>3. queue["main"][m][0] \in Nat /\ queue'["main"][m][0] \in Nat
  <2>1. 0 \in Attempts /\ "main" \in Place
    BY ConstantsAssumption DEF Attempts, Place
  <2> QED
    BY <1>1, <2>1, NextQueueType DEF QueueType
<1>4. api'[m] \in {"new", "inserted"} => api[m] \in {"new", "inserted"}
  BY <1>1, ApiStep DEF Insert, PublishMain
<1>5. AwaitsGuard(m)' => AwaitsGuard(m)
  BY <1>2, <1>3, <1>4 DEF AwaitsGuard
\* Whoever takes the record ends the wait.
<1>6. ASSUME NEW h \in Handler, Takes(h, m) PROVE ~AwaitsGuard(m)'
  <2>1. Mark(h) /\ AtMark(h, m) /\ m \notin processed /\ m \in processed'
    BY <1>6 DEF Takes, Mark, At, AtMark
  <2>2. /\ UNCHANGED <<queue, api>>
        /\ \A g \in Handler : g # h => worker'[g] = worker[g]
    BY <2>1, OtherHandlers DEF Mark, Handle
  <2>3. worker'[h].pc # "mark"
    <3>1. \E pc \in {"send", "ack", "nack"} : Goto(h, pc)
      BY <2>1 DEF Mark
    <3> QED
      BY <3>1, GotoEffect DEF HandlerPC
  <2>4. /\ api[m] \notin {"new", "inserted"} /\ ~(queue["main"][m][0] > 0)
        /\ \A g \in Handler : AtMark(g, m) => g = h
    BY <1>1, <2>1 DEF GuardOnce
  <2> QED
    BY <2>2, <2>3, <2>4 DEF AwaitsGuard, AtMark
<1>7. ASSUME AwaitsGuard(m)' PROVE tried'[m] = {} /\ rows'[m] = {} /\ m \notin processed'
  <2>1. tried[m] = {} /\ rows[m] = {} /\ m \notin processed
    BY <1>1, <1>5, <1>7 DEF GuardOnce
  <2>2. m \notin processed'
    BY <1>6, <1>7, <2>1, RecordStep
  <2>3. tried'[m] = {}
    BY <2>1, CleanTried, CleanSend
  <2>4. rows'[m] = {}
    <3>1. ASSUME NEW h \in Handler, Record(h), worker[h].msg = m PROVE FALSE
      BY <1>1, <2>1, <3>1 DEF RowsOwed, Owes, Record, At
    <3> QED
      BY <2>1, <3>1, RowsStep
  <2> QED
    BY <2>2, <2>3, <2>4
<1>8. queue'["main"][m][0] <= 1
  BY <1>1, <1>2, <1>3 DEF GuardOnce
<1>9. \A h, g \in Handler : AtMark(h, m)' /\ AtMark(g, m)' => h = g
  BY <1>1, <1>2 DEF GuardOnce
<1>10. \A h \in Handler : AtMark(h, m)' => ~(queue'["main"][m][0] > 0)
  BY <1>1, <1>2, <1>3 DEF GuardOnce
<1>11. api'[m] \in {"new", "inserted"} =>
         ~(queue'["main"][m][0] > 0) /\ \A h \in Handler : ~AtMark(h, m)'
  BY <1>1, <1>2, <1>3, <1>4 DEF GuardOnce
<1> QED
  BY <1>2, <1>7, <1>8, <1>9, <1>10, <1>11 DEF GuardOnce

-----------------------------------------------------------------------------
(* Each attempt of it has one row, written or owed                         *)

LEMMA NextRowsOwed ==
  ASSUME Shape, CancelledIsAFault, LockInv, ScheduleInv, [Next]_vars,
         NEW m \in Notification, Clean(m)', Audit(m)
  PROVE  RowsOwed(m)'
<1> USE ShapeParts DEF HandlerShape, DataType
<1>1. RowsOwed(m) /\ RowsSoFar(m) /\ Lock(m)
  BY CleanBefore DEF Audit, LockInv
<1>2. tried[m] \subseteq tried'[m]
  <2>1. ASSUME NEW h \in Handler, Send(h), worker[h].msg = m
        PROVE  tried[m] \subseteq tried'[m]
    <3>1. tried' = [tried EXCEPT ![m] = @ \cup {worker[h].attempt}]
      BY <2>1 DEF Send
    <3> QED
      BY <3>1
  <2> QED
    BY <2>1, CleanTried
\* After an acceptance nothing is sent.
<1>3. accepted[m] > 0 => tried'[m] = tried[m] /\ accepted'[m] = accepted[m]
  <2>1. ASSUME NEW h \in Handler, Send(h), worker[h].msg = m
        PROVE  accepted[m] = 0
    BY <2>1, CleanSend
  <2> QED
    BY <2>1, CleanTried, AcceptedStep
<1>4. \A h \in Handler : Owes(h, m)' =>
        /\ worker[h].msg = m
        /\ worker'[h].attempt = worker[h].attempt
        /\ \/ Send(h)
           \/ /\ Owes(h, m) /\ ~Record(h)
              /\ worker'[h].outcome = worker[h].outcome
              /\ worker'[h].pc = "markDelivered"
                   => worker[h].pc = "markDelivered"
              /\ worker'[h].pc \notin {"markDelivered", "record"}
                   => worker[h].pc \notin {"markDelivered", "record"}
  BY IntoOwes
<1>5. ASSUME NEW h \in Handler, Owes(h, m)'
      PROVE  /\ worker'[h].attempt \in tried'[m]
             /\ \A r \in rows'[m] : r[1] # worker'[h].attempt
             /\ worker'[h].pc = "markDelivered" => worker'[h].outcome = "ok"
             /\ worker'[h].pc \notin {"markDelivered", "record"}
                  => worker'[h].outcome # "ok"
             /\ worker'[h].outcome = "ok"
                  => accepted'[m] > 0 /\ tried'[m] = 0..worker'[h].attempt
  <2>1. CASE Send(h)
    <3>1. worker[h].attempt \in Nat
      BY ConstantsAssumption DEF WorkerType, HandlerRec, Attempts
    <3>2. worker'[h].attempt \in tried'[m]
      BY <1>4, <1>5, <2>1, <3>1, CleanSend
    <3>3. \A r \in rows'[m] : r[1] # worker'[h].attempt
      BY <1>1, <1>4, <1>5, <2>1, CleanSend DEF RowsSoFar
    <3> QED
      BY <1>4, <1>5, <2>1, <3>2, <3>3, CleanSend
  <2>2. CASE ~Send(h)
    <3>1. /\ Owes(h, m) /\ ~Record(h)
          /\ worker'[h].attempt = worker[h].attempt
          /\ worker'[h].outcome = worker[h].outcome
      BY <1>4, <1>5, <2>2
    <3>2. \A r \in rows'[m] : r[1] # worker'[h].attempt
      <4>1. ASSUME NEW g \in Handler, Record(g), worker[g].msg = m
            PROVE  RowOf(g)[1] # worker[h].attempt
        <5>1. Owes(g, m) /\ RowOf(g)[1] = worker[g].attempt
          BY <4>1 DEF Owes, Record, At, RowOf
        <5> QED
          BY <1>1, <3>1, <4>1, <5>1 DEF RowsOwed
      <4> QED
        BY <1>1, <3>1, <4>1, RowsStep DEF RowsOwed
    <3>3. worker'[h].attempt \in tried'[m]
      BY <1>1, <1>2, <3>1 DEF RowsOwed
    <3>4. /\ worker'[h].pc = "markDelivered" => worker'[h].outcome = "ok"
          /\ worker'[h].pc \notin {"markDelivered", "record"}
               => worker'[h].outcome # "ok"
      BY <1>1, <1>4, <1>5, <2>2 DEF RowsOwed
    <3>5. worker'[h].outcome = "ok"
            => accepted'[m] > 0 /\ tried'[m] = 0..worker'[h].attempt
      BY <1>1, <1>3, <3>1 DEF RowsOwed
    <3> QED
      BY <3>2, <3>3, <3>4, <3>5
  <2> QED
    BY <2>1, <2>2
<1>6. ASSUME NEW h \in Handler, NEW g \in Handler, Owes(h, m)', Owes(g, m)',
             worker'[h].attempt = worker'[g].attempt
      PROVE  h = g
  <2>1. ASSUME NEW f \in Handler, NEW e \in Handler, f # e, Send(f),
               worker[f].msg = m, Owes(e, m)'
        PROVE  worker[f].attempt # worker[e].attempt
    <3>1. ~Send(e)
      BY <1>1, <1>4, <2>1 DEF Lock, OnSchedule, SchedulePC, Send, At
    <3>2. worker[e].attempt \in tried[m]
      BY <1>1, <1>4, <2>1, <3>1 DEF RowsOwed
    <3> QED
      BY <2>1, <3>2, CleanSend
  <2>2. CASE Send(h) \/ Send(g)
    BY <1>4, <1>6, <2>1, <2>2
  <2>3. CASE ~Send(h) /\ ~Send(g)
    BY <1>1, <1>4, <1>6, <2>3 DEF RowsOwed
  <2> QED
    BY <2>2, <2>3
<1> QED
  BY <1>5, <1>6 DEF RowsOwed

LEMMA NextRowsSoFar ==
  ASSUME Shape, CancelledIsAFault, LockInv, ScheduleInv, [Next]_vars,
         NEW m \in Notification, Clean(m)', Audit(m)
  PROVE  RowsSoFar(m)'
<1> USE ShapeParts DEF HandlerShape, DataType
<1>1. RowsOwed(m) /\ RowsSoFar(m)
  BY DEF Audit
<1>2. ASSUME NEW h \in Handler, Send(h), worker[h].msg = m
      PROVE  tried'[m] = tried[m] \cup {worker[h].attempt}
  <2>1. tried' = [tried EXCEPT ![m] = @ \cup {worker[h].attempt}]
    BY <1>2 DEF Send
  <2> QED
    BY <2>1
<1>3. tried[m] \subseteq tried'[m] /\ rows[m] \subseteq rows'[m]
  BY <1>2, CleanTried, RowsStep
<1>4. ASSUME NEW h \in Handler, Record(h), worker[h].msg = m
      PROVE  Owes(h, m) /\ RowOf(h)[1] = worker[h].attempt
  BY <1>4 DEF Record, At, Owes, RowOf
<1>5. ASSUME NEW k \in tried'[m]
      PROVE  \/ \E r \in rows'[m] : r[1] = k
             \/ \E h \in Handler : Owes(h, m)' /\ worker'[h].attempt = k
  <2>1. CASE \E r \in rows[m] : r[1] = k
    BY <1>3, <2>1
  <2>2. ASSUME NEW h \in Handler, Owes(h, m), worker[h].attempt = k
        PROVE  \/ \E r \in rows'[m] : r[1] = k
               \/ Owes(h, m)' /\ worker'[h].attempt = k
    <3>1. CASE Record(h) /\ rows'[m] = rows[m] \cup {RowOf(h)}
      <4>1. RowOf(h)[1] = k /\ RowOf(h) \in rows'[m]
        BY <2>2, <3>1 DEF RowOf
      <4> QED
        BY <4>1
    <3> QED
      BY <2>2, <3>1, OwesStays
  <2>3. CASE k \in tried[m]
    BY <1>1, <2>1, <2>2, <2>3 DEF RowsSoFar
  <2>4. ASSUME NEW h \in Handler, Send(h), worker[h].msg = m, k \notin tried[m]
        PROVE  Owes(h, m)' /\ worker'[h].attempt = k
    BY <1>2, <1>5, <2>4, CleanSend
  <2> QED
    BY <1>5, <2>3, <2>4, CleanTried
<1>6. ASSUME NEW r \in rows'[m] PROVE r[1] \in tried'[m]
  BY <1>1, <1>3, <1>4, RowsStep DEF RowsSoFar, RowsOwed
<1>7. ASSUME NEW r \in rows'[m], NEW s \in rows'[m], r[1] = s[1] PROVE r = s
  BY <1>1, <1>4, <1>7, RowsStep DEF RowsSoFar, RowsOwed
<1> QED
  BY <1>5, <1>6, <1>7 DEF RowsSoFar

LEMMA NextVerdictRow ==
  ASSUME Shape, CancelledIsAFault, LockInv, ScheduleInv, [Next]_vars,
         NEW m \in Notification, Clean(m)', Audit(m)
  PROVE  VerdictRow(m)'
<1> USE ShapeParts DEF HandlerShape, DataType
<1>1. RowsOwed(m) /\ RowsSoFar(m) /\ VerdictRow(m) /\ Lock(m) /\ InOrder(m)
  BY CleanBefore DEF Audit, LockInv, ScheduleInv
<1>2. rows[m] \subseteq rows'[m]
  BY RowsStep
<1>3. \A h \in Handler : worker[h].attempt \in Attempts
  BY DEF WorkerType, HandlerRec
<1>4. ASSUME NEW h \in Handler, Send(h), worker[h].msg = m
      PROVE  accepted[m] = 0 /\ tried[m] # Attempts
  BY <1>3, <1>4, CleanSend
\* The verdict delivered.
<1>5. ASSUME accepted'[m] > 0
      PROVE  \/ \E h \in Handler : Owes(h, m)' /\ worker'[h].outcome = "ok"
             \/ \E last \in Attempts :
                  tried'[m] = 0..last /\ <<last, "success">> \in rows'[m]
  <2>1. CASE accepted[m] > 0
    <3>1. tried'[m] = tried[m]
      BY <1>4, <2>1, CleanTried
    <3>2. ASSUME NEW h \in Handler, Owes(h, m), worker[h].outcome = "ok"
          PROVE  \/ Owes(h, m)' /\ worker'[h].outcome = "ok"
                 \/ \E last \in Attempts :
                      tried'[m] = 0..last /\ <<last, "success">> \in rows'[m]
      <4>1. tried[m] = 0..worker[h].attempt
        BY <1>1, <3>2 DEF RowsOwed
      <4>2. RowOf(h) = <<worker[h].attempt, "success">>
        BY <3>2 DEF RowOf
      <4> QED
        BY <1>3, <3>1, <3>2, <4>1, <4>2, OwesStays
    <3> QED
      BY <1>1, <1>2, <2>1, <3>1, <3>2 DEF VerdictRow
  <2>2. CASE ~(accepted[m] > 0)
    <3>1. PICK h \in Handler : Send(h) /\ worker[h].msg = m
      BY <1>5, <2>2, AcceptedStep
    <3> QED
      BY <1>5, <3>1, CleanSend
  <2> QED
    BY <2>1, <2>2
\* The verdict failed.
<1>6. ASSUME status'[m] = "failed"
      PROVE  /\ tried'[m] = Attempts
             /\ \/ \E h \in Handler : /\ Owes(h, m)' /\ worker'[h].outcome # "ok"
                                      /\ worker'[h].attempt = MaxAttempts
                \/ <<MaxAttempts, "dlq">> \in rows'[m]
  <2>1. ASSUME NEW h \in Handler, Owes(h, m), worker[h].outcome # "ok",
               worker[h].attempt = MaxAttempts
        PROVE  \/ /\ Owes(h, m)' /\ worker'[h].outcome # "ok"
                  /\ worker'[h].attempt = MaxAttempts
               \/ <<MaxAttempts, "dlq">> \in rows'[m]
    <3>1. RowOf(h) = <<MaxAttempts, "dlq">>
      BY <2>1 DEF RowOf
    <3> QED
      BY <2>1, <3>1, OwesStays
  <2>2. CASE status[m] = "failed"
    <3>1. tried[m] = Attempts
      BY <1>1, <2>2 DEF VerdictRow
    <3>2. tried'[m] = tried[m]
      BY <1>4, <3>1, CleanTried
    <3> QED
      BY <1>1, <1>2, <2>1, <2>2, <3>1, <3>2 DEF VerdictRow
  <2>3. CASE status[m] # "failed"
    <3>1. PICK h \in Handler : MarkFailed(h) /\ worker[h].msg = m
      BY <1>6, <2>3, StatusStep DEF Insert, Cancel
    <3>2. /\ worker[h].pc = "markFailed" /\ worker[h].attempt = MaxAttempts
          /\ Owes(h, m)
      BY <3>1 DEF MarkFailed, At, HandlersWellFormed, Owes
    <3>3. tried[m] = Attempts
      BY <1>1, <3>1, <3>2 DEF InOrder, OnSchedule, SchedulePC, Attempts
    <3>4. worker[h].outcome # "ok"
      BY <1>1, <3>2 DEF RowsOwed
    <3>5. tried'[m] = tried[m]
      BY <1>4, <3>3, CleanTried
    <3> QED
      BY <2>1, <3>2, <3>3, <3>4, <3>5
  <2> QED
    BY <2>2, <2>3
<1> QED
  BY <1>5, <1>6 DEF VerdictRow

LEMMA NextAuditInv ==
  /\ Shape /\ CancelledIsAFault /\ LockInv /\ ScheduleInv /\ AuditInv
  /\ [Next]_vars
  => AuditInv'
<1> SUFFICES ASSUME Shape, CancelledIsAFault, LockInv, ScheduleInv, AuditInv,
                    [Next]_vars, NEW m \in Notification, Clean(m)'
             PROVE  Audit(m)'
  BY DEF AuditInv, Clean
<1>1. Audit(m)
  BY CleanBefore DEF AuditInv, Clean
<1> QED
  BY <1>1, NextGuardOnce, NextRowsOwed, NextRowsSoFar, NextVerdictRow DEF Audit

LEMMA AuditAlways == Spec => [](Shape /\ AcceptedBeforeDelivered /\ AuditInv)
<1>1. Init => CancelledIsAFault /\ AuditInv
  <2> SUFFICES ASSUME Init PROVE CancelledIsAFault /\ AuditInv
    OBVIOUS
  <2>1. CancelledIsAFault
    BY DEF Init, IdleHandler, CancelledIsAFault
  <2>2. ASSUME NEW m \in Notification PROVE Audit(m)
    <3>1. m \in Message /\ m # NoMessage
      BY ConstantsAssumption DEF Message
    <3>2. \A h \in Handler : ~Owes(h, m) /\ ~AtMark(h, m)
      BY <3>1 DEF Init, IdleHandler, Owes, AtMark
    <3>3. queue["main"][m][0] = 0 /\ queue["retry"][m][0] = 0
      BY <3>1, ConstantsAssumption DEF Init, Place, Attempts
    <3>4. GuardOnce(m)
      <4>1. tried[m] = {} /\ rows[m] = {} /\ m \notin processed
        BY DEF Init
      <4>2. queue["main"][m][0] <= 1 /\ ~(queue["main"][m][0] > 0)
        BY <3>3
      <4> QED
        BY <3>2, <3>3, <4>1, <4>2 DEF GuardOnce
    <3>5. RowsOwed(m) /\ RowsSoFar(m) /\ VerdictRow(m)
      BY <3>2 DEF Init, RowsOwed, RowsSoFar, VerdictRow
    <3> QED
      BY <3>4, <3>5 DEF Audit
  <2> QED
    BY <2>1, <2>2 DEF AuditInv
<1>2. Spec => [](CancelledIsAFault /\ AuditInv)
  BY <1>1, NextCancelledIsAFault, NextAuditInv, ScheduleAlways, PTL DEF Spec
<1> QED
  BY <1>2, ScheduleAlways, PTL

\* One row for each attempt, and no other, are as many rows as attempts.
LEMMA RowsCount ==
  ASSUME NEW S, NEW last \in Nat,
         \A k \in 0..last : \E r \in S : r[1] = k,
         \A r \in S : r[1] \in 0..last,
         \A r, s \in S : r[1] = s[1] => r = s
  PROVE  {r[1] : r \in S} = 0..last /\ Cardinality(S) = last + 1
<1> DEFINE f == [r \in S |-> r[1]]
<1>1. f \in Bijection(S, 0..last)
  BY DEF Bijection, Injection, IsInjective, Surjection
<1>2. IsFiniteSet(0..last) /\ Cardinality(0..last) = last + 1
  BY FS_Interval
<1>3. ExistsBijection(0..last, S)
  BY <1>1, Fun_ExistsBijSymmetric DEF ExistsBijection
<1>4. Cardinality(S) = last + 1
  BY <1>2, <1>3, FS_Bijection
<1> QED
  BY <1>4

\* An undisturbed notification that came to a verdict has one delivery_attempts
\* row for each attempt, the last with the verdict, though every row is
\* written after the next copy is under way and by whichever handler made the
\* attempt.
THEOREM AuditTrailCompleteHolds == Spec => []AuditTrailComplete
<1>1. Shape /\ AcceptedBeforeDelivered /\ AuditInv => AuditTrailComplete
  <2> SUFFICES ASSUME Shape, AcceptedBeforeDelivered, AuditInv,
                      NEW m \in Notification,
                      status[m] \in {"delivered", "failed"},
                      fault[m] = {}, replays = 0, ~InHand(m)
               PROVE  \E last \in Attempts :
                        /\ {r[1] : r \in rows[m]} = 0..last
                        /\ Cardinality(rows[m]) = last + 1
                        /\ status[m] = "delivered"
                             => <<last, "success">> \in rows[m]
                        /\ status[m] = "failed"
                             => last = MaxAttempts /\ <<last, "dlq">> \in rows[m]
    BY DEF AuditTrailComplete
  <2>1. RowsSoFar(m) /\ VerdictRow(m)
    BY DEF AuditInv, Audit
  <2>2. \A h \in Handler : ~Owes(h, m)
    BY DEF InHand, Owes
  <2>3. ASSUME NEW last \in Attempts, tried[m] = 0..last
        PROVE  /\ {r[1] : r \in rows[m]} = 0..last
               /\ Cardinality(rows[m]) = last + 1
    <3>1. last \in Nat
      BY ConstantsAssumption DEF Attempts
    <3>2. \A k \in 0..last : \E r \in rows[m] : r[1] = k
      BY <2>1, <2>2, <2>3 DEF RowsSoFar
    <3> QED
      BY <2>1, <2>3, <3>1, <3>2, RowsCount DEF RowsSoFar
  <2>4. CASE status[m] = "delivered"
    <3>1. accepted[m] > 0
      BY <2>4 DEF AcceptedBeforeDelivered, DeliveredWasAccepted
    <3>2. PICK last \in Attempts :
            tried[m] = 0..last /\ <<last, "success">> \in rows[m]
      BY <2>1, <2>2, <3>1 DEF VerdictRow
    <3> QED
      BY <2>3, <2>4, <3>2
  <2>5. CASE status[m] = "failed"
    <3>1. tried[m] = 0..MaxAttempts /\ <<MaxAttempts, "dlq">> \in rows[m]
      BY <2>1, <2>2, <2>5 DEF VerdictRow, Attempts
    <3>2. MaxAttempts \in Attempts
      BY ConstantsAssumption DEF Attempts
    <3> QED
      BY <2>3, <2>5, <3>1, <3>2
  <2> QED
    BY <2>4, <2>5
<1> QED
  BY <1>1, AuditAlways, PTL
=============================================================================
