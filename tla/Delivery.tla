------------------------------ MODULE Delivery ------------------------------
(***************************************************************************)
(* The delivery path of the notification dispatcher: the API inserts a row *)
(* and publishes a message; a worker handler marks it processed, calls the *)
(* provider, and either records the delivery, sends the message round a    *)
(* retry queue whose TTL brings it back, or dead-letters it; an admin may  *)
(* replay a dead letter.                                                   *)
(*                                                                         *)
(* Each call the code makes to the broker, the database or the provider is *)
(* one step, so that two handlers, an admin request, a cancellation, a     *)
(* shutdown and a crash interleave between any two calls.  RabbitMQ,       *)
(* PostgreSQL and the webhook provider are external: they are modelled by  *)
(* what the code asks of them.                                             *)
(***************************************************************************)
EXTENDS Naturals, FiniteSets

CONSTANTS
  Notification,   \* ids of well-formed notifications (each is created once)
  Poison,         \* bodies that json.Unmarshal rejects
  Handler,        \* handler goroutines of the workers (a semaphore slot each)
  Admin,          \* concurrent POST /admin/dlq/{channel}/replay requests
  MaxAttempts,    \* const maxAttempts: the retry levels
  FaultKinds,     \* which faults the environment may inject
  MaxFaults,      \* bound: faults injected in one behaviour
  MaxReplays,     \* bound: dead letters taken by admins in one behaviour
  NoMessage

Message == Notification \cup Poison

\* "db": a database call returns an error; "publish": a publish returns an
\* error; "ctx": the handlers' context is cancelled (shutdown, drain
\* timeout); "answer": the provider accepts but its answer is lost; "crash":
\* a worker dies with unacked deliveries; "apiCrash": the API dies, or its
\* channel closes, while a replay holds a dead letter.
AllFaultKinds == {"db", "publish", "ctx", "answer", "crash", "apiCrash"}

ASSUME ConstantsAssumption ==
  /\ MaxAttempts \in Nat \ {0}
  /\ MaxFaults \in Nat
  /\ MaxReplays \in Nat
  /\ IsFiniteSet(Handler)
  /\ FaultKinds \subseteq AllFaultKinds
  /\ Notification \cap Poison = {}
  /\ NoMessage \notin Message

Attempts == 0..MaxAttempts

VARIABLES
  status,     \* notifications.status, "none" before the row exists
  api,        \* how far the request that creates the message has come
  queue,      \* the broker: how many ready messages of an id and x-attempt
              \* the main, retry and dead-letter queues hold
  worker,     \* each handler's place in DeliverUseCase.Handle
  admin,      \* each replay request's place in its loop body
  processed,  \* processed_messages: message ids with a dedup record
  rows,       \* delivery_attempts: (attempt, status) rows of a notification
  accepted,   \* how often the provider accepted the notification
  tried,      \* attempts sent since the dedup record was made (history)
  faults,     \* faults injected so far
  fault,      \* kinds of faults that hit a step on the message (history)
  replays     \* dead letters taken so far

vars == <<status, api, queue, worker, admin, processed, rows, accepted,
          tried, faults, fault, replays>>

-----------------------------------------------------------------------------
(* Types                                                                   *)

Status == {"none", "pending", "delivered", "failed", "cancelled"}
Place == {"main", "retry", "dlq"}

\* A delivery in a handler's or an admin's hands: an unacked message.
HandlerPC == {"idle", "poison", "mark", "send", "markDelivered", "retry",
              "dlq", "markFailed", "unmark", "record", "ack", "nack"}
HandlerRec == [pc : HandlerPC, msg : Message \cup {NoMessage},
               attempt : Attempts, ctx : {"live", "cancelled"},
               outcome : {"none", "ok", "failed", "open"}]
IdleHandler == [pc |-> "idle", msg |-> NoMessage, attempt |-> 0,
                ctx |-> "live", outcome |-> "none"]

AdminRec == [pc : {"idle", "publish", "ack", "nack"},
             msg : Message \cup {NoMessage}, attempt : Attempts]
IdleAdmin == [pc |-> "idle", msg |-> NoMessage, attempt |-> 0]

RowStatus == {"success", "retrying", "circuit_open", "dlq"}

TypeOK ==
  /\ status \in [Notification -> Status]
  /\ api \in [Message -> {"new", "inserted", "accepted", "rejected"}]
  /\ queue \in [Place -> [Message -> [Attempts -> Nat]]]
  /\ worker \in [Handler -> HandlerRec]
  /\ admin \in [Admin -> AdminRec]
  /\ processed \in SUBSET Notification
  /\ rows \in [Notification -> SUBSET (Attempts \X RowStatus)]
  /\ accepted \in [Notification -> Nat]
  /\ tried \in [Notification -> SUBSET Attempts]
  /\ faults \in 0..MaxFaults
  /\ fault \in [Message -> SUBSET AllFaultKinds]
  /\ replays \in 0..MaxReplays

Init ==
  /\ status = [m \in Notification |-> "none"]
  /\ api = [m \in Message |-> "new"]
  /\ queue = [p \in Place |-> [m \in Message |-> [a \in Attempts |-> 0]]]
  /\ worker = [h \in Handler |-> IdleHandler]
  /\ admin = [r \in Admin |-> IdleAdmin]
  /\ processed = {}
  /\ rows = [m \in Notification |-> {}]
  /\ accepted = [m \in Notification |-> 0]
  /\ tried = [m \in Notification |-> {}]
  /\ faults = 0
  /\ fault = [m \in Message |-> {}]
  /\ replays = 0

-----------------------------------------------------------------------------
(* Calls and their faults                                                  *)

NoFault == UNCHANGED <<faults, fault>>

\* The environment injects a fault of kind k that hits the messages of ms.
Fault(k, ms) ==
  /\ k \in FaultKinds
  /\ faults < MaxFaults
  /\ faults' = faults + 1
  /\ fault' = [m \in Message |->
                 IF m \in ms THEN fault[m] \cup {k} ELSE fault[m]]

\* A database call succeeds only on a context that is not cancelled.
CallOK(h) == worker[h].ctx = "live" /\ NoFault

\* A call of kind k returns an error: always possible on a cancelled
\* context, otherwise a fault.
CallFails(h, k, m) ==
  IF worker[h].ctx = "cancelled" THEN NoFault ELSE Fault(k, {m})

Enqueue(p, m, a) == queue' = [queue EXCEPT ![p][m][a] = @ + 1]
Dequeue(p, m, a) ==
  queue[p][m][a] > 0 /\ queue' = [queue EXCEPT ![p][m][a] = @ - 1]

\* A publish that returned an error may still have reached the queue: the
\* wait for the confirm can fail after the broker stored the message.
MaybeEnqueue(p, m, a) == Enqueue(p, m, a) \/ UNCHANGED queue

At(h, pc) == worker[h].pc = pc
Goto(h, pc) == worker' = [worker EXCEPT ![h].pc = pc]

-----------------------------------------------------------------------------
(* The API: create, publish, cancel                                        *)

\* NotificationService.Create inserts the row of a fresh id; the primary key
\* admits one row of an id.
Insert(m) ==
  /\ api[m] = "new" /\ status[m] = "none"
  /\ status' = [status EXCEPT ![m] = "pending"]
  /\ api' = [api EXCEPT ![m] = "inserted"]
  /\ UNCHANGED <<queue, worker, admin, processed, rows, accepted, tried,
                 faults, fault, replays>>

\* Create publishes the row's message and answers 202, or 500.
PublishMain(m) ==
  /\ api[m] = "inserted"
  /\ \/ /\ Enqueue("main", m, 0)
        /\ api' = [api EXCEPT ![m] = "accepted"]
        /\ NoFault
     \/ /\ Fault("publish", {m})
        /\ MaybeEnqueue("main", m, 0)
        /\ api' = [api EXCEPT ![m] = "rejected"]
  /\ UNCHANGED <<status, worker, admin, processed, rows, accepted, tried,
                 replays>>

\* Something outside the API publishes a body no worker can parse.
PublishPoison(m) ==
  /\ api[m] = "new"
  /\ Enqueue("main", m, 0)
  /\ api' = [api EXCEPT ![m] = "accepted"]
  /\ UNCHANGED <<status, worker, admin, processed, rows, accepted, tried,
                 faults, fault, replays>>

\* CancelIfPending: one conditional UPDATE.
Cancel(m) ==
  /\ status[m] = "pending"
  /\ status' = [status EXCEPT ![m] = "cancelled"]
  /\ UNCHANGED <<api, queue, worker, admin, processed, rows, accepted, tried,
                 faults, fault, replays>>

-----------------------------------------------------------------------------
(* The broker hands a delivery to a handler; a TTL expires                 *)

\* Wrong variants: no dedup guard; a dedup guard on every attempt.
FirstStepUnguarded(m, a) == IF m \in Poison THEN "poison" ELSE "send"
FirstStepAlwaysGuarded(m, a) == IF m \in Poison THEN "poison" ELSE "mark"

\* The dedup guard is for attempt 0: a retry finds its own record.
FirstStep(m, a) ==
  IF m \in Poison THEN "poison" ELSE IF a = 0 THEN "mark" ELSE "send"

Deliver(h, m, a) ==
  /\ At(h, "idle")
  /\ Dequeue("main", m, a)
  /\ worker' = [worker EXCEPT ![h] =
                  [IdleHandler EXCEPT !.pc = FirstStep(m, a),
                                      !.msg = m, !.attempt = a]]
  /\ UNCHANGED <<status, api, admin, processed, rows, accepted, tried, faults,
                 fault, replays>>

\* Wrong variant: the retry queue dead-letters to itself.
ExpireLoops(m, a) == queue["retry"][m][a] > 0 /\ UNCHANGED vars

\* x-message-ttl runs out and the retry queue dead-letters the message to
\* the main exchange under its channel and priority; x-attempt is kept.
Expire(m, a) ==
  /\ queue["retry"][m][a] > 0
  /\ queue' = [queue EXCEPT !["retry"][m][a] = @ - 1,
                             !["main"][m][a] = @ + 1]
  /\ UNCHANGED <<status, api, worker, admin, processed, rows, accepted, tried,
                 faults, fault, replays>>

-----------------------------------------------------------------------------
(* DeliverUseCase.Handle                                                   *)

\* An unparseable body goes to the DLQ; a failed publish is only logged.
HandlePoison(h) ==
  LET m == worker[h].msg IN
  /\ At(h, "poison")
  /\ \/ Enqueue("dlq", m, worker[h].attempt) /\ NoFault
     \/ MaybeEnqueue("dlq", m, worker[h].attempt) /\ CallFails(h, "publish", m)
  /\ Goto(h, "ack")
  /\ UNCHANGED <<status, api, admin, processed, rows, accepted, tried, replays>>

\* MarkIfUnprocessed, on attempt 0 only.
Mark(h) ==
  LET m == worker[h].msg IN
  /\ At(h, "mark")
  /\ \/ /\ CallOK(h)
        /\ m \notin processed
        /\ processed' = processed \cup {m}
        /\ tried' = [tried EXCEPT ![m] = {}]
        /\ Goto(h, "send")
     \/ /\ CallOK(h)
        /\ m \in processed
        /\ UNCHANGED <<processed, tried>>
        /\ Goto(h, "ack")
     \/ /\ CallFails(h, "db", m)
        /\ \/ UNCHANGED <<processed, tried>>
           \/ /\ m \notin processed
              /\ processed' = processed \cup {m}
              /\ tried' = [tried EXCEPT ![m] = {}]
        /\ Goto(h, "nack")
  /\ UNCHANGED <<status, api, queue, admin, rows, accepted, replays>>

\* Wrong variant: the last retry level is never used.
NextOnFailureEarly(h) ==
  IF worker[h].attempt + 1 < MaxAttempts THEN "retry" ELSE "dlq"

NextOnFailure(h) == IF worker[h].attempt + 1 <= MaxAttempts THEN "retry" ELSE "dlq"

\* Wrong variant: an error of Send is not looked at.
SendIgnoresErrors(h) ==
  LET m == worker[h].msg IN
  /\ At(h, "send")
  /\ tried' = [tried EXCEPT ![m] = @ \cup {worker[h].attempt}]
  /\ accepted' \in {accepted, [accepted EXCEPT ![m] = @ + 1]}
  /\ worker' = [worker EXCEPT ![h].outcome = "ok", ![h].pc = "markDelivered"]
  /\ NoFault
  /\ UNCHANGED <<status, api, queue, admin, processed, rows, replays>>

\* provider.Send and what Handle decides from its error.
Send(h) ==
  LET m == worker[h].msg
      Outcomes(o, pc) ==
        worker' = [worker EXCEPT ![h].outcome = o, ![h].pc = pc]
  IN
  /\ At(h, "send")
  /\ tried' = [tried EXCEPT ![m] = @ \cup {worker[h].attempt}]
  /\ \/ /\ CallOK(h)
        /\ accepted' = [accepted EXCEPT ![m] = @ + 1]
        /\ Outcomes("ok", "markDelivered")
     \/ /\ CallOK(h)
        /\ UNCHANGED accepted
        /\ \E o \in {"failed", "open"} : Outcomes(o, NextOnFailure(h))
     \/ /\ worker[h].ctx = "live"
        /\ Fault("answer", {m})
        /\ accepted' = [accepted EXCEPT ![m] = @ + 1]
        /\ Outcomes("failed", NextOnFailure(h))
     \/ /\ worker[h].ctx = "cancelled"
        /\ NoFault
        /\ accepted' \in {accepted, [accepted EXCEPT ![m] = @ + 1]}
        /\ Outcomes("failed", "nack")
  /\ UNCHANGED <<status, api, queue, admin, processed, rows, replays>>

\* UpdateStatus is unconditional; a failed call may have been applied.
SetStatus(m, s) == status' = [status EXCEPT ![m] = s]
MaybeSetStatus(m, s) == SetStatus(m, s) \/ UNCHANGED status

MarkDelivered(h) ==
  LET m == worker[h].msg IN
  /\ At(h, "markDelivered")
  /\ \/ CallOK(h) /\ SetStatus(m, "delivered") /\ Goto(h, "record")
     \/ /\ CallFails(h, "db", m)
        /\ MaybeSetStatus(m, "delivered")
        /\ Goto(h, "nack")
  /\ UNCHANGED <<api, queue, admin, processed, rows, accepted, tried, replays>>

\* PublishRetry to the next level; an error makes the handler fail.
PublishRetry(h) ==
  LET m == worker[h].msg
      level == worker[h].attempt + 1
  IN
  /\ At(h, "retry")
  /\ \/ Enqueue("retry", m, level) /\ NoFault /\ Goto(h, "record")
     \/ /\ MaybeEnqueue("retry", m, level)
        /\ CallFails(h, "publish", m)
        /\ Goto(h, "nack")
  /\ UNCHANGED <<status, api, admin, processed, rows, accepted, tried, replays>>

\* Wrong variants: an error is only logged; DeleteProcessed comes first.
PublishDLQLogsErrors(h) ==
  LET m == worker[h].msg IN
  /\ At(h, "dlq")
  /\ \/ Enqueue("dlq", m, worker[h].attempt) /\ NoFault
     \/ CallFails(h, "publish", m) /\ UNCHANGED queue
  /\ Goto(h, "markFailed")
  /\ UNCHANGED <<status, api, admin, processed, rows, accepted, tried, replays>>

PublishDLQUnmarksFirst(h) ==
  /\ At(h, "dlq")
  /\ processed' = processed \ {worker[h].msg}
  /\ Enqueue("dlq", worker[h].msg, worker[h].attempt) /\ NoFault
  /\ Goto(h, "markFailed")
  /\ UNCHANGED <<status, api, admin, rows, accepted, tried, replays>>

\* Retries are exhausted: PublishDLQ comes before the status changes.
PublishDLQ(h) ==
  LET m == worker[h].msg IN
  /\ At(h, "dlq")
  /\ \/ Enqueue("dlq", m, worker[h].attempt) /\ NoFault /\ Goto(h, "markFailed")
     \/ /\ MaybeEnqueue("dlq", m, worker[h].attempt)
        /\ CallFails(h, "publish", m)
        /\ Goto(h, "nack")
  /\ UNCHANGED <<status, api, admin, processed, rows, accepted, tried, replays>>

\* Errors of the next three calls are only logged.
MarkFailed(h) ==
  LET m == worker[h].msg IN
  /\ At(h, "markFailed")
  /\ \/ CallOK(h) /\ SetStatus(m, "failed")
     \/ CallFails(h, "db", m) /\ MaybeSetStatus(m, "failed")
  /\ Goto(h, "unmark")
  /\ UNCHANGED <<api, queue, admin, processed, rows, accepted, tried, replays>>

\* DeleteProcessed, so that an admin's replay passes the dedup guard.
Unmark(h) ==
  LET m == worker[h].msg IN
  /\ At(h, "unmark")
  /\ \/ CallOK(h) /\ processed' = processed \ {m}
     \/ CallFails(h, "db", m) /\ processed' \in {processed, processed \ {m}}
  /\ Goto(h, "record")
  /\ UNCHANGED <<status, api, queue, admin, rows, accepted, tried, replays>>

\* Wrong variant: circuit_open before dlq.
RowOfOpenFirst(h) ==
  <<worker[h].attempt,
    IF worker[h].outcome = "ok" THEN "success"
    ELSE IF worker[h].outcome = "open" THEN "circuit_open"
    ELSE IF worker[h].attempt = MaxAttempts THEN "dlq" ELSE "retrying">>

\* The status of the delivery_attempts row.
RowOf(h) ==
  <<worker[h].attempt,
    IF worker[h].outcome = "ok" THEN "success"
    ELSE IF worker[h].attempt = MaxAttempts THEN "dlq"
    ELSE IF worker[h].outcome = "open" THEN "circuit_open" ELSE "retrying">>

Record(h) ==
  LET m == worker[h].msg
      Inserted == [rows EXCEPT ![m] = @ \cup {RowOf(h)}]
  IN
  /\ At(h, "record")
  /\ \/ CallOK(h) /\ rows' = Inserted
     \/ CallFails(h, "db", m) /\ rows' \in {rows, Inserted}
  /\ Goto(h, "ack")
  /\ UNCHANGED <<status, api, queue, admin, processed, accepted, tried, replays>>

\* processSync: Ack on nil, Nack without requeue on an error.  The main
\* queues have no dead-letter exchange, so both remove the message.
Settle(h, pc) ==
  /\ At(h, pc)
  /\ worker' = [worker EXCEPT ![h] = IdleHandler]
  /\ UNCHANGED <<status, api, queue, admin, processed, rows, accepted, tried,
                 faults, fault, replays>>

Ack(h) == Settle(h, "ack")
Nack(h) == Settle(h, "nack")

-----------------------------------------------------------------------------
(* Shutdown and crash                                                      *)

Busy(H) == {h \in H : ~At(h, "idle")}

\* The contexts of running handlers are cancelled; deliveries handled later
\* (the drain of a shutdown) run under a fresh one.
CancelContext ==
  /\ Busy(Handler) # {}
  /\ Fault("ctx", {worker[h].msg : h \in Busy(Handler)})
  /\ worker' = [h \in Handler |->
                  IF h \in Busy(Handler)
                  THEN [worker[h] EXCEPT !.ctx = "cancelled"] ELSE worker[h]]
  /\ UNCHANGED <<status, api, queue, admin, processed, rows, accepted, tried,
                 replays>>

\* The process that runs the handlers of H dies: the broker requeues what
\* they had not acked.
Crash(H) ==
  LET unacked(m, a) ==
        {h \in Busy(H) : worker[h].msg = m /\ worker[h].attempt = a}
  IN
  /\ Busy(H) # {}
  /\ Fault("crash", {worker[h].msg : h \in Busy(H)})
  /\ queue' = [queue EXCEPT !["main"] =
                 [m \in Message |-> [a \in Attempts |->
                    @[m][a] + Cardinality(unacked(m, a))]]]
  /\ worker' = [h \in Handler |-> IF h \in H THEN IdleHandler ELSE worker[h]]
  /\ UNCHANGED <<status, api, admin, processed, rows, accepted, tried, replays>>

-----------------------------------------------------------------------------
(* Admin replay: get, publish at attempt 0, then ack or nack               *)

ReplayGet(r, m, a) ==
  /\ admin[r].pc = "idle"
  /\ replays < MaxReplays
  /\ replays' = replays + 1
  /\ Dequeue("dlq", m, a)
  /\ admin' = [admin EXCEPT ![r] = [pc |-> "publish", msg |-> m, attempt |-> a]]
  /\ UNCHANGED <<status, api, worker, processed, rows, accepted, tried, faults,
                 fault>>

ReplayPublish(r) ==
  LET m == admin[r].msg IN
  /\ admin[r].pc = "publish"
  /\ \/ /\ Enqueue("main", m, 0)
        /\ NoFault
        /\ admin' = [admin EXCEPT ![r].pc = "ack"]
     \/ /\ MaybeEnqueue("main", m, 0)
        /\ Fault("publish", {m})
        /\ admin' = [admin EXCEPT ![r].pc = "nack"]
  /\ UNCHANGED <<status, api, worker, processed, rows, accepted, tried, replays>>

\* The DLQ has no dead-letter exchange either: a nack discards the message.
ReplaySettle(r, pc) ==
  /\ admin[r].pc = pc
  /\ admin' = [admin EXCEPT ![r] = IdleAdmin]
  /\ UNCHANGED <<status, api, queue, worker, processed, rows, accepted, tried,
                 faults, fault, replays>>

ReplayAck(r) == ReplaySettle(r, "ack")
ReplayNack(r) == ReplaySettle(r, "nack")

\* The API process dies, or its channel closes before the ack is sent: the
\* broker puts the dead letter back.
AdminCrash(r) ==
  LET m == admin[r].msg IN
  /\ admin[r].pc # "idle"
  /\ Fault("apiCrash", {m})
  /\ Enqueue("dlq", m, admin[r].attempt)
  /\ admin' = [admin EXCEPT ![r] = IdleAdmin]
  /\ UNCHANGED <<status, api, worker, processed, rows, accepted, tried, replays>>

-----------------------------------------------------------------------------
(* The specification                                                       *)

Client ==
  \/ \E m \in Notification : Insert(m) \/ PublishMain(m) \/ Cancel(m)
  \/ \E m \in Poison : PublishPoison(m)

Handle(h) ==
  \/ HandlePoison(h) \/ Mark(h) \/ Send(h) \/ MarkDelivered(h)
  \/ PublishRetry(h) \/ PublishDLQ(h) \/ MarkFailed(h) \/ Unmark(h)
  \/ Record(h) \/ Ack(h) \/ Nack(h)

Broker ==
  \E m \in Message, a \in Attempts :
    Expire(m, a) \/ \E h \in Handler : Deliver(h, m, a)

Replay(r) ==
  \/ \E m \in Message, a \in Attempts : ReplayGet(r, m, a)
  \/ ReplayPublish(r) \/ ReplayAck(r) \/ ReplayNack(r)

Disaster ==
  \/ CancelContext
  \/ \E H \in SUBSET Handler : Crash(H)
  \/ \E r \in Admin : AdminCrash(r)

Next ==
  \/ Client
  \/ Broker
  \/ \E h \in Handler : Handle(h)
  \/ \E r \in Admin : Replay(r)
  \/ Disaster

Spec == Init /\ [][Next]_vars

\* A running handler goes on: the webhook has a timeout, and the database and
\* the broker answer, or the connection fails.  The broker pushes to a free
\* handler, a TTL runs out, and a request that holds a dead letter finishes.
\* Nothing forces a client, an admin or a fault to act.
Fairness ==
  /\ \A m \in Notification : WF_vars(PublishMain(m))
  /\ \A h \in Handler : WF_vars(Handle(h))
  /\ \A m \in Message, a \in Attempts :
       WF_vars(Expire(m, a)) /\ WF_vars(\E h \in Handler : Deliver(h, m, a))
  /\ \A r \in Admin :
       WF_vars(ReplayPublish(r) \/ ReplayAck(r) \/ ReplayNack(r))

FairSpec == Spec /\ Fairness
=============================================================================
