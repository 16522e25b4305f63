------------------------------ MODULE Consumer ------------------------------
(***************************************************************************)
(* One queue's consumer in a worker process: Consumer.Run under its        *)
(* supervisor, the semaphore, the shutdown and its drain.                  *)
(*                                                                         *)
(* The loop of Run, the supervisor's backoff, the handler goroutines, the  *)
(* broker and the timers are separate actors.  The AMQP client and broker  *)
(* are external: a delivery channel that is cancelled still yields what it *)
(* has buffered, a closed AMQP channel does not, and is never reopened.    *)
(***************************************************************************)
EXTENDS Naturals, Sequences, FiniteSets

CONSTANTS
  Message,        \* what the queue holds at first
  Poison,         \* messages whose body does not parse
  Concurrency,    \* ConsumerOptions.Concurrency: the semaphore's capacity
  PrefetchCount,  \* ConsumerOptions.PrefetchCount, at least Concurrency
  FaultKinds,     \* which faults the environment may inject
  MaxFaults,      \* bound: faults injected in one behaviour
  NoDelivery

\* "handler": a handler fails on a live context; "cancel": the broker cancels
\* the consumer; "channel": the AMQP channel closes.
AllFaultKinds == {"handler", "cancel", "channel"}

ASSUME ConsumerAssumption ==
  /\ Concurrency \in Nat \ {0}
  /\ PrefetchCount \in Nat /\ PrefetchCount >= Concurrency
  /\ MaxFaults \in Nat
  /\ IsFiniteSet(Message) /\ Poison \subseteq Message

VARIABLES
  loop,      \* where Run and its supervisor are
  root,      \* the process context: "live", "cancelled"
  drainCtx,  \* the context of the drain: "none", "live", "expired"
  channel,   \* the AMQP channel: "open", "closed"
  stream,    \* the Go channel of deliveries: "none", "open", "cancelled"
  ready,     \* messages ready in the queue
  delivery,  \* deliveries to this consumer, in order: their index is the tag
  held,      \* the delivery for which Run waits for a semaphore slot
  acked,     \* messages acked, by this consumer or by another worker's
  dropped,   \* messages nacked without requeue
  faults     \* faults injected so far

vars == <<loop, root, drainCtx, channel, stream, ready, delivery, held, acked,
          dropped, faults>>

Loop == {"start", "select", "acquire", "drain", "wait", "failed", "backoff",
         "returned", "exited"}
DeliveryRec ==
  [msg : Message,
   at : {"buffered", "held", "running", "ended"},
   own : BOOLEAN,       \* counts against the running consumer's prefetch
   unacked : BOOLEAN,   \* the broker still waits for its ack
   ctx : {"none", "root", "drain"},
   begun : {"none", "live", "cancelled"},   \* its context when it began
   failed : BOOLEAN]    \* its handler failed on a live context

Tags == DOMAIN delivery
Place(p) == {t \in Tags : delivery[t].at = p}

TypeOK ==
  /\ loop \in Loop
  /\ root \in {"live", "cancelled"}
  /\ drainCtx \in {"none", "live", "expired"}
  /\ channel \in {"open", "closed"}
  /\ stream \in {"none", "open", "cancelled"}
  /\ ready \in SUBSET Message
  /\ delivery \in Seq(DeliveryRec)
  /\ held \in Tags \cup {NoDelivery}
  /\ acked \in SUBSET Message
  /\ dropped \in SUBSET Message
  /\ faults \in 0..MaxFaults

Init ==
  /\ loop = "start" /\ root = "live" /\ drainCtx = "none"
  /\ channel = "open" /\ stream = "none"
  /\ ready = Message
  /\ delivery = <<>> /\ held = NoDelivery
  /\ acked = {} /\ dropped = {}
  /\ faults = 0

-----------------------------------------------------------------------------
(* The broker and the AMQP client                                          *)

Fault(k) == k \in FaultKinds /\ faults < MaxFaults /\ faults' = faults + 1

Unacked == {t \in Tags : delivery[t].unacked}

\* basic.deliver, up to the prefetch count of the running consumer.
Push(m) ==
  /\ channel = "open" /\ stream = "open" /\ m \in ready
  /\ Cardinality({t \in Unacked : delivery[t].own}) < PrefetchCount
  /\ ready' = ready \ {m}
  /\ delivery' = Append(delivery,
       [msg |-> m, at |-> "buffered", own |-> TRUE, unacked |-> TRUE,
        ctx |-> "none", begun |-> "none", failed |-> FALSE])
  /\ UNCHANGED <<loop, root, drainCtx, channel, stream, held, acked, dropped,
                 faults>>

\* The consumer is cancelled: by the broker, or by the client, which watches
\* the context given to ConsumeWithContext.
CancelStream ==
  /\ stream = "open"
  /\ \/ root = "cancelled" /\ UNCHANGED faults
     \/ Fault("cancel")
  /\ stream' = "cancelled"
  /\ UNCHANGED <<loop, root, drainCtx, channel, ready, delivery, held, acked,
                 dropped>>

\* The broker requeues every unacked delivery of a channel that closes; what
\* the client had buffered is gone.
Requeued ==
  /\ ready' = ready \cup {delivery[t].msg : t \in Unacked}
  /\ delivery' = [t \in Tags |->
       [delivery[t] EXCEPT !.unacked = FALSE,
                           !.at = IF @ = "buffered" THEN "ended" ELSE @]]

CloseChannel ==
  /\ channel = "open" /\ Fault("channel")
  /\ channel' = "closed"
  /\ stream' = IF stream = "none" THEN "none" ELSE "cancelled"
  /\ Requeued
  /\ UNCHANGED <<loop, root, drainCtx, held, acked, dropped>>

\* Another worker's consumer of the same queue is given a message, handles and
\* acks it; it may be one that this consumer still handles, requeued when its
\* channel closed.
ServedElsewhere(m) ==
  /\ m \in ready
  /\ ready' = ready \ {m} /\ acked' = acked \cup {m}
  /\ UNCHANGED <<loop, root, drainCtx, channel, stream, delivery, held, dropped,
                 faults>>

-----------------------------------------------------------------------------
(* Consumer.Run                                                            *)

\* ConsumeWithContext, which fails on a closed channel and under a context
\* that is already cancelled.
Consume ==
  /\ loop = "start"
  /\ \/ /\ channel = "open" /\ root = "live"
        /\ stream' = "open" /\ loop' = "select"
        /\ delivery' = [t \in Tags |-> [delivery[t] EXCEPT !.own = FALSE]]
     \/ /\ channel = "closed" \/ root = "cancelled"
        /\ loop' = "failed" /\ UNCHANGED <<stream, delivery>>
  /\ UNCHANGED <<root, drainCtx, channel, ready, held, acked, dropped, faults>>

\* The delivery that the Go channel yields next.
NextBuffered(t) ==
  t \in Place("buffered") /\ \A u \in Place("buffered") : t <= u

\* select takes a delivery, also when the context is already cancelled; the
\* loop then waits for a slot and looks at nothing else.
TakeDelivery(t) ==
  /\ loop = "select" /\ NextBuffered(t)
  /\ delivery' = [delivery EXCEPT ![t].at = "held"]
  /\ held' = t /\ loop' = "acquire"
  /\ UNCHANGED <<root, drainCtx, channel, stream, ready, acked, dropped, faults>>

Slots == {t \in Place("running") : delivery[t].ctx = "root"}

\* Wrong variant: the semaphore admits one handler too many.
SlotFreeOffByOne == Cardinality(Slots) <= Concurrency
SlotFree == Cardinality(Slots) < Concurrency

\* A handler goroutine begins under the given context.
Begun(t, c, state) ==
  delivery' = [delivery EXCEPT ![t].at = "running", ![t].ctx = c,
                               ![t].begun = state]

\* process: a free slot, then a handler under the context of Run.
Process ==
  /\ loop = "acquire" /\ SlotFree
  /\ Begun(held, "root", root)
  /\ held' = NoDelivery /\ loop' = "select"
  /\ UNCHANGED <<root, drainCtx, channel, stream, ready, acked, dropped, faults>>

\* Wrong variant: the loop does not look at ok, and processes the zero value of
\* a delivery that the closed Go channel yields.
StreamClosedUnchecked ==
  /\ loop = "select" /\ stream = "cancelled" /\ Place("buffered") = {}
  /\ held' = 0 /\ loop' = "acquire"
  /\ UNCHANGED <<root, drainCtx, channel, stream, ready, delivery, acked, dropped,
                 faults>>

\* The Go channel is closed and empty: Run returns an error.
StreamClosed ==
  /\ loop = "select" /\ stream = "cancelled" /\ Place("buffered") = {}
  /\ loop' = "failed"
  /\ UNCHANGED <<root, drainCtx, channel, stream, ready, delivery, held, acked,
                 dropped, faults>>

-----------------------------------------------------------------------------
(* drain                                                                   *)

\* Wrong variant: the drain does not cancel the consumer.
StartDrainStillConsuming ==
  /\ loop = "select" /\ root = "cancelled"
  /\ loop' = "drain" /\ drainCtx' = "live"
  /\ UNCHANGED <<root, channel, stream, ready, delivery, held, acked, dropped,
                 faults>>

\* The drain begins: the consumer is cancelled, a fresh context made.
StartDrain ==
  /\ loop = "select" /\ root = "cancelled"
  /\ loop' = "drain" /\ drainCtx' = "live" /\ stream' = "cancelled"
  /\ UNCHANGED <<root, channel, ready, delivery, held, acked, dropped, faults>>

\* Wrong variant: the drain runs handlers under the cancelled context.
DrainOnRoot(t) ==
  /\ loop = "drain" /\ NextBuffered(t)
  /\ Begun(t, "drain", root)
  /\ UNCHANGED <<loop, root, drainCtx, channel, stream, ready, held, acked,
                 dropped, faults>>

\* A handler under the drain's context, without a slot.
DrainDelivery(t) ==
  /\ loop = "drain" /\ NextBuffered(t)
  /\ Begun(t, "drain", IF drainCtx = "live" THEN "live" ELSE "cancelled")
  /\ UNCHANGED <<loop, root, drainCtx, channel, stream, ready, held, acked,
                 dropped, faults>>

ExpireDrain ==
  /\ loop \in {"drain", "wait"} /\ drainCtx = "live"
  /\ drainCtx' = "expired"
  /\ UNCHANGED <<loop, root, channel, stream, ready, delivery, held, acked,
                 dropped, faults>>

EndDrain ==
  /\ loop = "drain"
  /\ drainCtx = "expired" \/ Place("buffered") = {}
  /\ loop' = "wait"
  /\ UNCHANGED <<root, drainCtx, channel, stream, ready, delivery, held, acked,
                 dropped, faults>>

\* wg.Wait: for the handlers that the drain started, not for the others.
Return ==
  /\ loop = "wait"
  /\ \A t \in Place("running") : delivery[t].ctx # "drain"
  /\ loop' = "returned"
  /\ UNCHANGED <<root, drainCtx, channel, stream, ready, delivery, held, acked,
                 dropped, faults>>

-----------------------------------------------------------------------------
(* processSync                                                             *)

Cancelled(c) == IF c = "root" THEN root = "cancelled" ELSE drainCtx = "expired"

\* Wrong variant: an ack of a closed channel takes effect.
SettleAlways(t, verdict, faulty) ==
  /\ delivery' = [delivery EXCEPT ![t].at = "ended", ![t].unacked = FALSE,
                                 ![t].failed = faulty]
  /\ acked' = IF verdict = "ack" THEN acked \cup {delivery[t].msg} ELSE acked
  /\ dropped' = IF verdict = "nack" THEN dropped \cup {delivery[t].msg} ELSE dropped

\* The ack or nack of a delivery whose channel has closed is an error that
\* is only logged; the broker has requeued the message.
Settle(t, verdict, faulty) ==
  LET settled(v) ==
        IF delivery[t].unacked /\ verdict = v THEN {delivery[t].msg} ELSE {} IN
  /\ delivery' = [delivery EXCEPT ![t].at = "ended", ![t].unacked = FALSE,
                                 ![t].failed = faulty]
  /\ acked' = acked \cup settled("ack")
  /\ dropped' = dropped \cup settled("nack")

\* The handler returns nil: under a context that was cancelled all along only
\* for a poison message, whether or not it reached the DLQ.
HandlerSucceeds(t) ==
  /\ t \in Place("running")
  /\ delivery[t].begun = "live" \/ delivery[t].msg \in Poison
  /\ Settle(t, "ack", FALSE)
  /\ UNCHANGED <<loop, root, drainCtx, channel, stream, ready, held, faults>>

\* The handler returns an error, which a cancelled context causes.
HandlerFails(t) ==
  /\ t \in Place("running") /\ delivery[t].msg \notin Poison
  /\ Cancelled(delivery[t].ctx) \/ delivery[t].begun = "cancelled"
  /\ Settle(t, "nack", FALSE)
  /\ UNCHANGED <<loop, root, drainCtx, channel, stream, ready, held, faults>>

\* A call of the handler fails on a live context.
HandlerFaults(t) ==
  /\ t \in Place("running") /\ delivery[t].msg \notin Poison
  /\ ~Cancelled(delivery[t].ctx) /\ Fault("handler")
  /\ Settle(t, "nack", TRUE)
  /\ UNCHANGED <<loop, root, drainCtx, channel, stream, ready, held>>

-----------------------------------------------------------------------------
(* The supervisor and the process                                          *)

\* Wrong variants: an error always leads to a backoff, also after a shutdown;
\* an error ends the supervisor like a clean shutdown.
SuperviseAgain ==
  /\ loop = "failed"
  /\ loop' = "backoff"
  /\ UNCHANGED <<root, drainCtx, channel, stream, ready, delivery, held, acked,
                 dropped, faults>>

SuperviseOnce ==
  /\ loop = "failed"
  /\ loop' = "returned"
  /\ UNCHANGED <<root, drainCtx, channel, stream, ready, delivery, held, acked,
                 dropped, faults>>

\* Run returned an error: stop if the context is cancelled, else back off.
Supervise ==
  /\ loop = "failed"
  /\ loop' = IF root = "cancelled" THEN "returned" ELSE "backoff"
  /\ UNCHANGED <<root, drainCtx, channel, stream, ready, delivery, held, acked,
                 dropped, faults>>

\* The delay passes, or the context is cancelled first; when both have
\* happened select takes either.
EndBackoff ==
  /\ loop = "backoff"
  /\ \/ loop' = "start"
     \/ root = "cancelled" /\ loop' = "returned"
  /\ UNCHANGED <<root, drainCtx, channel, stream, ready, delivery, held, acked,
                 dropped, faults>>

Shutdown ==
  /\ root = "live"
  /\ root' = "cancelled"
  /\ UNCHANGED <<loop, drainCtx, channel, stream, ready, delivery, held, acked,
                 dropped, faults>>

\* RunWorker waits for the supervisors of all queues, which return only after
\* a shutdown; the process then closes its connection and exits, and handlers
\* that still run end with it.
Exit ==
  /\ loop = "returned" /\ root = "cancelled"
  /\ loop' = "exited" /\ channel' = "closed"
  /\ ready' = ready \cup {delivery[t].msg : t \in Unacked}
  /\ delivery' = [t \in Tags |->
       [delivery[t] EXCEPT !.unacked = FALSE, !.at = "ended"]]
  /\ held' = NoDelivery
  /\ UNCHANGED <<root, drainCtx, stream, acked, dropped, faults>>

-----------------------------------------------------------------------------

Run ==
  \/ Consume \/ Process \/ StreamClosed \/ StartDrain \/ EndDrain \/ Return
  \/ \E t \in Tags : TakeDelivery(t) \/ DrainDelivery(t)

Handler(t) == HandlerSucceeds(t) \/ HandlerFails(t) \/ HandlerFaults(t)

Next ==
  \/ Run
  \/ \E t \in Tags : Handler(t)
  \/ \E m \in Message : Push(m) \/ ServedElsewhere(m)
  \/ CancelStream \/ CloseChannel
  \/ ExpireDrain \/ Supervise \/ EndBackoff \/ Shutdown \/ Exit

Spec == Init /\ [][Next]_vars

\* Run and its supervisor go on, handlers return (the webhook call has a
\* timeout, the database and the broker answer or fail), the broker pushes,
\* timers fire and a process that may exit does; no fault and no shutdown has to happen.
Fairness ==
  /\ WF_vars(Run) /\ WF_vars(Supervise) /\ WF_vars(EndBackoff)
  /\ WF_vars(ExpireDrain) /\ WF_vars(Exit)
  /\ WF_vars(\E t \in Tags : HandlerSucceeds(t) \/ HandlerFails(t))
  /\ WF_vars(\E m \in Message : Push(m))

FairSpec == Spec /\ Fairness
=============================================================================
