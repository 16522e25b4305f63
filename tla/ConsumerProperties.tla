------------------------- MODULE ConsumerProperties -------------------------
(***************************************************************************)
(* What a worker's consumer promises to the queue and to the operator who  *)
(* stops the process.                                                      *)
(***************************************************************************)
EXTENDS Consumer

Running == Place("running")

\* INV: every message is in exactly one place: ready, in one unacked
\* delivery, acked, or dropped; an ack or nack that comes after the channel
\* closed (consumer.go:167-174 logs the error) changes nothing for the copy that
\* was requeued, also when another worker has served it meanwhile.
EachMessageInOnePlace ==
  \A m \in Message :
    LET unacked == {t \in Unacked : delivery[t].msg = m} IN
    \/ unacked = {} /\ m \in ready /\ m \notin acked \cup dropped
    \/ unacked = {} /\ m \notin ready /\ m \in acked /\ m \notin dropped
    \/ unacked = {} /\ m \notin ready /\ m \notin acked /\ m \in dropped
    \/ Cardinality(unacked) = 1 /\ m \notin ready \cup acked \cup dropped

\* INV: at most Concurrency handlers run outside a drain (consumer.go:39,
\* 152-161), also across the restarts of Run, which share the semaphore with
\* handlers of the Run before.  The drain hands out deliveries without a slot
\* (consumer.go:144-147), yet never more than one prefetch in all: none reaches
\* the buffer after it cancelled the consumer (consumer.go:123), so that a
\* shutdown does not go on to serve the queue.
HandlersBounded ==
  /\ Cardinality({t \in Running : delivery[t].ctx # "drain"}) <= Concurrency
  /\ Cardinality({t \in Tags : delivery[t].ctx = "drain"}) <= PrefetchCount

\* INV: a delivery that the drain handed out is dropped only by a failing
\* handler or after the drain's deadline: its context is a fresh one
\* (consumer.go:126, 146).
DrainedNotDropped ==
  \A t \in Tags :
    /\ delivery[t].ctx = "drain" /\ delivery[t].msg \in dropped
    /\ ~delivery[t].failed
    => drainCtx = "expired"

\* LIVE: a shutdown ends the process, whatever the loop was waiting for: a
\* slot, a backoff, a delivery or a handler.
ShutdownTerminates == root = "cancelled" ~> loop = "exited"

\* LIVE: while the channel is open and no shutdown comes, every message is
\* taken from the queue, also after the broker cancelled the consumer: the
\* supervisor starts Run again (worker.go:88-116).
QueueIsServed ==
  \A m \in Message :
    m \in ready ~> (m \notin ready \/ root = "cancelled" \/ channel = "closed")

-----------------------------------------------------------------------------
(* What comments say, and the code does not do                             *)

\* consumer.go:90-93 says that Run "drains in-flight deliveries with a fresh,
\* bounded context so handlers can actually complete; anything still unacked
\* when the channel closes is requeued by the broker": a delivery of which a
\* healthy handler began before the shutdown is not dropped before the drain's
\* deadline.
ShutdownDropsNothing ==
  faults = 0 /\ drainCtx # "expired"
    => \A t \in Tags : delivery[t].begun = "live" => delivery[t].msg \notin dropped
=============================================================================
