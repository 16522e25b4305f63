-------------------------- MODULE ConsumerInvariant --------------------------
(***************************************************************************)
(* The inductive invariant behind the safety properties of Consumer.       *)
(***************************************************************************)
EXTENDS ConsumerProperties

DrainTags == {t \in Tags : delivery[t].ctx = "drain"}
OwnUnacked == {t \in Unacked : delivery[t].own}

\* From the beginning of a drain, or a return without one, Run never selects
\* again.
DrainPhase == {"drain", "wait", "returned", "exited"}

\* INV: what a delivery's place says of it.
TagsWellFormed ==
  \A t \in Tags :
    LET d == delivery[t] IN
    /\ d.at = "buffered" => d.own /\ d.unacked
    /\ d.at \in {"buffered", "held"} => d.ctx = "none"
    /\ d.at = "running" => d.ctx # "none"
    /\ d.failed => d.at = "ended"

\* INV: what the place of the loop says of the buffer: only a consumer that
\* runs is pushed to, and a Run that ends with an error has emptied it.
LoopWellFormed ==
  /\ loop = "acquire" => held \in Place("held")
  /\ loop \notin {"select", "acquire"} => stream # "open"
  /\ loop \in {"start", "failed", "backoff"} => Place("buffered") = {}
  /\ channel = "closed" => Unacked = {}

\* INV: deliveries are drained only in a drain, under its context.
DrainWellFormed ==
  /\ loop \in {"drain", "wait"} => drainCtx # "none"
  /\ loop \notin DrainPhase => DrainTags = {}
  /\ \A t \in DrainTags : delivery[t].begun = "cancelled" => drainCtx = "expired"

\* INV: ready, unacked, acked and dropped messages are all of them, and no
\* message is two of these, or unacked twice.
OnePlace ==
  /\ Message = ready \cup acked \cup dropped \cup {delivery[t].msg : t \in Unacked}
  /\ ready \cap (acked \cup dropped) = {} /\ acked \cap dropped = {}
  /\ \A t \in Unacked : delivery[t].msg \notin ready \cup acked \cup dropped
  /\ \A t, u \in Unacked : delivery[t].msg = delivery[u].msg => t = u

\* INV: a drained delivery is unacked until it is settled or the channel
\* closes, which no later delivery follows.
DrainedSettledOnce ==
  \A t \in DrainTags :
    delivery[t].unacked \/ channel = "closed" \/ delivery[t].msg \in acked \cup dropped

\* INV: the prefetch bounds what a consumer has unacked, and so what a drain
\* finds in the buffer.
PrefetchInv ==
  /\ Cardinality(OwnUnacked) <= PrefetchCount
  /\ loop \in DrainPhase =>
       Cardinality(DrainTags \cup Place("buffered")) <= PrefetchCount

SlotsInv == Cardinality(Slots) <= Concurrency

IInv ==
  /\ TypeOK
  /\ TagsWellFormed /\ LoopWellFormed /\ DrainWellFormed
  /\ OnePlace
  /\ DrainedSettledOnce /\ DrainedNotDropped
  /\ PrefetchInv /\ SlotsInv
=============================================================================
