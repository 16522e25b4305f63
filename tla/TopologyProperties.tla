------------------------- MODULE TopologyProperties -------------------------
(***************************************************************************)
(* What the routing keys and headers must achieve together.                *)
(***************************************************************************)
EXTENDS Topology

Home(m) == MainKey(ChannelOf[m], AskedPriority(m))

InDLQ(c) == c.queue = DLQQueue(c.queue[1])

FirstLevels(n) == [l \in 1..n |-> l]

-----------------------------------------------------------------------------

\* INV: wherever a message is, it is on its own channel and priority, and the
\* key that will bring it back (the retry queue's x-dead-letter-routing-key,
\* the dead letter's x-original-routing-key) leads there: through three
\* retries, the DLQ and any number of replays (topology.go:88-205,
\* retry_publisher.go:25-66, deliver.go:228-264, handler_admin.go:169-185).
EveryCopyIsAtHome ==
  \A c \in copies :
    IF InDLQ(c)
    THEN c.queue[1] = ChannelOf[c.msg] /\ c.origin = Home(c.msg)
    ELSE MainKey(c.queue[1], c.queue[2]) = Home(c.msg)

\* INV: a message that was published is in exactly one queue, or with one
\* replay request, until it is delivered or a failed publish drops it: every
\* key that some component builds is bound to exactly one queue.  An unbound
\* key would be a silent loss (publisher.go:38-56 ignores returns).
EveryMessageHasOneCopy ==
  \A m \in api :
    LET ready == {c \in copies : c.msg = m}
        held == {r \in Admin : At(r, "publish") /\ replay[r].held.msg = m}
        gone == m \in settled \/ \E d \in dropped : d[1] = m
    IN Cardinality(ready) + Cardinality(held) = IF gone THEN 0 ELSE 1

\* INV: x-attempt is the number of TTLs waited for: a notification that waits
\* at level n has waited for 1..n-1 in this order, and one in the DLQ for all
\* levels; a replay starts again with none (deliver.go:228-264).
WaitsForEveryLevel ==
  \A c \in copies :
    c.msg \notin Poison =>
      /\ InDLQ(c) => c.attempt = MaxAttempts
      /\ c.queue \in RetryKeys => c.queue[4] = c.attempt
      /\ waited[c.msg] =
           FirstLevels(IF c.queue \in RetryKeys THEN c.attempt - 1 ELSE c.attempt)

\* INV: a replay that answers 200 has put as many letters back as it says, at
\* most its limit, and has discarded none: the nack without requeue of a
\* failed publish (handler_admin.go:183-189) is always answered 500.
ReplayAnswerIsTrue ==
  \A r \in Admin :
    replay[r].code = "200" =>
      /\ replay[r].replayed = replay[r].moved
      /\ replay[r].replayed <= replay[r].limit
      /\ \A d \in dropped : d[2] # r

-----------------------------------------------------------------------------
(* Liveness, under FairSpec                                                *)

\* LIVE: a replay request ends although its loop reads the queue that the
\* workers fill: an unparseable letter comes straight back
\* (handler_admin.go:155-193, deliver.go:118-136).
ReplayEnds == \A r \in Admin : At(r, "get") ~> At(r, "done")
=============================================================================
