------------------------ MODULE SubmissionProperties ------------------------
(***************************************************************************)
(* What the notification API promises to its clients and to the workers.   *)
(***************************************************************************)
EXTENDS Submission

Answered(r, code) == answer[r].code = code

\* INV: all requests that name one Idempotency-Key and are accepted are
\* answered with the same notification, and it is the only row with that key
\* (notification_service.go:115-130, the unique index of migration 0003),
\* however their lookups and inserts interleave.
SameKeySameNotification ==
  \A r, s \in Request :
    /\ KeyOf[r] = KeyOf[s] /\ KeyOf[r] # NoKey
    /\ Answered(r, "202") /\ Answered(s, "202")
    => answer[r].id = answer[s].id /\ RowsWithKey(KeyOf[r]) = {answer[r].id}

\* The rows stored for c, and what its bucket has ever been filled with.
StoredFor(c) == {id \in rows : Items[id[1]][id[2]] = c}
Budget(c) == Burst * (1 + restarts) + clock

\* INV: the rows stored for a channel never exceed what its bucket was filled
\* with, each item of a batch counting (handler_notification.go:206-219,
\* limiter.go:46-61), though refused reservations of concurrent requests
\* overlap before they are cancelled; unless a call on the bucket went back in
\* time: it brought an earlier time.Now() (limiter.go:48) than the call before,
\* or cancelled (limiter.go:59) a reservation that was due after the latest.
StoredWithinBudget ==
  \A c \in Channel : ~skewed[c] => Cardinality(StoredFor(c)) <= Budget(c)

\* INV: a request answered 400 or 429 leaves neither a row nor a message,
\* whichever of its notifications was invalid or whichever bucket refused.
RejectedLeavesNoTrace ==
  \A r \in Request :
    Answered(r, "400") \/ Answered(r, "429")
      => \A id \in IdsOf(r) : id \notin rows /\ sent[id] = 0

\* INV: a notification's message is published at most once and only after its
\* row is stored, also when a publish fails, the batch goes on, or a client
\* repeats the request with the same key: a worker never meets an unknown id
\* and never a second copy.
PublishedOnceAfterStored ==
  \A id \in Id : sent[id] <= 1 /\ (sent[id] = 1 => id \in rows)

\* The request that stored a notification is still to publish it, was answered
\* 500, or died with the API.
Unsettled(r) == pc[r] = "publish" \/ Answered(r, "500") \/ Answered(r, "lost")

\* INV: 202 means that the notification it names has its message in a main
\* queue.  Two requests are accepted without: a batch in which a publish failed
\* (notification_service.go:172-182), and one whose Idempotency-Key names the
\* row of another request, which has yet to publish it or could not
\* (notification_service.go:116-119), never one whose own row it is.
AcceptedIsQueued ==
  \A r \in Request :
    Answered(r, "202") =>
      \/ r \in Batch /\ (faults = 0 => \A id \in IdsOf(r) : sent[id] = 1)
      \/ /\ r \notin Batch
         /\ LET id == answer[r].id IN
            /\ id \in rows
            /\ sent[id] = 1 \/ (id[1] # r /\ Unsettled(id[1]))

-----------------------------------------------------------------------------
(* Refinement                                                              *)

Store == INSTANCE NotificationStore

\* REFINEMENT: the handlers together are an idempotent store with an outbox
\* (notification_service.go:76-184): rows of a request appear together and
\* once, a message follows its row, and no answer is ever belied later.
ImplementsStore == Store!Spec

-----------------------------------------------------------------------------
(* What a comment says, and the code does not do                           *)

\* limiter.go:21-22 says that New "returns a ChannelLimiter that allows rps
\* tokens per second with the given burst for each channel": no channel stores
\* more than that, also while one process runs and its buckets' calls overlap.
RateIsKept == \A c \in Channel : Cardinality(StoredFor(c)) <= Budget(c)
=============================================================================
