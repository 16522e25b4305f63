----------------------------- MODULE Submission -----------------------------
(***************************************************************************)
(* POST /notifications and POST /notifications/batch: the rate limiter,    *)
(* the idempotency key, the row or rows, and the publishes.  Every call    *)
(* the handler makes to a token bucket, the database or the broker is one  *)
(* step, so that concurrent requests interleave between any two of them.   *)
(*                                                                         *)
(* PostgreSQL, RabbitMQ and golang.org/x/time/rate (TokenBucket) are       *)
(* external: they are modelled by what the code asks of them.              *)
(***************************************************************************)
EXTENDS TokenBucket, FiniteSets, Sequences

CONSTANTS
  Request,      \* HTTP requests, each made once; a client's retry is another
  Batch,        \* those that are POST /notifications/batch
  Channel,
  Items,        \* the channels of a request's notifications, in order
  Invalid,      \* requests of which Validate rejects a notification
  NoKey,
  KeyOf,        \* the Idempotency-Key of a request, or NoKey
  FaultKinds,   \* which faults the environment may inject
  MaxFaults,    \* bound: faults injected in one behaviour
  MaxTicks,     \* bound: time that passes, in tokens, in one behaviour
  NoId,
  NoReservation

\* "db", "publish": a call returns an error; "crash": the API restarts.
AllFaultKinds == {"db", "publish", "crash"}

ASSUME SubmissionAssumption ==
  /\ Batch \subseteq Request
  /\ Invalid \subseteq Request
  /\ Items \in [Request -> Seq(Channel)]
  /\ \A r \in Request : Len(Items[r]) > 0
  /\ \A r \in Request \ Batch : Len(Items[r]) = 1
  /\ DOMAIN KeyOf = Request
  /\ \A r \in Batch : KeyOf[r] = NoKey
  /\ MaxFaults \in Nat /\ MaxTicks \in Nat
  /\ FaultKinds \subseteq AllFaultKinds

\* The ids a request generates for its notifications.
IdsOf(r) == {r} \X (DOMAIN Items[r])
Id == UNION {IdsOf(r) : r \in Request}

VARIABLES
  pc,        \* each request's place in its handler
  todo,      \* channels whose bucket the request has still to ask
  held,      \* the reservation that is still to be cancelled
  limited,   \* some bucket has refused the request
  seen,      \* the clock at the latest step of a request in the limiter, else 0
  next,      \* index of the next notification to publish
  answer,    \* status code and notification of the response
  rows,      \* notifications table: ids
  sent,      \* how often a notification's message reached a main queue
  bucket,    \* a channel's token bucket
  skewed,    \* a call on the bucket went back in time (history)
  clock,     \* time, of which a unit is worth one token
  restarts,  \* restarts of the API, each with full buckets
  faults     \* faults injected so far

vars == <<pc, todo, held, limited, seen, next, answer, rows, sent, bucket,
          skewed, clock, restarts, faults>>
limiter == <<todo, held, limited, bucket, skewed, clock, restarts>>

RequestPC == {"new", "charge", "giveBack", "lookup", "create", "publish", "done"}
Reservation == [channel : Channel, due : Nat]
Code == {"none", "202", "400", "429", "500", "lost"}

TypeOK ==
  /\ pc \in [Request -> RequestPC]
  /\ todo \in [Request -> SUBSET Channel]
  /\ held \in [Request -> Reservation \cup {NoReservation}]
  /\ limited \in [Request -> BOOLEAN]
  /\ seen \in [Request -> 0..MaxTicks]
  /\ next \in [Request -> Nat]
  /\ answer \in [Request -> [code : Code, id : Id \cup {NoId}]]
  /\ rows \in SUBSET Id
  /\ sent \in [Id -> Nat]
  /\ bucket \in [Channel -> BucketRec]
  /\ skewed \in [Channel -> BOOLEAN]
  /\ clock \in 0..MaxTicks
  /\ restarts \in 0..MaxFaults
  /\ faults \in 0..MaxFaults

Init ==
  /\ pc = [r \in Request |-> "new"]
  /\ todo = [r \in Request |-> {Items[r][i] : i \in DOMAIN Items[r]}]
  /\ held = [r \in Request |-> NoReservation]
  /\ limited = [r \in Request |-> FALSE]
  /\ seen = [r \in Request |-> 0]
  /\ next = [r \in Request |-> 1]
  /\ answer = [r \in Request |-> [code |-> "none", id |-> NoId]]
  /\ rows = {}
  /\ sent = [id \in Id |-> 0]
  /\ bucket = [c \in Channel |-> FullBucket(0)]
  /\ skewed = [c \in Channel |-> FALSE]
  /\ clock = 0
  /\ restarts = 0
  /\ faults = 0

-----------------------------------------------------------------------------
(* Helpers                                                                 *)

NoFault == UNCHANGED faults
Fault(k) == k \in FaultKinds /\ faults < MaxFaults /\ faults' = faults + 1

Goto(r, p) == pc' = [pc EXCEPT ![r] = p]

\* The handler writes its response and returns.
Answer(r, code, id) ==
  /\ Goto(r, "done")
  /\ answer' = [answer EXCEPT ![r] = [code |-> code, id |-> id]]

Continue(r, p) == Goto(r, p) /\ UNCHANGED answer

\* A batch is answered with its batch id, which no notification has.
AnswerId(r) == IF r \in Batch THEN NoId ELSE <<r, 1>>

RowsWithKey(k) == {id \in rows : KeyOf[id[1]] = k}

-----------------------------------------------------------------------------
(* The rate limiter                                                        *)

\* Wrong variant: a batch is charged one token for a channel.
CountOnce(r, c) == 1

\* How many tokens of channel c the request needs.
Count(r, c) == Cardinality({i \in DOMAIN Items[r] : Items[r][i] = c})

\* A step of r that leads into the limiter, or on in it, notes the clock.
Look(r) ==
  seen' = [seen EXCEPT ![r] = IF pc'[r] \in {"charge", "giveBack"} THEN clock ELSE 0]

\* createBatch validates every item before anything else; create does not.
Receive(r) ==
  /\ pc[r] = "new"
  /\ \/ r \in Batch \cap Invalid /\ Answer(r, "400", NoId)
     \/ r \notin Batch \cap Invalid /\ Continue(r, "charge")
  /\ Look(r)
  /\ UNCHANGED <<limiter, next, rows, sent, faults>>

\* The bucket of c has answered; after the last one the request goes on if
\* none has refused.
Charged(r, c, ok) ==
  LET refused == limited[r] \/ ~ok IN
  /\ todo' = [todo EXCEPT ![r] = @ \ {c}]
  /\ limited' = [limited EXCEPT ![r] = refused]
  /\ \/ todo[r] # {c} /\ Continue(r, "charge")
     \/ todo[r] = {c} /\ refused /\ Answer(r, "429", NoId)
     \/ /\ todo[r] = {c} /\ ~refused
        /\ Continue(r, IF KeyOf[r] = NoKey THEN "create" ELSE "lookup")

\* time.Now() of a limiter call of r, somewhere between r's step before and
\* the moment at which the call has the bucket's lock.
Now(r) == seen[r]..clock

\* ReserveN, and DelayFrom the same time: a reservation that is not due now is
\* refused, and pending until it is cancelled.  Batches ask in any order.
AllowChannel(r, c) ==
  LET n == Count(r, c) IN
  /\ pc[r] = "charge" /\ c \in todo[r]
  /\ \/ n > Burst /\ Charged(r, c, FALSE) /\ UNCHANGED <<bucket, skewed, held>>
     \/ /\ n <= Burst
        /\ \E t \in Now(r) :
             LET b == ReserveN(bucket[c], n, t) IN
             /\ bucket' = [bucket EXCEPT ![c] = b]
             /\ skewed' = [skewed EXCEPT ![c] = @ \/ t < bucket[c].last]
             /\ \/ b.tokens >= 0 /\ Charged(r, c, TRUE) /\ UNCHANGED held
                \/ /\ b.tokens < 0
                   /\ held' = [held EXCEPT ![r] =
                                 [channel |-> c, due |-> b.lastEvent]]
                   /\ Continue(r, "giveBack") /\ UNCHANGED <<todo, limited>>
  /\ Look(r)
  /\ UNCHANGED <<next, rows, sent, clock, restarts, faults>>

\* Cancel.
GiveBack(r) ==
  LET c == held[r].channel
      n == Count(r, c)
      due == held[r].due
  IN
  /\ pc[r] = "giveBack"
  /\ \E t \in Now(r) :
       /\ bucket' = [bucket EXCEPT ![c] = CancelAt(@, n, due, t)]
       /\ skewed' = [skewed EXCEPT ![c] =
            @ \/ /\ Restorable(bucket[c], n, due, t) > 0
                 /\ t < bucket[c].last \/ bucket[c].lastEvent < due]
  /\ held' = [held EXCEPT ![r] = NoReservation]
  /\ Charged(r, c, FALSE)
  /\ Look(r)
  /\ UNCHANGED <<next, rows, sent, clock, restarts, faults>>

\* The time of one token passes.
Tick ==
  /\ clock < MaxTicks
  /\ clock' = clock + 1
  /\ UNCHANGED <<pc, todo, held, limited, seen, next, answer, rows, sent, bucket,
                 skewed, restarts, faults>>

-----------------------------------------------------------------------------
(* NotificationService                                                     *)

\* CreateWithIdempotency: GetByIdempotencyKey.  A row with the key is the
\* answer, even to a request that Validate would reject.
Lookup(r) ==
  LET found == RowsWithKey(KeyOf[r]) IN
  /\ pc[r] = "lookup"
  /\ \/ NoFault /\ \E id \in found : Answer(r, "202", id)
     \/ NoFault /\ found = {} /\ Continue(r, "create")
     \/ Fault("db") /\ Answer(r, "500", NoId)
  /\ UNCHANGED <<limiter, seen, next, rows, sent>>

\* Wrong variant: the index is not unique.
NoConflict(r) == FALSE

\* The unique index on idempotency_key rejects a second row.
Conflict(r) == KeyOf[r] # NoKey /\ RowsWithKey(KeyOf[r]) # {}

\* Wrong variant: only the first row of a batch is committed.
InsertedFirst(r) == rows \cup {<<r, 1>>}

\* Insert and InsertBatch: one statement, or one transaction.
Inserted(r) == rows \cup IdsOf(r)

\* Wrong variant: the row is inserted before it is validated.
CreateValidatesLate(r) ==
  /\ pc[r] = "create" /\ ~Conflict(r)
  /\ rows' = Inserted(r)
  /\ IF r \in Invalid THEN Answer(r, "400", NoId) ELSE Continue(r, "publish")
  /\ NoFault
  /\ UNCHANGED <<limiter, seen, next, sent>>

\* Create and CreateBatch validate, then insert in one statement or one
\* transaction; an error of the commit may hide that it was applied.
Create(r) ==
  /\ pc[r] = "create"
  /\ \/ /\ r \in Invalid
        /\ Answer(r, "400", NoId) /\ UNCHANGED rows /\ NoFault
     \/ /\ r \notin Invalid /\ Conflict(r)
        /\ Answer(r, "500", NoId) /\ UNCHANGED rows /\ NoFault
     \/ /\ r \notin Invalid /\ ~Conflict(r)
        /\ rows' = Inserted(r)
        /\ Continue(r, "publish") /\ NoFault
     \/ /\ r \notin Invalid
        /\ Fault("db")
        /\ rows' \in {rows, IF Conflict(r) THEN rows ELSE Inserted(r)}
        /\ Answer(r, "500", NoId)
  /\ UNCHANGED <<limiter, seen, next, sent>>

\* A batch goes on with its next notification; a single request is answered.
Published(r) ==
  /\ next' = [next EXCEPT ![r] = @ + 1]
  /\ \/ next[r] < Len(Items[r]) /\ Continue(r, "publish")
     \/ next[r] = Len(Items[r]) /\ Answer(r, "202", AnswerId(r))

\* Wrong variants: a failed publish is repeated at once; its error is only
\* logged, as in a batch.
PublishAgain(r) ==
  /\ pc[r] = "publish"
  /\ sent' = [sent EXCEPT ![<<r, next[r]>>] = @ + 1]
  /\ \/ NoFault /\ Published(r)
     \/ Fault("publish") /\ UNCHANGED <<pc, answer, next>>
  /\ UNCHANGED <<limiter, seen, rows>>

PublishLogsErrors(r) ==
  /\ pc[r] = "publish"
  /\ \/ sent' = [sent EXCEPT ![<<r, next[r]>>] = @ + 1] /\ NoFault
     \/ UNCHANGED sent /\ Fault("publish")
  /\ Published(r)
  /\ UNCHANGED <<limiter, seen, rows>>

\* publishOne.  An error ends a single request with 500, and a batch logs it;
\* the message may have reached the queue all the same.
Publish(r) ==
  LET reached == sent' = [sent EXCEPT ![<<r, next[r]>>] = @ + 1] IN
  /\ pc[r] = "publish"
  /\ \/ reached /\ NoFault /\ Published(r)
     \/ /\ Fault("publish")
        /\ reached \/ UNCHANGED sent
        /\ \/ r \in Batch /\ Published(r)
           \/ r \notin Batch /\ Answer(r, "500", NoId) /\ UNCHANGED next
  /\ UNCHANGED <<limiter, seen, rows>>

\* The API dies with its requests and comes back with full buckets.
Running == {r \in Request : pc[r] \notin {"new", "done"}}

Restart ==
  /\ Fault("crash")
  /\ pc' = [r \in Request |-> IF r \in Running THEN "done" ELSE pc[r]]
  /\ answer' = [r \in Request |->
       IF r \in Running THEN [code |-> "lost", id |-> NoId] ELSE answer[r]]
  /\ held' = [r \in Request |-> NoReservation]
  /\ seen' = [r \in Request |-> 0]
  /\ bucket' = [c \in Channel |-> FullBucket(clock)]
  /\ restarts' = restarts + 1
  /\ UNCHANGED <<todo, limited, next, rows, sent, skewed, clock>>

-----------------------------------------------------------------------------

Serve(r) ==
  \/ \E c \in Channel : AllowChannel(r, c)
  \/ GiveBack(r) \/ Lookup(r) \/ Create(r) \/ Publish(r)

Next ==
  \/ \E r \in Request : Receive(r) \/ Serve(r)
  \/ Tick \/ Restart

Spec == Init /\ [][Next]_vars
=============================================================================
