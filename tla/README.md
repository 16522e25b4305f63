# Notification dispatcher: a TLA+ verification

This directory holds TLA+ models of the notification dispatcher, TLC
configurations that check them on small instances, and TLAPS proofs of their safety
properties for all instances. All paths below are relative to `src/`.

## 1. The system

The program is two processes around PostgreSQL and RabbitMQ.

```
 client --HTTP--> API  --INSERT--> notifications
                   |  --publish--> notifications exchange --> main queues (channel x priority)
                   |                                              |
 admin --replay--> |<-- get -- DLQ <---- publish -- worker <------+ deliveries
                                                     |  ^
                         retry queues (TTL) <--------+  +--- TTL expires, back to main
                                                     |
                                                     +--> circuit breaker --> webhook
```

### Inventory

| Component | State | Operations | What is hard | What makes it correct |
|---|---|---|---|---|
| Submission (`handler_notification.go`, `notification_service.go`) | `notifications` and `batches` rows, the unique index on `idempotency_key` | create, createBatch, get, list, summary, cancel | concurrent repeats of one key; a publish that fails after the commit | one notification per key; message only after its row; a rejected request leaves no trace |
| Rate limiter (`ratelimit/limiter.go`) | a token bucket per channel | AllowChannel (ReserveN, Cancel) | overlapping reservations that are given back; clocks read before the bucket's lock; batches on several buckets | rows stay within the tokens given out |
| Delivery (`deliver.go` and its repositories and publisher) | row status, `processed_messages`, `delivery_attempts`, the broker's queues | Handle: dedup, send, status, retry, dead-letter, audit row | two copies at once; each of six calls fails alone or is applied although it failed; crash, cancellation | at most one acceptance; failed means dead-lettered; nothing vanishes |
| Admin replay (`handler_admin.go`) | the dead letter it holds unacked | replayDLQ, inspectDLQ | races the handler that dead-lettered; publish fails after the get | the replay is handled again, or the letter stays |
| Consumer and supervisor (`consumer.go`, `worker.go`) | AMQP channel, delivery stream, semaphore, contexts | Run, process, drain, supervisorLoop | shutdown in any state; acks of a closed channel; handlers of an earlier Run | each message in one place; bounded concurrency; a shutdown ends |
| Circuit breaker (`provider/`) | gobreaker's state, counts and generation per channel | Send, BreakerState | results that arrive in a later generation; cancelled contexts | opens, probes and closes only as configured; recovers |
| Topology (`topology.go`, keys and headers built in `message.go`, `retry_publisher.go`, `deliver.go`, `handler_admin.go`) | exchanges, queues, bindings, TTLs | declarations, routing keys | a key is built by one component and taken apart by another; a publish to an unbound key is confirmed | a message keeps its channel and priority through retries, DLQ and replay; one copy; the levels in order |
| Queries (`notification_repository.go`, the GET and DELETE handlers) | the rows that others write | List, GetBatchSummary, CancelIfPending | two statements that see different snapshots; pages walked while rows are stored | what a client is told stays true |
| Validation (`validation.go`), list parameters | none | Validate, parseListParams | boundaries, an offset that overflows | exactly the documented inputs pass |
| Configuration, logger, metrics, health, docs, middleware, router, connection | none that matters here | start, probes | - | - |

Workers and API share the database and the broker; handlers of one process
share a circuit breaker per channel and a semaphore per queue; the consumer
decides which context a handler runs under; the admin endpoints run in the API
and race the workers through the broker.

## 2. Modules

| Module | Role |
|---|---|
| `Delivery` | API create/cancel, broker queues, handlers, replay, faults |
| `DeliveryProperties` | its invariants, action and liveness properties |
| `NotificationLifecycle` | the abstract life of one notification, which `Delivery` implements |
| `DeliveryInvariant` | the inductive invariant `IInv` of `Delivery` |
| `DeliveryProofs`, `DeliveryLockProofs`, `DeliveryLossProofs` | its theorems: statuses; the lock, the schedule and the refinement; crashes and the audit trail |
| `Submission`, `SubmissionProperties` | POST requests, rate limiter, idempotency, publishes |
| `TokenBucket` | one bucket of golang.org/x/time/rate, as the limiter uses it (external) |
| `NotificationStore` | an abstract idempotent store with an outbox, which `Submission` implements |
| `SubmissionInvariant`, `SubmissionProofs` | the inductive invariants of `Submission`, and its theorems |
| `Consumer`, `ConsumerProperties` | one queue's consumer, its supervisor, shutdown and drain |
| `ConsumerInvariant`, `ConsumerProofs` | its inductive invariant and theorems |
| `CircuitBreaker`, `CircuitBreakerProperties` | one channel's breaker |
| `CircuitBreakerInvariant`, `CircuitBreakerProofs` | its inductive invariant and theorems |
| `Topology`, `TopologyProperties` | routing keys and headers through all queues, the replay request |
| `TopologyInvariant`, `TopologyProofs` | its inductive invariant and theorems |
| `Queries`, `QueriesProperties` | lists, batch summaries and cancellations while rows are written |
| `QueriesInvariant`, `QueriesProofs` | the inductive invariants behind summaries and cancellations, and behind the walks, and its theorems |
| `MCDelivery`, `MCSubmission`, `MCConsumer`, `MCCircuitBreaker`, `MCTopology`, `MCQueries` | values of the constants and symmetry for TLC |

Operators whose comment begins "Wrong variant" are not part of a model. Each is
a plausible bug of the operator that follows, kept beside it so that every
property can be seen to fail on some mutation of the code.

### Delivery

One step per call to the broker, the database or the provider, so that handlers,
replays and faults interleave between any two of them.

| Variable | Code |
|---|---|
| `status` | `notifications.status` |
| `api` | how far `NotificationService.Create` has come |
| `queue` | ready messages per place (`main`, `retry`, `dlq`), id and `x-attempt` |
| `worker` | a handler's place in `DeliverUseCase.Handle`, with its delivery and context |
| `admin` | a replay's place in the loop body of `replayDLQ`, with its dead letter |
| `processed` | `processed_messages` |
| `rows` | `delivery_attempts`, as a set of (attempt, status) |
| `accepted`, `tried`, `fault` | history: acceptances, attempts since the dedup record, faults per message |

`Deliver` is the broker's push; `Mark` is `MarkIfUnprocessed`; `Send` is
`provider.Send` and what `Handle` decides from its error; then `MarkDelivered`,
`PublishRetry`, or `PublishDLQ`, `MarkFailed`, `Unmark`; then `Record` and `Ack` or
`Nack`. A nack discards: the consumer passes requeue=false and the queues have no
dead-letter exchange. `Expire` is the TTL of a retry queue. A call that returned an error may have
been applied (`MaybeEnqueue`, `MaybeSetStatus`). The fault kinds are `db`, `publish`,
`ctx` (the handlers' context is cancelled), `answer` (the webhook accepted but its
answer was lost), `crash` (a worker dies), `apiCrash` (a replay's channel closes).
The channels and priorities of a queue are not distinguished: that a message comes
back to its own queue is what `Topology` shows.

`NotificationLifecycle` says what all this amounts to for one notification: status,
acceptances, whether it is taken, and the attempts since. It is taken by one schedule
at a time, attempts come in order, none follows an acceptance, failed and release come
only when the schedule is exhausted, delivered only after an acceptance. The mapping
takes `processed` for the record and the notifications hit by a worker crash or a lost
answer for `disturbed`, of which less is promised. `ImplementsLifecycle` is the
refinement.

### Submission

A request goes through `Receive` (a batch is validated first), `AllowChannel` and
`GiveBack` for each channel's bucket, `Lookup` (with a key), `Create` (insert of one
row or one transaction), and `Publish` per notification. `Restart` ends running requests
and fills the buckets. Whether `Validate` rejects a request is a parameter (`Invalid`).

`TokenBucket` is the arithmetic of x/time/rate over whole tokens, its unit of time being
the one in which a token accrues: `tokens`, which a pending reservation may take below zero,
`last` and `lastEvent`. `ReserveN` sets `lastEvent` to the time at which its reservation is
due, earlier than before if tokens came back meanwhile, and `CancelAt` restores the
reservation less `lastEvent` minus its due time: sometimes less than was reserved, and
sometimes more. `clock` passes by `Tick`. Each call brings a `time.Now()` of its own that
was read before the bucket's lock: any value from the request's step before (`seen`)
to the present, so that the calls of concurrent requests may go back in time. `skewed` records for a
channel that one did: that a call brought an earlier time than the call before, or
cancelled a reservation that was due after the latest one.

`NotificationStore` has the rows, the publishes and the answers only: rows of a request
appear together, once, under a key nothing else has; a message follows its row, once;
an answer is given once and is true. `Submission` has these variables under the same
names, so that the mapping is the identity, and `ImplementsStore` is the refinement.

### Consumer

`loop` is the position of `Run` and `supervisorLoop`; `delivery` is every delivery to
this consumer in order, with where it is, whether the broker still waits for its
ack, and under which context its handler began. Go's `select` takes any ready
branch. `TakeDelivery` then waits for a slot with no eye on the context, as
`process` does. `StartDrain`, `DrainDelivery`, `ExpireDrain`, `EndDrain` and `Return` are
`drain`: its handlers take no slot and run under a fresh context. `Consume` is
`ConsumeWithContext`, which refuses a closed channel and a context that is cancelled already.
A handler whose context was cancelled before it began fails, but for an
unparseable message (`Poison`), which `Handle` acks whether or not it reached the DLQ; one
whose context is cancelled while it runs may succeed or fail. A `Settle` after the channel
closed has no effect at the broker. `ServedElsewhere` is another worker process on the same queue:
it may be given, and ack, a message that a handler of this one still works on after its
channel has closed.

### CircuitBreaker

gobreaker's `Execute` is two critical sections around the provider call: `Admit` or
`Refuse`, then `Succeed` or `Fail`. Its generation counter is a flag of each running
call. The Settings that matter are `MaxRequests` (`HalfOpenMaxCalls`), `Timeout`
(`Elapse`), `ReadyToTrip`, and `Interval` 0, so that a closed breaker never resets its
counts by time; `IsSuccessful` is the default, which counts every error.

### Topology

A routing key is a sequence of words. `Bindings` is what `DeclareTopologyWith` declares,
`Route` what a topic exchange makes of it: the queues bound to a key, perhaps none. A
copy of a message knows its queue, the key it came with, `x-attempt` and
`x-original-routing-key`. The handler's work on a delivery is one step
(`HandlePoison`, `HandleDelivered`, `HandleFailed`), the TTL another (`Expire`); a failed
publish loses the delivery or not. The replay request is modelled in full: its
parameters, the loop of get, publish and ack, the count at the end and the answer.

### Queries

One SQL statement is one step. `CountMatching` and `SelectPage` are List's two, with a
snapshot each, `ReadHeader` and `CountByStatus` those of the batch summary,
`CancelIfPending` and `CheckExists` those of the cancellation. `Insert`, `InsertBatch` and
`UpdateStatus` commit in between. A reader walks from its first page to the first that is
not full. `created_at` is chosen in the initial state, because the API stamps a row
before it stores it: rows are not committed in its order, and those of a batch have the
same. The offset is computed in integers from `-MaxInt - 1` to `MaxInt`.

## 3. Runs

All pass runs explore their whole bounded state space. `CHECK_DEADLOCK FALSE` stands
where the system really may come to rest: no request left, every message settled,
or the process ended.

| Run | Question | Instance |
|---|---|---|
| `delivery_schedule` | `DeliveredWasAccepted`, `FailedIsDeadLettered`, `AuditTrailComplete`, `DeadLetteredAfterFullSchedule`, `FirstAttemptSentOnce`, `CrashLosesFirstAttemptOnly` on the real schedule | 1 notification, 1 unparseable body, 2 handlers, 3 retry levels, 1 fault of any kind |
| `delivery_replay` | `SendOnce`, `AcceptedNeverVanishes`, `DeliveredIsFinal`, `ImplementsLifecycle` with copies made by replays | 2 handlers, 2 replay requests, 2 replays, 2 faults, 1 retry level |
| `delivery_liveness` | `AcceptedIsSettled`, `CirculationEnds` | 2 handlers, 1 replay, 1 fault, 1 retry level |
| `submission` | `SameKeySameNotification`, `RejectedLeavesNoTrace`, `StoredWithinBudget`, `PublishedOnceAfterStored`, `AcceptedIsQueued`, `ImplementsStore` | 3 requests with one key of which one is invalid, a batch on two channels, a batch beyond the burst of 2, 1 tick, 1 fault |
| `consumer` | `TypeOK`, `EachMessageInOnePlace`, `HandlersBounded`, `DrainedNotDropped`, `ShutdownTerminates`, `QueueIsServed` | 3 messages, one of them unparseable, 2 slots, prefetch 2, 2 faults |
| `breaker` | `TypeOK`, `ProbesBounded`, `OpensOnlyAfterThreshold`, `ClosesOnlyAfterProbes`, `RecoversUnderTraffic` | 3 handlers, threshold 3, 2 probes |
| `topology` | `TypeOK`, `EveryCopyIsAtHome`, `EveryMessageHasOneCopy`, `WaitsForEveryLevel`, `ReplayAnswerIsTrue`, `ReplayEnds` | 2 channels, 3 priorities, 3 levels, 2 notifications (one without a priority), 1 unparseable body, 1 replay request with limits 0, default and too large, 1 failed call |
| `queries` | `TypeOK`, `WalkSeesEveryRow`, `SummaryIsTrue`, `CancelAnswersAreTrue` | a batch of 2 and a single row, 2 values of `created_at`, 1 reader with 4 queries, 1 client of summaries and cancellations, 4-bit integers (`MaxInt` = 7) |

Why the bounds are enough. Notifications do not interact in `Delivery` but through the
handlers they occupy, and each property speaks of one; two handlers are the least
for a race between copies, two replays the least for a copy of a copy. One retry
level has every step of the schedule (first attempt, retry, exhaustion), and
`delivery_schedule` runs the real three. `delivery_replay` leaves out worker crashes
and lost answers, which `SendOnce` and `DeliveredIsFinal` exclude; `delivery_schedule` has
them, and the proofs have all of them together. The batch has two items on one
channel, so that a charge of more than one token is reached, and the second batch
never fits its bucket. One tick is enough for a call to bring an older time than the one
before it. The consumer's queue holds more messages than a drain may take,
and a broker's cancel lets the next Run meet handlers of the one before in every slot.
In `topology` the two notifications differ in channel and in whether they name a
priority, and the unparseable body shares a DLQ with one of them, so that a replay takes
letters of both kinds; three levels are the real number. In `queries` the three rows give
walks of several pages of one and two rows, with ties and with rows stored before,
between and after those already seen, and 4 bits are enough for an offset to wrap. The reader and
the client do not interact but through the rows. One client makes its DELETEs one after
another, between the statements of the workers; that several at once get true answers is
what `QueriesProofs` proves. The breaker
has more handlers than probes, and enough of them for answers of a closed
generation to arrive in a half-open one. `MaxFaults`, `MaxReplays` and `MaxTicks`
are the only caps on counters. Symmetry is used for safety only.

### Disagreements between the code and what it says

Each violation run checks one quoted statement; PROJECT.json holds the quotation.

| Run | Statement | What the code does |
|---|---|---|
| `shutdown_drop` | Run drains under a fresh context, what is unacked is requeued | handlers that already run when the shutdown comes fail on the cancelled context and are nacked with requeue=false: the message is gone |
| `replay_race` | the record is deleted so that a replay can reprocess | the dead letter is published first; a replay that overtakes is acked as a duplicate and lost, with no fault at all |
| `breaker_context` | context errors must not trip the breaker | the returned sentinel is counted as a failure |
| `rate_overrun` | each channel is allowed its rate and burst | a cancelled reservation may restore more tokens than it took, after an earlier cancellation and a new reservation: more rows are stored than the burst, in no time at all |

The models reach these states too, for which no run is kept:

- A retry that is requeued after a crash passes no dedup guard and is sent again, though
  README.md:94-95 says that redeliveries do not double-send; `FirstAttemptSentOnce` states
  the part that holds.
- Of two concurrent requests with one key the loser of the race to insert is answered
  500, though openapi.yaml:236 says that a repeat returns the original;
  `SameKeySameNotification` states what all accepted ones are told.
- A consumer whose AMQP channel has closed is restarted on the closed channel, for ever in
  vain (`worker.go:88-116`, `cmd/worker/main.go:122`).
- A replay whose publish fails nacks its dead letter without requeue
  (`handler_admin.go:185-186` says that it stays): the letter is discarded, and the answer is
  500 (`ReplayAnswerIsTrue`).
- A crash between the dedup record and the send makes the redelivery a duplicate:
  the notification stays pending with nothing in any queue (`deliver.go:156-166`);
  `CrashLosesFirstAttemptOnly` states that a retry is never lost in this way.
- The drain starts one handler per buffered delivery without a slot, so that more
  than `Concurrency` handlers run (`consumer.go:39`, 143-147); `HandlersBounded` states how
  many.
- A notification whose publish failed after the commit stays pending: the relay that
  `notification_service.go:134` speaks of does not exist yet. `AcceptedIsQueued` states for which
  202 there may be no message: a batch, and a key that names the row of another request.
- A call of the limiter that brings an older `time.Now()` than the one before sets the bucket's
  clock back, and the time between accrues twice (`limiter.go:48`); `StoredWithinBudget` is
  about channels to which this has not happened.
- UpdateStatus has no condition: a worker's verdict overwrites a cancellation.
- A repeat of a keyed request whose publish failed is answered 202 from the row alone
  (`notification_service.go:116-118`), and no message is ever published, though README.md:107 says
  that it is enqueued and PLAN.md:274 that two requests with one key make one record and one
  publish. It is the second of the two cases that `AcceptedIsQueued` excepts.
- A row that is stored between List's count and its page is on the page and not in the total:
  the transaction that `notification_repository.go:182-183` calls a consistent snapshot is READ
  COMMITTED (line 194).
- A walk over the pages with a filter on status misses rows whose change of status moves
  others to a page already seen.
- A page so large that its offset overflows is answered 500, or with another page
  (`notification_repository.go:205`).

## 4. Fairness

- `Delivery`: weak fairness of each handler (the webhook call has a timeout; the database
  and the broker answer, or their connection fails), of the broker's push of each message and of each TTL, of the
  publish that follows an insert, and of a replay that holds a dead letter. No fault,
  client, cancellation or admin is forced to act.
- `Submission` states safety only.
- `Consumer`: weak fairness of the loop, the supervisor, its timer, the drain's
  deadline, the handlers as a whole, the broker's push, and the exit. A shutdown and
  faults are not forced.
- `CircuitBreaker`: a running call ends (`WEBHOOK_TIMEOUT`) and the open timeout passes.
  That handlers send whenever the breaker lets them is a hypothesis of `RecoversUnderTraffic`, not fairness.
- `Topology`: workers and TTLs go on, and a replay request that has begun is carried on.
- `Queries` states safety only.

## 5. Proofs

TLAPS proves every safety property, every action property and both refinements that a
passing run checks. Each theorem holds for all values of the constants that the assumption
of its module admits, and rests on nothing else:

| Assumption | For every number of |
|---|---|
| `ConstantsAssumption` (`Delivery`) | notifications, handlers, replays, retry levels and faults |
| `SubmissionAssumption`, `BurstAssumption` (`TokenBucket`) | requests, items of a batch, channels, keys, ticks and faults, and every burst |
| `ConsumerAssumption` | messages (of which any may be unparseable), slots, prefetched deliveries (at least as many as slots) and faults |
| `BreakerAssumption` | handlers, failures that open the breaker, and probes |
| `TopologyAssumption` | channels, priorities, messages, levels, replays and limits. No priority is called `dlq`: `<channel>.dlq` would be a main queue too (`domain/notification.go:28-30` has high, normal and low) |
| `QueriesAssumption` | notifications, batches, readers, clients and values of `created_at`; for every width of int and limit |

| Theorem | Module | Statement |
|---|---|---|
| `TypeCorrect` | `DeliveryProofs` | `Spec => []TypeOK` |
| `DeliveredWasAcceptedHolds` | `DeliveryProofs` | `Spec => []DeliveredWasAccepted` |
| `FailedIsDeadLetteredHolds` | `DeliveryProofs` | `Spec => []FailedIsDeadLettered` |
| `SendOnceHolds` | `DeliveryLockProofs` | `Spec => []SendOnce` |
| `DeliveredIsFinalHolds` | `DeliveryLockProofs` | `Spec => DeliveredIsFinal` |
| `DeadLetteredAfterFullScheduleHolds` | `DeliveryLockProofs` | `Spec => DeadLetteredAfterFullSchedule` |
| `ImplementsLifecycleHolds` | `DeliveryLockProofs` | `Spec => ImplementsLifecycle` |
| `CrashLosesFirstAttemptOnlyHolds` | `DeliveryLossProofs` | `Spec => []CrashLosesFirstAttemptOnly` |
| `AcceptedNeverVanishesHolds` | `DeliveryLossProofs` | `Spec => []AcceptedNeverVanishes` |
| `FirstAttemptSentOnceHolds` | `DeliveryLossProofs` | `Spec => []FirstAttemptSentOnce` |
| `AuditTrailCompleteHolds` | `DeliveryLossProofs` | `Spec => []AuditTrailComplete` |
| `SubmissionTypeCorrect` | `SubmissionProofs` | `Spec => []TypeOK` |
| `SameKeySameNotificationHolds` | `SubmissionProofs` | `Spec => []SameKeySameNotification` |
| `RejectedLeavesNoTraceHolds` | `SubmissionProofs` | `Spec => []RejectedLeavesNoTrace` |
| `PublishedOnceAfterStoredHolds` | `SubmissionProofs` | `Spec => []PublishedOnceAfterStored` |
| `StoredWithinBudgetHolds` | `SubmissionProofs` | `Spec => []StoredWithinBudget` |
| `AcceptedIsQueuedHolds` | `SubmissionProofs` | `Spec => []AcceptedIsQueued` |
| `ImplementsStoreHolds` | `SubmissionProofs` | `Spec => ImplementsStore` |
| `ConsumerTypeCorrect` | `ConsumerProofs` | `Spec => []TypeOK` |
| `EachMessageInOnePlaceHolds` | `ConsumerProofs` | `Spec => []EachMessageInOnePlace` |
| `HandlersBoundedHolds` | `ConsumerProofs` | `Spec => []HandlersBounded` |
| `DrainedNotDroppedHolds` | `ConsumerProofs` | `Spec => []DrainedNotDropped` |
| `BreakerTypeCorrect` | `CircuitBreakerProofs` | `Spec => []TypeOK` |
| `ProbesBoundedHolds` | `CircuitBreakerProofs` | `Spec => []ProbesBounded` |
| `OpensOnlyAfterThresholdHolds` | `CircuitBreakerProofs` | `Spec => OpensOnlyAfterThreshold` |
| `ClosesOnlyAfterProbesHolds` | `CircuitBreakerProofs` | `Spec => ClosesOnlyAfterProbes` |
| `TopologyTypeCorrect` | `TopologyProofs` | `Spec => []TypeOK` |
| `EveryCopyIsAtHomeHolds` | `TopologyProofs` | `Spec => []EveryCopyIsAtHome` |
| `EveryMessageHasOneCopyHolds` | `TopologyProofs` | `Spec => []EveryMessageHasOneCopy` |
| `WaitsForEveryLevelHolds` | `TopologyProofs` | `Spec => []WaitsForEveryLevel` |
| `ReplayAnswerIsTrueHolds` | `TopologyProofs` | `Spec => []ReplayAnswerIsTrue` |
| `CancelAnswersAreTrueHolds` | `QueriesProofs` | `Spec => []CancelAnswersAreTrue` |
| `SummaryIsTrueHolds` | `QueriesProofs` | `Spec => []SummaryIsTrue` |
| `QueriesTypeCorrect` | `QueriesProofs` | `Spec => []TypeOK` |
| `WalkSeesEveryRowHolds` | `QueriesProofs` | `Spec => []WalkSeesEveryRow` |

None of these properties is inductive by itself, but for a few type invariants. Each
component has a module with the invariant that is, as a conjunction of named parts, and
its proof has one lemma per action, or per part and action where the parts are large.
TLC has checked each of these invariants (`IInv` of all components, `Accounts` of
`Submission`, `ListInv` of `Queries`) on the instances of section 3 before it was proved; the
runs leave them to the proofs.

### Delivery

`DeliveryProofs` strengthens the properties with what each step of a handler holds
(`HandlersWellFormed`, `AdminsWellFormed`) and with what precedes a status
(`AcceptedBeforeDelivered`, `DeadLetteredBeforeFailed`).

The argument for `SendOnce` is that the dedup record is a lock. A notification is on
schedule while one of its messages is past the dedup guard and may still be sent
or dead-lettered: in a retry queue, in a main queue with `x-attempt` above 0, or with
a handler between `Mark` and `Unmark`. `LockInv` says of every notification that no
worker crash and no lost answer has touched: at most one message is on schedule,
only while the record exists, and none once the provider has accepted; and an
accepted notification keeps its record. `Mark` takes the lock, each publish hands
it on, and only `Unmark`, the last call of an exhausted handler, releases it. Copies
that a replay makes have attempt 0 and stop at the guard. `SendOnce` follows, and so
does `DeliveredIsFinal`: the only step that could overwrite delivered is `MarkFailed`
of a handler on schedule, and then nothing has been accepted. The crash and the
lost answer must be excluded: after them the same attempt is made twice, and the
provider may accept it twice.

`ScheduleInv` adds to the lock what its holder has done: exactly the attempts before
its own, which gives `DeadLetteredAfterFullSchedule`. With both, each step of `Delivery` is a step of
`NotificationLifecycle` or a stutter: a send happens under the record, without an acceptance
before it, and a verdict that is written late never contradicts the one before.

`DeliveryLossProofs` does without the exclusion of crashes. A crash can break the lock only
for retries, which pass no guard, so `OneFirstTry` keeps the part that survives: one handler
makes the first attempt, under the record, before any retry is published. From it,
`FirstScheduleInv` follows a notification without a verdict: while its record exists,
something carries it to one, or a handler died on the first attempt. The redelivery of
that attempt is what meets the record and is acked. `FirstAttemptInv` is the same bond read
the other way, for as long as the record is never deleted: the first attempt is sent once.

For the audit trail nothing may fail, because a row that fails to be written is only
logged. Each attempt made has a row, written or owed by the handler that made it
(`RowsSoFar`, `RowsOwed`), and the row of the verdict is the last (`VerdictRow`). That no row
is owed twice needs `GuardOnce`: the message of `Create` passes the guard a single time.

### Submission

A request only ever touches what is its own. `Progress` says what a request has left behind
at each place of its handler: neither a row nor a message before the insert, all of its
rows after it, and no message for the items still to be published. `OwnStep` is proved
once: a step that changes only the rows, messages and counters of one request, and
establishes that request's part, keeps everybody's. Each action is then shown to be such
a step. The one thing that requests share, the key, is kept by the unique index:
`OneRowPerKey` with `AcceptedIsStored` (an accepted keyed request was answered with a
stored row) gives `SameKeySameNotification`. The assumption that a batch has no key is
used here: it is why a keyed request has a single row to conflict on.

The budget is an account per channel. `Granted` are the notifications that a bucket has
admitted, `Pending` those of reservations that are still to be cancelled, and `Filled` is what
the bucket has held until its `last`. `WithinBudget` says that the first two and the tokens
in the bucket are at most the third. A reservation moves tokens from one term to another; a
cancellation restores at most what is still pending, because without a step back in time
`lastEvent` is not before the due time; and a restart, which fills the buckets anew, adds a
burst. Once a call went back in time nothing is claimed of that bucket, and `rate_overrun` shows that
nothing could be. The `last` of a bucket never exceeds the clock (`TimesArePast`), which
bounds `Filled` by the budget.
`ChargedFirst` ties rows to it: a row is stored after all buckets of its request have
admitted it, so that the rows of a channel are among those granted.

`AcceptedIsQueued` has two halves. A stored notification that came alone has its message
unless its request has yet to publish it or was not accepted (`StoredIsAccounted`), and an accepted
request names a stored notification (`AcceptedNamesARow`). Of its own row a request that was accepted is
none of the exceptions, so only the row of another can be without a message. For batches,
`QueuedSoFar` follows the publish loop.

`Submission` has the variables of `NotificationStore`, so that the refinement says of each
action that it is a step of the store on rows, messages and answers, or leaves them alone;
`Progress` gives the guards of those steps.

### Consumer

Deliveries are numbered, and never removed: the invariant speaks of each tag's place,
context and ack (`TagsWellFormed`), and relates them to where the loop is (`LoopWellFormed`,
`DrainWellFormed`). `OnePlace` is an exact partition of the messages among ready, unacked,
acked and dropped; a closing channel moves all unacked ones back at once. `HandlersBounded`
adds two bounds: the slots that a semaphore gives (`SlotsInv`), and the deliveries that a drain
finds, which were unacked when it began and so are no more than the prefetch
(`PrefetchInv`). After the drain has begun nothing is pushed, since the stream is no longer open.

### CircuitBreaker

The counts of gobreaker are what the results of the present generation say
(`CountsAreResults`), with a history of those results to compare them with. That every probe
running or successful was counted when it was let in (`ProbesCounted`) bounds the probes,
and needs the generation: a call of an earlier one neither counts nor is counted.

### Topology

A key that some component builds is bound to exactly one queue (`RouteMain`, `RouteRetry`,
`RouteDLQ`), so each publish makes one copy, and what a worker or a replay reads back in a key
or a header is what was put there (`AtHome`, `KeyKept`). `WaitedInOrder` ties `x-attempt` to
the TTLs that the message has waited for, which is true of each copy only while there is no
other, so the invariant carries `OneCopyInv` along: in one queue, or with one request, or gone. `ReplayCounts` follows a request through its loop; only a request
that answers 500 has dropped anything.

### Queries

What a client learns from its first statement can only be confirmed by the writers: rows and
batch headers are never removed, and no statement makes a status pending again (`Grows`).
So `CallInv` says of a client between its two statements that the row which its UPDATE
did not find pending is settled, or not there at all, and that the batch whose header it
has read is stored with all of its rows, which `InsertBatch`'s transaction gives.
`CallKept` carries this over every step of others. The counts of the second statement then
partition exactly the rows that the header counts (`CountsAddUp`). `RowsInv` adds that a
notification once cancelled is settled, so that no second UPDATE finds it pending.

For the walks, the rank of a row is how many matching rows come before it. A row that is
stored can only raise the ranks of others, so what no page has shown yet stays at or
behind the next offset (`Ahead`). A page that is not full has nothing behind it
(`FullWindow`): the rows before a given one have each rank below its own exactly once, by
counting, because the order is total. Here the ids as a tie-breaker are needed. A walk's
offset may exceed the integers by one page at most; it is then negative and refused
(`WrapFacts`), so a walk from the first page never gets a wrong page.

### Only model-checked

The liveness properties (`AcceptedIsSettled`, `CirculationEnds`, `ShutdownTerminates`,
`QueueIsServed`, `RecoversUnderTraffic`, `ReplayEnds`): fairness and ENABLED are beyond the
prover.

## 6. Abstractions

- `rows` is a set: two equal audit rows count as one.
- In `Delivery` a message is an id and `x-attempt`; its body, other headers and routing key
  are left out.
- The broker keeps no order between messages of a queue in `Delivery`. RabbitMQ
  would keep some, but redeliveries, priorities, several queues and several workers
  undo it, and no property relies on it.
- Publishes of `Delivery` and `Submission` are not routed: that a key reaches its queue is
  `Topology`'s concern. There the broker confirms what it cannot route, after a return that
  the publisher does not listen to, and one deployment owns the broker (the retry and DLQ
  exchanges are not prefixed).
- In `Queries` ids are numbers, because uuids are ordered, and a page is known by how many
  rows it has; GET of one notification is a single read and is left out.
- The connection of a process is lost only with the process (`crash`), or one
  channel at a time (`Consumer`).

### Not modelled

- `Handle` without a retry publisher or a dedup store, which `cmd/worker` never builds.
- `Validate`'s rules, which test one string each, and Retry-After: no state depends on them.
- `inspectDLQ` and GET of one notification: a single read.
- The publisher's mutex, which makes the publishes of a process one after another and
  changes no outcome as long as the broker answers.
- Router, middleware, health and docs endpoints, which keep no state (a panic becomes a
  500); configuration, logger and the pool, read once at the start; metrics, only written.

## 7. Plan

Done: `Delivery`, `Submission`, `Consumer`, `CircuitBreaker`, `Topology` and `Queries` with their
runs, the two abstract specifications and their refinements, and the proofs of section 5.
Left, in this order:

1. A composition of `Submission` and `Delivery` through the main queue, so that an accepted
   request ends in a verdict, with its safety proved from the two invariants.
2. What the type invariants of the runs leave room for now that they are proved: the tokens
   of a batch that is refused on one channel, and pages that a client asks for by number.
