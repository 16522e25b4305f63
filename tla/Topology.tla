------------------------------ MODULE Topology ------------------------------
(***************************************************************************)
(* Exchanges, queues, bindings and routing keys: the way of a message from *)
(* the API through the main, retry and dead-letter queues and, replayed by *)
(* an admin, back.  A message finds its way by strings that one component  *)
(* builds and another takes apart again: the routing key, x-attempt and    *)
(* x-original-routing-key.                                                 *)
(*                                                                         *)
(* A handler's work on a delivery is one step here; Delivery has its       *)
(* interleavings.  Routing keys and queue names are sequences of words.    *)
(***************************************************************************)
EXTENDS Naturals, Sequences, FiniteSets

CONSTANTS
  Channel,
  Priority,            \* contains "normal"
  Message,
  Poison,              \* messages whose body json.Unmarshal rejects
  ChannelOf,           \* the channel of a message
  PriorityOf,          \* the priority a client asks for, or NoPriority
  MaxAttempts,         \* const maxAttempts
  Admin,               \* replay requests, each made once
  DefaultReplayLimit,
  MaxReplayLimit,
  Limit,               \* limits that admins ask for; NoLimit for none
  MaxFaults,           \* bound: publishes that fail in one behaviour
  NoPriority,
  NoLimit,
  NoCopy,
  Worker               \* not an admin: who drops a message

ASSUME TopologyAssumption ==
  /\ "normal" \in Priority /\ "dlq" \notin Priority
  /\ NoPriority \notin Priority
  /\ Poison \subseteq Message
  /\ ChannelOf \in [Message -> Channel]
  /\ PriorityOf \in [Message -> Priority \cup {NoPriority}]
  /\ MaxAttempts \in Nat \ {0} /\ MaxFaults \in Nat
  /\ MaxReplayLimit \in Nat /\ DefaultReplayLimit \in 1..MaxReplayLimit
  /\ Limit \subseteq Nat \cup {NoLimit}
  /\ Worker \notin Admin

Attempts == 0..MaxAttempts
Levels == 1..MaxAttempts
Exchange == {"main", "retry", "dlq"}

-----------------------------------------------------------------------------
(* Keys, queues and bindings                                               *)

MainKey(ch, p) == <<ch, p>>
RetryKey(ch, p, l) == <<ch, p, "retry", l>>
DLQKey(ch) == <<ch>>
DLQQueue(ch) == <<ch, "dlq">>

NoKey == <<>>
MainKeys == {MainKey(ch, p) : ch \in Channel, p \in Priority}
RetryKeys == {RetryKey(ch, p, l) : ch \in Channel, p \in Priority, l \in Levels}
Queues == MainKeys \cup RetryKeys \cup {DLQQueue(ch) : ch \in Channel}

\* Wrong variant: the loop over the levels ends one early.
BindingsOfTwoLevels ==
  {<<"main", k, k>> : k \in MainKeys}
    \cup {<<"retry", k, k>> : k \in {j \in RetryKeys : j[4] < MaxAttempts}}
    \cup {<<"dlq", DLQKey(ch), DLQQueue(ch)>> : ch \in Channel}

\* DeclareTopologyWith: a main or retry queue is named like its key, without
\* the prefix.
Bindings ==
  {<<"main", k, k>> : k \in MainKeys}
    \cup {<<"retry", k, k>> : k \in RetryKeys}
    \cup {<<"dlq", DLQKey(ch), DLQQueue(ch)>> : ch \in Channel}

\* A topic exchange puts a message into every queue bound to its key.  What
\* no queue takes is returned, which nobody listens to, and confirmed.
Route(x, key) == {b[3] : b \in {b \in Bindings : b[1] = x /\ b[2] = key}}

\* channelFromRoutingKey.
ChannelFromKey(key) ==
  IF key # NoKey /\ key[1] \in Channel THEN key[1] ELSE "unknown"

\* priorityFromRoutingKey and resolvePriority: the key decides, then the
\* body, then "normal".
ResolvePriority(key, p) ==
  IF Len(key) >= 2 /\ key[2] \in Priority THEN key[2]
  ELSE IF p \in Priority THEN p ELSE "normal"

-----------------------------------------------------------------------------

VARIABLES
  copies,    \* ready messages: where, and with which key and headers
  api,       \* messages that have been published by the API
  settled,   \* notifications that a worker delivered
  waited,    \* retry levels waited for since the last first attempt (history)
  replay,    \* each replay request
  dropped,   \* <<message, by whom>>: a failed publish left no copy (history)
  faults     \* failed publishes so far

vars == <<copies, api, settled, waited, replay, dropped, faults>>

Copy == [msg : Message, queue : Queues, key : MainKeys \cup RetryKeys
           \cup {DLQKey(ch) : ch \in Channel},
         attempt : Attempts, origin : MainKeys \cup {NoKey}]

ReplayRec == [pc : {"new", "get", "publish", "inspect", "done"},
              channel : Channel \cup {"none"}, limit : 0..MaxReplayLimit,
              replayed : Nat, held : Copy \cup {NoCopy},
              code : {"none", "200", "400", "500"}, remaining : Nat,
              moved : Nat]

TypeOK ==
  /\ copies \in SUBSET Copy
  /\ api \in SUBSET Message
  /\ settled \in SUBSET Message
  /\ waited \in [Message -> Seq(Levels)]
  /\ replay \in [Admin -> ReplayRec]
  /\ dropped \in SUBSET (Message \X (Admin \cup {Worker}))
  /\ faults \in 0..MaxFaults

Init ==
  /\ copies = {}
  /\ api = {}
  /\ settled = {}
  /\ waited = [m \in Message |-> <<>>]
  /\ replay = [r \in Admin |->
                 [pc |-> "new", channel |-> "none", limit |-> 0, replayed |-> 0,
                  held |-> NoCopy, code |-> "none", remaining |-> 0,
                  moved |-> 0]]
  /\ dropped = {}
  /\ faults = 0

Fault == faults < MaxFaults /\ faults' = faults + 1

\* The copies that a publish makes.
Published(m, x, key, attempt, origin) ==
  {[msg |-> m, queue |-> q, key |-> key, attempt |-> attempt, origin |-> origin]
     : q \in Route(x, key)}

\* A publish that returned an error may have reached the queues.
FailedPublish(who, new, old) ==
  /\ Fault
  /\ \/ copies' = (copies \ old) \cup new /\ UNCHANGED dropped
     \/ /\ copies' = copies \ old
        /\ dropped' = dropped \cup {<<c.msg, who>> : c \in new}

-----------------------------------------------------------------------------
(* The API and the workers                                                 *)

\* Wrong variant: the key has the priority as the client sent it, or none.
AskedPriorityRaw(m) == IF PriorityOf[m] = NoPriority THEN "default" ELSE PriorityOf[m]

\* Create sets the default priority, and RoutingKey again.
AskedPriority(m) ==
  IF PriorityOf[m] = NoPriority THEN "normal" ELSE PriorityOf[m]

\* Create's publish; a poison message comes from elsewhere.
PublishNew(m) ==
  /\ m \notin api
  /\ api' = api \cup {m}
  /\ copies' = copies \cup
       Published(m, "main", MainKey(ChannelOf[m], AskedPriority(m)), 0, NoKey)
  /\ UNCHANGED <<settled, waited, replay, dropped, faults>>

\* The worker consumes every main queue.
Consumable(c) == c \in copies /\ c.queue \in MainKeys

HandlePoison(c) ==
  LET dead == Published(c.msg, "dlq", DLQKey(ChannelFromKey(c.key)),
                        c.attempt, c.key)
  IN
  /\ Consumable(c) /\ c.msg \in Poison
  /\ \/ copies' = (copies \ {c}) \cup dead /\ UNCHANGED <<dropped, faults>>
     \/ FailedPublish(Worker, dead, {c})
  /\ UNCHANGED <<api, settled, waited, replay>>

\* Delivered, or recognised as a duplicate of what was.
HandleDelivered(c) ==
  /\ Consumable(c) /\ c.msg \notin Poison
  /\ copies' = copies \ {c}
  /\ settled' = settled \cup {c.msg}
  /\ UNCHANGED <<api, waited, replay, dropped, faults>>

\* Wrong variants: the message keeps its x-attempt; the priority is lost.
RetryCopySameAttempt(c) ==
  Published(c.msg, "retry",
            RetryKey(ChannelOf[c.msg], ResolvePriority(c.key, AskedPriority(c.msg)),
                     c.attempt + 1), c.attempt, NoKey)

RetryCopyNormal(c) ==
  Published(c.msg, "retry", RetryKey(ChannelOf[c.msg], "normal", c.attempt + 1),
            c.attempt + 1, NoKey)

\* PublishRetry: the next level's key, and x-attempt.
RetryCopy(c) ==
  Published(c.msg, "retry",
            RetryKey(ChannelOf[c.msg], ResolvePriority(c.key, AskedPriority(c.msg)),
                     c.attempt + 1), c.attempt + 1, NoKey)

\* PublishDLQ: the key of the delivery travels in x-original-routing-key.
DeadCopy(c) ==
  LET back == IF c.key = NoKey
              THEN MainKey(ChannelOf[c.msg], ResolvePriority(c.key, AskedPriority(c.msg)))
              ELSE c.key
  IN Published(c.msg, "dlq", DLQKey(ChannelOf[c.msg]), c.attempt, back)

\* A failed attempt; if its publish fails, the delivery is nacked away.
HandleFailed(c) ==
  LET next == IF c.attempt + 1 <= MaxAttempts THEN RetryCopy(c) ELSE DeadCopy(c) IN
  /\ Consumable(c) /\ c.msg \notin Poison
  /\ \/ copies' = (copies \ {c}) \cup next /\ UNCHANGED <<dropped, faults>>
     \/ FailedPublish(Worker, next, {c})
  /\ UNCHANGED <<api, settled, waited, replay>>

\* Wrong variant: x-dead-letter-routing-key names the normal queue.
ReEntryKeyNormal(queue) == MainKey(queue[1], "normal")

\* x-dead-letter-routing-key of a retry queue.
ReEntryKey(queue) == MainKey(queue[1], queue[2])

\* x-message-ttl runs out; the headers stay.
Expire(c) ==
  /\ c \in copies /\ c.queue \in RetryKeys
  /\ copies' = (copies \ {c}) \cup
       Published(c.msg, "main", ReEntryKey(c.queue), c.attempt, c.origin)
  /\ waited' = [waited EXCEPT ![c.msg] = Append(@, c.queue[4])]
  /\ UNCHANGED <<api, settled, replay, dropped, faults>>

-----------------------------------------------------------------------------
(* POST /admin/dlq/{channel}/replay?limit=N                                *)

At(r, pc) == replay[r].pc = pc

\* Wrong variant: the limit is taken as it is.
ReplayLimitUncapped(n) == IF n = NoLimit THEN DefaultReplayLimit ELSE n

\* A missing limit is the default, a large one the maximum.
ReplayLimit(n) ==
  IF n = NoLimit THEN DefaultReplayLimit
  ELSE IF n > MaxReplayLimit THEN MaxReplayLimit ELSE n

\* An unknown channel or a limit below 1 is answered 400.
ReplayStart(r, ch, n) ==
  /\ At(r, "new")
  /\ replay' = [replay EXCEPT ![r] =
       IF ch \notin Channel \/ n = 0
       THEN [@ EXCEPT !.pc = "done", !.code = "400"]
       ELSE [@ EXCEPT !.pc = "get", !.channel = ch, !.limit = ReplayLimit(n)]]
  /\ UNCHANGED <<copies, api, settled, waited, dropped, faults>>

DeadLetters(ch) == {c \in copies : c.queue = DLQQueue(ch)}

\* basic.get takes a ready letter of the queue; an empty queue, or the limit,
\* ends the loop; the get may fail, or at first the opening of its channel.
ReplayGet(r) ==
  /\ At(r, "get") /\ replay[r].replayed < replay[r].limit
  /\ \E c \in DeadLetters(replay[r].channel) :
       /\ copies' = copies \ {c}
       /\ replay' = [replay EXCEPT ![r].pc = "publish", ![r].held = c]
  /\ UNCHANGED <<api, settled, waited, dropped, faults>>

ReplayLoopEnds(r) ==
  /\ At(r, "get")
  /\ \/ replay[r].replayed = replay[r].limit
     \/ DeadLetters(replay[r].channel) = {}
  /\ replay' = [replay EXCEPT ![r].pc = "inspect"]
  /\ UNCHANGED <<copies, api, settled, waited, dropped, faults>>

ReplayGetFails(r) ==
  /\ At(r, "get") /\ replay[r].replayed < replay[r].limit
  /\ Fault
  /\ replay' = [replay EXCEPT ![r].pc = "done", ![r].code = "500"]
  /\ UNCHANGED <<copies, api, settled, waited, dropped>>

\* Wrong variants: always the fallback; a failed publish is skipped; only
\* notifications count.
ReplayKeyNormal(c) == MainKey(c.queue[1], "normal")

ReplayPublishSkips(r) ==
  LET c == replay[r].held IN
  /\ At(r, "publish")
  /\ \/ /\ copies' = copies \cup Published(c.msg, "main", c.origin, 0, NoKey)
        /\ replay' = [replay EXCEPT ![r].pc = "get", ![r].held = NoCopy,
                                    ![r].replayed = @ + 1, ![r].moved = @ + 1]
        /\ UNCHANGED <<dropped, faults>>
     \/ /\ Fault /\ dropped' = dropped \cup {<<c.msg, r>>}
        /\ replay' = [replay EXCEPT ![r].pc = "get", ![r].held = NoCopy]
        /\ UNCHANGED copies
  /\ waited' = [waited EXCEPT ![c.msg] = <<>>]
  /\ UNCHANGED <<api, settled>>

ReplayPublishUncounted(r) ==
  LET c == replay[r].held IN
  /\ At(r, "publish")
  /\ copies' = copies \cup Published(c.msg, "main", c.origin, 0, NoKey)
  /\ replay' = [replay EXCEPT ![r].pc = "get", ![r].held = NoCopy,
       ![r].replayed = IF c.msg \in Poison THEN @ ELSE @ + 1]
  /\ waited' = [waited EXCEPT ![c.msg] = <<>>]
  /\ UNCHANGED <<api, settled, dropped, faults>>

\* The key kept in x-original-routing-key, or channel.normal.
ReplayKey(c) == IF c.origin = NoKey THEN MainKey(c.queue[1], "normal") ELSE c.origin

\* The publish at attempt 0, then the ack; or the nack, which discards the
\* letter, and 500.
ReplayPublish(r) ==
  LET c == replay[r].held
      new == Published(c.msg, "main", ReplayKey(c), 0, NoKey)
  IN
  /\ At(r, "publish")
  /\ waited' = [waited EXCEPT ![c.msg] = <<>>]
  /\ \/ /\ copies' = copies \cup new
        /\ replay' = [replay EXCEPT ![r].pc = "get", ![r].held = NoCopy,
             ![r].replayed = @ + 1, ![r].moved = @ + Cardinality(new)]
        /\ UNCHANGED <<dropped, faults>>
     \/ /\ FailedPublish(r, new, {})
        /\ replay' = [replay EXCEPT ![r].pc = "done", ![r].held = NoCopy,
                                    ![r].code = "500"]
  /\ UNCHANGED <<api, settled>>

\* QueueInspect counts the ready letters; an error of it counts as 0.
ReplayInspect(r) ==
  /\ At(r, "inspect")
  /\ \/ /\ replay' = [replay EXCEPT ![r].pc = "done", ![r].code = "200",
             ![r].remaining = Cardinality(DeadLetters(replay[r].channel))]
        /\ UNCHANGED faults
     \/ /\ Fault
        /\ replay' = [replay EXCEPT ![r].pc = "done", ![r].code = "200"]
  /\ UNCHANGED <<copies, api, settled, waited, dropped>>

-----------------------------------------------------------------------------

Work(c) == HandlePoison(c) \/ HandleDelivered(c) \/ HandleFailed(c)

Replay(r) ==
  ReplayGet(r) \/ ReplayLoopEnds(r) \/ ReplayGetFails(r) \/ ReplayPublish(r)
    \/ ReplayInspect(r)

Next ==
  \/ \E m \in Message : PublishNew(m)
  \/ \E c \in copies : Work(c) \/ Expire(c)
  \/ \E r \in Admin :
       \/ \E ch \in Channel \cup {"none"}, n \in Limit : ReplayStart(r, ch, n)
       \/ Replay(r)

Spec == Init /\ [][Next]_vars

\* Workers and TTLs go on, and a request that has begun is carried on.
Fairness ==
  /\ WF_vars(\E c \in copies : Work(c) \/ Expire(c))
  /\ \A r \in Admin : WF_vars(Replay(r))

FairSpec == Spec /\ Fairness
=============================================================================
