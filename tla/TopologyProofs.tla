--------------------------- MODULE TopologyProofs ---------------------------
(***************************************************************************)
(* Machine-checked proofs about Topology, for every number of channels,    *)
(* priorities, retry levels, messages, replays and failures.               *)
(***************************************************************************)
EXTENDS TopologyInvariant, SequenceTheorems, FiniteSetTheorems, TLAPS

-----------------------------------------------------------------------------
(* Keys and queues tell each other apart                                   *)

LEMMA MainKeyFacts ==
  ASSUME NEW ch \in Channel, NEW p \in Priority
  PROVE  LET k == MainKey(ch, p) IN
         /\ k \in MainKeys /\ k \in Queues /\ k \notin RetryKeys /\ k # NoKey
         /\ k[1] = ch /\ k[2] = p /\ Len(k) = 2
         /\ \A d : k # DLQQueue(d) /\ k # DLQKey(d)
<1>1. "dlq" # p
  BY TopologyAssumption
<1> QED
  BY <1>1
  DEF MainKey, MainKeys, RetryKeys, RetryKey, Queues, NoKey, DLQQueue, DLQKey

LEMMA RetryKeyFacts ==
  ASSUME NEW ch \in Channel, NEW p \in Priority, NEW l \in Levels
  PROVE  LET k == RetryKey(ch, p, l) IN
         /\ k \in RetryKeys /\ k \in Queues /\ k \notin MainKeys
         /\ k[1] = ch /\ k[2] = p /\ k[4] = l
         /\ \A d : k # DLQQueue(d) /\ k # DLQKey(d)
  BY DEF MainKey, MainKeys, RetryKeys, RetryKey, Queues, DLQQueue, DLQKey

LEMMA DLQFacts ==
  ASSUME NEW ch \in Channel
  PROVE  LET k == DLQQueue(ch) IN
         /\ k \in Queues /\ k \notin MainKeys /\ k \notin RetryKeys /\ k[1] = ch
<1>1. \A p \in Priority : "dlq" # p
  BY TopologyAssumption
<1> QED
  BY <1>1 DEF MainKey, MainKeys, RetryKeys, RetryKey, Queues, DLQQueue

\* Every key that a component builds is bound to one queue.
LEMMA RouteMain ==
  ASSUME NEW ch \in Channel, NEW p \in Priority
  PROVE  Route("main", MainKey(ch, p)) = {MainKey(ch, p)}
<1>1. MainKey(ch, p) \in MainKeys
  BY MainKeyFacts
<1> DEFINE k == MainKey(ch, p)
<1> HIDE DEF k
<1>2. \A b \in Bindings : b[1] = "main" /\ b[2] = k => b[3] = k
  BY DEF Bindings
<1>3. <<"main", k, k>> \in Bindings
  BY <1>1 DEF Bindings, k
<1> QED
  BY <1>2, <1>3 DEF Route, k

LEMMA RouteRetry ==
  ASSUME NEW ch \in Channel, NEW p \in Priority, NEW l \in Levels
  PROVE  Route("retry", RetryKey(ch, p, l)) = {RetryKey(ch, p, l)}
<1>1. RetryKey(ch, p, l) \in RetryKeys
  BY RetryKeyFacts
<1> DEFINE k == RetryKey(ch, p, l)
<1> HIDE DEF k
<1>2. \A b \in Bindings : b[1] = "retry" /\ b[2] = k => b[3] = k
  BY DEF Bindings
<1>3. <<"retry", k, k>> \in Bindings
  BY <1>1 DEF Bindings, k
<1> QED
  BY <1>2, <1>3 DEF Route, k

LEMMA RouteDLQ ==
  ASSUME NEW ch \in Channel
  PROVE  Route("dlq", DLQKey(ch)) = {DLQQueue(ch)}
<1>1. \A d \in Channel : DLQKey(d) = DLQKey(ch) => d = ch
  BY DEF DLQKey
<1>2. \A b \in Bindings :
        b[1] = "dlq" /\ b[2] = DLQKey(ch) => b[3] = DLQQueue(ch)
  BY <1>1 DEF Bindings
<1>3. <<"dlq", DLQKey(ch), DLQQueue(ch)>> \in Bindings
  BY DEF Bindings
<1> QED
  BY <1>2, <1>3 DEF Route

-----------------------------------------------------------------------------
(* What the publishes of a message make                                    *)

LEMMA HomeFacts ==
  ASSUME NEW m \in Message
  PROVE  /\ ChannelOf[m] \in Channel /\ AskedPriority(m) \in Priority
         /\ Home(m) \in MainKeys
         /\ Home(m) = MainKey(ChannelOf[m], AskedPriority(m))
<1>1. ChannelOf[m] \in Channel /\ AskedPriority(m) \in Priority
  BY TopologyAssumption DEF AskedPriority
<1> QED
  BY <1>1, MainKeyFacts DEF Home

\* A copy in the main queue of its message, in a retry queue, in the DLQ.
MainCopyOf(m, a, o) ==
  [msg |-> m, queue |-> Home(m), key |-> Home(m), attempt |-> a, origin |-> o]
RetryKeyOf(m, l) == RetryKey(ChannelOf[m], AskedPriority(m), l)
RetryCopyOf(m, l) ==
  [msg |-> m, queue |-> RetryKeyOf(m, l), key |-> RetryKeyOf(m, l),
   attempt |-> l, origin |-> NoKey]
DeadCopyOf(m, a) ==
  [msg |-> m, queue |-> DLQQueue(ChannelOf[m]), key |-> DLQKey(ChannelOf[m]),
   attempt |-> a, origin |-> Home(m)]

LEMMA MainCopyFacts ==
  ASSUME NEW m \in Message, NEW a \in Attempts, NEW o \in MainKeys \cup {NoKey}
  PROVE  LET c == MainCopyOf(m, a, o) IN
         /\ Published(m, "main", Home(m), a, o) = {c}
         /\ c \in Copy /\ c.msg = m
         /\ AtHome(c) /\ KeyKept(c)
         /\ WaitedInOrder(c) <=> (m \notin Poison => waited[m] = FirstLevels(a))
<1> DEFINE c == MainCopyOf(m, a, o)
<1>1. Published(m, "main", Home(m), a, o) = {c}
  <2>1. Route("main", Home(m)) = {Home(m)}
    BY HomeFacts, RouteMain
  <2> QED
    BY <2>1 DEF Published, MainCopyOf
<1>2. /\ Home(m) \in Queues /\ Home(m) \in MainKeys /\ Home(m) \notin RetryKeys
      /\ Home(m) # DLQQueue(Home(m)[1])
      /\ MainKey(Home(m)[1], Home(m)[2]) = Home(m)
  BY HomeFacts, MainKeyFacts
<1>3. /\ c.msg = m /\ c.queue = Home(m) /\ c.key = Home(m) /\ c.attempt = a
      /\ c \in Copy
  BY <1>2 DEF MainCopyOf, Copy
<1> HIDE DEF c
<1>4. ~InDLQ(c) /\ AtHome(c) /\ KeyKept(c)
  BY <1>2, <1>3 DEF InDLQ, AtHome, KeyKept
<1>5. WaitedInOrder(c) <=> (m \notin Poison => waited[m] = FirstLevels(a))
  BY <1>2, <1>3, <1>4 DEF WaitedInOrder
<1> QED
  BY <1>1, <1>3, <1>4, <1>5 DEF c

LEMMA RetryCopyFacts ==
  ASSUME NEW m \in Message, NEW l \in Levels
  PROVE  LET c == RetryCopyOf(m, l) IN
         /\ Published(m, "retry", RetryKeyOf(m, l), l, NoKey) = {c}
         /\ c \in Copy /\ c.msg = m
         /\ AtHome(c) /\ KeyKept(c)
         /\ WaitedInOrder(c)
              <=> (m \notin Poison => waited[m] = FirstLevels(l - 1))
<1> DEFINE c == RetryCopyOf(m, l)
           k == RetryKeyOf(m, l)
<1>1. Published(m, "retry", k, l, NoKey) = {c}
  <2>1. Route("retry", k) = {k}
    BY HomeFacts, RouteRetry DEF RetryKeyOf
  <2> QED
    BY <2>1 DEF Published, RetryCopyOf
<1>2. /\ k \in Queues /\ k \in RetryKeys /\ k \notin MainKeys
      /\ k # DLQQueue(k[1]) /\ k[4] = l
      /\ MainKey(k[1], k[2]) = Home(m)
  BY HomeFacts, RetryKeyFacts DEF RetryKeyOf
<1>3. l \in Attempts
  BY TopologyAssumption DEF Levels, Attempts
<1>4. c.msg = m /\ c.queue = k /\ c.attempt = l /\ c \in Copy
  BY <1>2, <1>3 DEF RetryCopyOf, Copy
<1> HIDE DEF c, k
<1>5. ~InDLQ(c) /\ AtHome(c) /\ KeyKept(c)
  BY <1>2, <1>4 DEF InDLQ, AtHome, KeyKept
<1>6. WaitedInOrder(c) <=> (m \notin Poison => waited[m] = FirstLevels(l - 1))
  BY <1>2, <1>4, <1>5 DEF WaitedInOrder
<1> QED
  BY <1>1, <1>4, <1>5, <1>6 DEF c, k

LEMMA DeadCopyFacts ==
  ASSUME NEW m \in Message, NEW a \in Attempts
  PROVE  LET c == DeadCopyOf(m, a) IN
         /\ Published(m, "dlq", DLQKey(ChannelOf[m]), a, Home(m)) = {c}
         /\ c \in Copy /\ c.msg = m
         /\ AtHome(c) /\ KeyKept(c)
         /\ WaitedInOrder(c) <=>
              (m \notin Poison => a = MaxAttempts /\ waited[m] = FirstLevels(a))
<1> DEFINE c == DeadCopyOf(m, a)
           q == DLQQueue(ChannelOf[m])
<1>1. Published(m, "dlq", DLQKey(ChannelOf[m]), a, Home(m)) = {c}
  <2>1. Route("dlq", DLQKey(ChannelOf[m])) = {q}
    BY HomeFacts, RouteDLQ
  <2> QED
    BY <2>1 DEF Published, DeadCopyOf
<1>2. /\ q \in Queues /\ q \notin RetryKeys /\ q \notin MainKeys
      /\ q[1] = ChannelOf[m] /\ q = DLQQueue(q[1])
  BY HomeFacts, DLQFacts
<1>3. c.msg = m /\ c.queue = q /\ c.attempt = a /\ c.origin = Home(m) /\ c \in Copy
  BY <1>2, HomeFacts DEF DeadCopyOf, Copy
<1> HIDE DEF c, q
<1>4. InDLQ(c) /\ AtHome(c) /\ KeyKept(c)
  BY <1>2, <1>3 DEF InDLQ, AtHome, KeyKept
<1>5. WaitedInOrder(c) <=>
        (m \notin Poison => a = MaxAttempts /\ waited[m] = FirstLevels(a))
  BY <1>2, <1>3, <1>4 DEF WaitedInOrder
<1> QED
  BY <1>1, <1>3, <1>4, <1>5 DEF c, q

-----------------------------------------------------------------------------
(* What the steps do to the copies                                         *)

\* The states that the proofs are about.
Sound == TypeOK /\ SoundCopies /\ SoundHeld

LEMMA CopyFacts ==
  ASSUME TypeOK, SoundCopies, NEW c \in copies
  PROVE  /\ c \in Copy /\ c.msg \in Message /\ c.attempt \in Attempts
         /\ c.origin \in MainKeys \cup {NoKey}
         /\ AtHome(c) /\ WaitedInOrder(c) /\ KeyKept(c)
  BY DEF TypeOK, SoundCopies, Copy

\* What a worker reads in the key of a delivery.
LEMMA ConsumedFacts ==
  ASSUME TypeOK, SoundCopies, NEW c, Consumable(c)
  PROVE  /\ c \in copies /\ c.key = Home(c.msg)
         /\ c.key # NoKey
         /\ ChannelFromKey(c.key) = ChannelOf[c.msg]
         /\ ResolvePriority(c.key, AskedPriority(c.msg)) = AskedPriority(c.msg)
         /\ c.msg \notin Poison => waited[c.msg] = FirstLevels(c.attempt)
<1>1. c \in copies /\ c.queue \in MainKeys
  BY DEF Consumable
<1>2. PICK ch \in Channel, p \in Priority : c.queue = MainKey(ch, p)
  BY <1>1 DEF MainKeys
<1>3. /\ c.queue \notin RetryKeys /\ c.queue # NoKey
      /\ c.queue[1] = ch /\ c.queue[2] = p
      /\ \A d : c.queue # DLQQueue(d)
  BY <1>2, MainKeyFacts
<1>4. c.queue = Home(c.msg) /\ c.key = c.queue
  BY <1>1, <1>2, <1>3, CopyFacts DEF AtHome, InDLQ, KeyKept
<1>5. /\ ch = ChannelOf[c.msg] /\ p = AskedPriority(c.msg)
      /\ Len(c.key) = 2 /\ c.key[1] = ch /\ c.key[2] = p
  <2>1. c.queue = MainKey(ChannelOf[c.msg], AskedPriority(c.msg))
    BY <1>4 DEF Home
  <2>2. ChannelOf[c.msg] \in Channel /\ AskedPriority(c.msg) \in Priority
    BY <1>1, CopyFacts, HomeFacts
  <2> QED
    BY <1>3, <1>4, <2>1, <2>2, MainKeyFacts
<1>6. ChannelFromKey(c.key) = ChannelOf[c.msg]
  BY <1>3, <1>4, <1>5 DEF ChannelFromKey
<1>7. ResolvePriority(c.key, AskedPriority(c.msg)) = AskedPriority(c.msg)
  BY <1>5 DEF ResolvePriority
<1>8. c.msg \notin Poison => waited[c.msg] = FirstLevels(c.attempt)
  BY <1>1, <1>3, CopyFacts DEF WaitedInOrder
<1> QED
  BY <1>1, <1>3, <1>4, <1>6, <1>7, <1>8

\* Whatever a worker does with a delivery, it is one copy instead of it, or
\* none and the message is gone.
Replaced(c, d) ==
  /\ copies' = (copies \ {c}) \cup {d}
  /\ d \in Copy /\ d.msg = c.msg /\ AtHome(d) /\ KeyKept(d)
  /\ UNCHANGED <<api, settled, replay, dropped>>

Removed(c) ==
  /\ copies' = copies \ {c}
  /\ UNCHANGED <<api, replay>>
  /\ \/ settled' = settled \cup {c.msg} /\ UNCHANGED dropped
     \/ dropped' = dropped \cup {<<c.msg, Worker>>} /\ UNCHANGED settled

LEMMA FailedPublishOne ==
  ASSUME NEW who, NEW d, NEW old, FailedPublish(who, {d}, old)
  PROVE  \/ copies' = (copies \ old) \cup {d} /\ UNCHANGED dropped
         \/ copies' = copies \ old /\ dropped' = dropped \cup {<<d.msg, who>>}
  BY DEF FailedPublish

LEMMA WorkEffect ==
  ASSUME TypeOK, SoundCopies, NEW c \in copies, Work(c)
  PROVE  /\ UNCHANGED waited
         /\ \/ Removed(c)
            \/ \E d : Replaced(c, d) /\ WaitedInOrder(d)
<1>1. Consumable(c)
  BY DEF Work, HandlePoison, HandleDelivered, HandleFailed
<1> DEFINE m == c.msg
           a == c.attempt
<1>2. m \in Message /\ a \in Attempts /\ a \in Nat
  BY CopyFacts, TopologyAssumption DEF Attempts
<1>3. ASSUME NEW d, d \in Copy, d.msg = m, AtHome(d), KeyKept(d), WaitedInOrder(d),
             UNCHANGED <<api, settled, waited, replay>>,
             \/ copies' = (copies \ {c}) \cup {d} /\ UNCHANGED <<dropped, faults>>
             \/ FailedPublish(Worker, {d}, {c})
      PROVE  Removed(c) \/ \E e : Replaced(c, e) /\ WaitedInOrder(e)
  BY <1>3, FailedPublishOne DEF Removed, Replaced
<1>4. CASE HandlePoison(c)
  <2> DEFINE d == DeadCopyOf(m, a)
  <2>1. Published(m, "dlq", DLQKey(ChannelFromKey(c.key)), a, c.key) = {d}
    BY <1>1, <1>2, ConsumedFacts, DeadCopyFacts
  <2>2. d \in Copy /\ d.msg = m /\ AtHome(d) /\ KeyKept(d) /\ WaitedInOrder(d)
    BY <1>2, <1>4, DeadCopyFacts DEF HandlePoison
  <2> QED
    BY <1>3, <1>4, <2>1, <2>2 DEF HandlePoison
<1>5. CASE HandleDelivered(c)
  BY <1>5 DEF HandleDelivered, Removed
<1>6. CASE HandleFailed(c) /\ a + 1 <= MaxAttempts
  <2> DEFINE d == RetryCopyOf(m, a + 1)
  <2>1. a + 1 \in Levels /\ (a + 1) - 1 = a
    BY <1>2, <1>6, TopologyAssumption DEF Levels
  <2>2. RetryCopy(c) = {d}
    BY <1>1, <1>2, <2>1, ConsumedFacts, RetryCopyFacts DEF RetryCopy, RetryKeyOf
  <2>3. d \in Copy /\ d.msg = m /\ AtHome(d) /\ KeyKept(d) /\ WaitedInOrder(d)
    BY <1>1, <1>2, <2>1, ConsumedFacts, RetryCopyFacts
  <2> QED
    BY <1>3, <1>6, <2>2, <2>3 DEF HandleFailed
<1>7. CASE HandleFailed(c) /\ ~(a + 1 <= MaxAttempts)
  <2> DEFINE d == DeadCopyOf(m, a)
  <2>1. a = MaxAttempts
    BY <1>2, <1>7, TopologyAssumption DEF Attempts
  <2>2. DeadCopy(c) = {d}
    BY <1>1, <1>2, ConsumedFacts, DeadCopyFacts DEF DeadCopy
  <2>3. d \in Copy /\ d.msg = m /\ AtHome(d) /\ KeyKept(d) /\ WaitedInOrder(d)
    BY <1>1, <1>2, <2>1, ConsumedFacts, DeadCopyFacts
  <2> QED
    BY <1>3, <1>7, <2>2, <2>3 DEF HandleFailed
<1>8. UNCHANGED waited
  BY DEF Work, HandlePoison, HandleDelivered, HandleFailed
<1> QED
  BY <1>4, <1>5, <1>6, <1>7, <1>8 DEF Work

LEMMA MainCopyWaited ==
  ASSUME NEW m \in Message, NEW a \in Attempts, NEW o \in MainKeys \cup {NoKey},
         m \notin Poison => waited'[m] = FirstLevels(a)
  PROVE  WaitedInOrder(MainCopyOf(m, a, o))'
<1>1. /\ Home(m) \notin RetryKeys /\ Home(m) # DLQQueue(Home(m)[1])
  BY HomeFacts, MainKeyFacts
<1> QED
  BY <1>1 DEF WaitedInOrder, InDLQ, MainCopyOf

LEMMA AppendLevel ==
  ASSUME NEW n \in Levels
  PROVE  Append(FirstLevels(n - 1), n) = FirstLevels(n)
<1>1. n \in Nat \ {0}
  BY TopologyAssumption DEF Levels
<1>2. FirstLevels(n - 1) \in Seq(Nat) /\ Len(FirstLevels(n - 1)) = n - 1
  BY <1>1 DEF FirstLevels
<1> QED
  BY <1>1, <1>2 DEF FirstLevels

LEMMA ExpireStep ==
  ASSUME TypeOK, SoundCopies, NEW c \in copies, Expire(c)
  PROVE  /\ \E d : Replaced(c, d) /\ WaitedInOrder(d)'
         /\ waited' \in [Message -> Seq(Levels)]
         /\ \A n \in Message : n # c.msg => waited'[n] = waited[n]
<1> DEFINE m == c.msg
           d == MainCopyOf(m, c.attempt, c.origin)
<1>1. /\ c \in Copy /\ m \in Message /\ c.attempt \in Attempts
      /\ c.origin \in MainKeys \cup {NoKey} /\ AtHome(c) /\ WaitedInOrder(c)
  BY CopyFacts
<1>2. PICK ch \in Channel, p \in Priority, l \in Levels : c.queue = RetryKey(ch, p, l)
  BY DEF Expire, RetryKeys
<1>3. /\ c.queue \in RetryKeys /\ c.queue[4] = l
      /\ \A e : c.queue # DLQQueue(e)
  BY <1>2, RetryKeyFacts
<1>4. ReEntryKey(c.queue) = Home(m)
  BY <1>1, <1>3 DEF ReEntryKey, AtHome, InDLQ
<1>5. /\ Published(m, "main", ReEntryKey(c.queue), c.attempt, c.origin) = {d}
      /\ d \in Copy /\ d.msg = m /\ AtHome(d) /\ KeyKept(d)
  BY <1>1, <1>4, MainCopyFacts
<1>6. waited' = [waited EXCEPT ![m] = Append(@, l)]
  BY <1>3 DEF Expire
<1>7. waited' \in [Message -> Seq(Levels)]
  BY <1>1, <1>6 DEF TypeOK
<1>8. m \notin Poison => waited'[m] = FirstLevels(c.attempt)
  <2>1. m \notin Poison => l = c.attempt /\ waited[m] = FirstLevels(l - 1)
    BY <1>1, <1>3 DEF WaitedInOrder
  <2>2. waited'[m] = Append(waited[m], l)
    BY <1>1, <1>6 DEF TypeOK
  <2> QED
    BY <2>1, <2>2, AppendLevel
<1>9. WaitedInOrder(d)'
  BY <1>1, <1>8, MainCopyWaited
<1> QED
  BY <1>5, <1>6, <1>7, <1>9 DEF Expire, Replaced, TypeOK

\* A publish of the API or of a replay adds one copy at its home, or drops it.
Added(d) ==
  /\ copies' = copies \cup {d} /\ d \in Copy /\ AtHome(d) /\ KeyKept(d)

LEMMA PublishNewStep ==
  ASSUME TypeOK, NEW m \in Message, PublishNew(m), waited[m] = <<>>
  PROVE  \E d : Added(d) /\ d.msg = m /\ WaitedInOrder(d)
<1> DEFINE d == MainCopyOf(m, 0, NoKey)
<1>1. 0 \in Attempts
  BY TopologyAssumption DEF Attempts
<1>2. FirstLevels(0) = <<>>
  BY DEF FirstLevels
<1>3. copies' = copies \cup Published(m, "main", Home(m), 0, NoKey)
  BY DEF PublishNew, Home
<1>4. Added(d) /\ d.msg = m /\ WaitedInOrder(d)
  BY <1>1, <1>2, <1>3, MainCopyFacts DEF Added
<1> QED
  BY <1>4

LEMMA ReplayPublishStep ==
  ASSUME Sound, NEW r \in Admin, ReplayPublish(r), NEW c, replay[r].held = c
  PROVE  LET m == c.msg IN
         /\ m \in Message
         /\ At(r, "publish")
         /\ waited' = [waited EXCEPT ![m] = <<>>]
         /\ UNCHANGED <<api, settled>>
         /\ \/ /\ \E d : Added(d) /\ d.msg = m /\ WaitedInOrder(d)'
               /\ UNCHANGED dropped
               /\ \/ replay' = [replay EXCEPT ![r].pc = "get", ![r].held = NoCopy,
                       ![r].replayed = @ + 1, ![r].moved = @ + 1]
                  \/ replay' = [replay EXCEPT ![r].pc = "done",
                       ![r].held = NoCopy, ![r].code = "500"]
            \/ /\ UNCHANGED copies
               /\ dropped' = dropped \cup {<<m, r>>}
               /\ replay' = [replay EXCEPT ![r].pc = "done",
                    ![r].held = NoCopy, ![r].code = "500"]
<1> DEFINE m == c.msg
           d == MainCopyOf(m, 0, NoKey)
           new == Published(m, "main", ReplayKey(c), 0, NoKey)
<1>1. At(r, "publish") /\ c \in Copy /\ InDLQ(c) /\ AtHome(c) /\ m \in Message
  BY DEF ReplayPublish, Sound, SoundHeld, Copy
<1>2. 0 \in Attempts
  BY TopologyAssumption DEF Attempts
<1>3. FirstLevels(0) = <<>>
  BY DEF FirstLevels
<1>4. ReplayKey(c) = Home(m)
  <2>1. c.origin = Home(m) /\ c.origin # NoKey
    BY <1>1, HomeFacts, MainKeyFacts DEF AtHome
  <2> QED
    BY <2>1 DEF ReplayKey
<1>5. new = {d} /\ d \in Copy /\ d.msg = m /\ AtHome(d) /\ KeyKept(d)
  BY <1>1, <1>2, <1>4, MainCopyFacts
<1>6. waited' = [waited EXCEPT ![m] = <<>>]
  BY DEF ReplayPublish
<1>7. WaitedInOrder(d)'
  <2>1. waited'[m] = <<>>
    BY <1>1, <1>6 DEF Sound, TypeOK
  <2> QED
    BY <1>1, <1>2, <1>3, <2>1, MainCopyWaited
<1>8. Cardinality(new) = 1
  BY <1>5, FS_Singleton
<1>9. CASE /\ copies' = copies \cup new
           /\ replay' = [replay EXCEPT ![r].pc = "get", ![r].held = NoCopy,
                ![r].replayed = @ + 1, ![r].moved = @ + Cardinality(new)]
           /\ UNCHANGED <<dropped, faults>>
  <2>1. Added(d)
    BY <1>5, <1>9 DEF Added
  <2> QED
    BY <1>1, <1>5, <1>6, <1>7, <1>8, <1>9, <2>1 DEF ReplayPublish
<1>10. CASE /\ FailedPublish(r, new, {})
            /\ replay' = [replay EXCEPT ![r].pc = "done", ![r].held = NoCopy,
                                        ![r].code = "500"]
  <2>1. \/ copies' = copies \cup {d} /\ UNCHANGED dropped
        \/ UNCHANGED copies /\ dropped' = dropped \cup {<<m, r>>}
    <3>1. FailedPublish(r, {d}, {})
      BY <1>5, <1>10
    <3>2. \/ copies' = (copies \ {}) \cup {d} /\ UNCHANGED dropped
          \/ copies' = copies \ {} /\ dropped' = dropped \cup {<<d.msg, r>>}
      BY <3>1, FailedPublishOne
    <3> QED
      BY <1>5, <3>2
  <2>2. copies' = copies \cup {d} => Added(d)
    BY <1>5 DEF Added
  <2> QED
    BY <1>1, <1>5, <1>6, <1>7, <1>10, <2>1, <2>2 DEF ReplayPublish
<1> QED
  BY <1>9, <1>10 DEF ReplayPublish

-----------------------------------------------------------------------------
(* Type correctness                                                        *)

LEMMA InitTypeOK == Init => TypeOK
<1> SUFFICES ASSUME Init PROVE TypeOK
  OBVIOUS
<1>1. waited \in [Message -> Seq(Levels)]
  BY DEF Init
<1>2. 0 \in 0..MaxReplayLimit
  BY TopologyAssumption
<1>3. replay \in [Admin -> ReplayRec]
  BY <1>2 DEF Init, ReplayRec
<1> QED
  BY <1>1, <1>3, TopologyAssumption DEF Init, TypeOK

LEMMA FaultType ==
  ASSUME TypeOK, Fault \/ UNCHANGED faults PROVE faults' \in 0..MaxFaults
  BY TopologyAssumption DEF TypeOK, Fault

\* Every change of a replay request keeps its type.
LEMMA ReplayType ==
  ASSUME Sound, IsFiniteSet(copies), ReplayCounts, [Next]_vars
  PROVE  replay' \in [Admin -> ReplayRec]
<1>0. replay \in [Admin -> ReplayRec] /\ copies \subseteq Copy
  BY DEF Sound, TypeOK
<1>1. CASE UNCHANGED replay
  BY <1>0, <1>1
<1>2. ASSUME NEW r \in Admin, NEW ch \in Channel \cup {"none"}, NEW n \in Limit,
             ReplayStart(r, ch, n)
      PROVE  replay' \in [Admin -> ReplayRec]
  <2>1. n # 0 => ReplayLimit(n) \in 0..MaxReplayLimit
    BY TopologyAssumption DEF ReplayLimit
  <2> QED
    <3>1. CASE ch \notin Channel \/ n = 0
      <4>1. replay' = [replay EXCEPT ![r] =
              [replay[r] EXCEPT !.pc = "done", !.code = "400"]]
        BY <1>2, <3>1 DEF ReplayStart
      <4> QED
        BY <1>0, <4>1 DEF ReplayRec
    <3>2. CASE ~(ch \notin Channel \/ n = 0)
      <4>1. replay' = [replay EXCEPT ![r] =
              [replay[r] EXCEPT !.pc = "get", !.channel = ch,
                                !.limit = ReplayLimit(n)]]
        BY <1>2, <3>2 DEF ReplayStart
      <4>2. ch \in Channel \cup {"none"} /\ ReplayLimit(n) \in 0..MaxReplayLimit
        BY <2>1, <3>2
      <4> QED
        BY <1>0, <4>1, <4>2 DEF ReplayRec
    <3> QED
      BY <3>1, <3>2
<1>3. ASSUME NEW r \in Admin, ReplayGet(r) PROVE replay' \in [Admin -> ReplayRec]
  <2>1. PICK c \in copies :
          replay' = [replay EXCEPT ![r].pc = "publish", ![r].held = c]
    BY <1>3 DEF ReplayGet, DeadLetters
  <2>2. c \in Copy \cup {NoCopy}
    BY <1>0
  <2> DEFINE rec == [replay[r] EXCEPT !.pc = "publish", !.held = c]
  <2>3. rec \in ReplayRec
    BY <1>0, <2>2 DEF ReplayRec
  <2>4. replay' = [replay EXCEPT ![r] = rec]
    BY <1>0, <2>1
  <2> HIDE DEF rec
  <2> QED
    BY <1>0, <2>3, <2>4
<1>4. ASSUME NEW r \in Admin, ReplayLoopEnds(r) \/ ReplayGetFails(r)
      PROVE  replay' \in [Admin -> ReplayRec]
  BY <1>0, <1>4 DEF ReplayLoopEnds, ReplayGetFails, ReplayRec
<1>5. ASSUME NEW r \in Admin, ReplayPublish(r)
      PROVE  replay' \in [Admin -> ReplayRec]
  <2>1. \/ replay' = [replay EXCEPT ![r].pc = "get", ![r].held = NoCopy,
             ![r].replayed = @ + 1, ![r].moved = @ + 1]
        \/ replay' = [replay EXCEPT ![r].pc = "done",
             ![r].held = NoCopy, ![r].code = "500"]
    BY <1>0, <1>5, ReplayPublishStep
  <2> QED
    BY <1>0, <2>1 DEF ReplayRec
<1>6. ASSUME NEW r \in Admin, ReplayInspect(r)
      PROVE  replay' \in [Admin -> ReplayRec]
  <2>1. Cardinality(DeadLetters(replay[r].channel)) \in Nat
    BY FS_Subset, FS_CardinalityType DEF DeadLetters
  <2> QED
    BY <1>0, <1>6, <2>1 DEF ReplayInspect, ReplayRec
<1> QED
  BY <1>1, <1>2, <1>3, <1>4, <1>5, <1>6
  DEF Next, Work, HandlePoison, HandleDelivered, HandleFailed, Expire,
      PublishNew, Replay, vars

\* What a step does to the copies, and to what was waited for and dropped.
CopiesStep ==
  \/ \E m \in Message : /\ PublishNew(m) /\ m \notin api
                        /\ \E d : Added(d) /\ d.msg = m /\ WaitedInOrder(d)'
                        /\ UNCHANGED <<settled, waited, replay, dropped>>
                        /\ api' = api \cup {m}
  \/ \E c \in copies : Removed(c) /\ UNCHANGED waited
  \/ \E c \in copies :
       /\ \E d : Replaced(c, d) /\ WaitedInOrder(d)'
       /\ \A n \in Message : n # c.msg => waited'[n] = waited[n]
  \/ \E r \in Admin : ReplayGet(r)
  \/ \E r \in Admin : ReplayPublish(r)
  \/ UNCHANGED <<copies, api, settled, waited, dropped>>
       /\ \A r \in Admin :
            At(r, "publish") \/ At(r, "publish")' => replay'[r] = replay[r]

LEMMA NextCopies ==
  ASSUME Sound, \A m \in Message : m \notin api => waited[m] = <<>>, [Next]_vars
  PROVE  CopiesStep
<1> USE DEF Sound
<1>1. ASSUME NEW m \in Message, PublishNew(m) PROVE CopiesStep
  <2>1. PICK d : Added(d) /\ d.msg = m /\ WaitedInOrder(d)
    BY <1>1, PublishNewStep DEF PublishNew
  <2>2. WaitedInOrder(d)'
    BY <1>1, <2>1 DEF PublishNew, WaitedInOrder
  <2> QED
    BY <1>1, <2>1, <2>2 DEF PublishNew, CopiesStep
<1>2. ASSUME NEW c \in copies, Work(c) PROVE CopiesStep
  <2>1. UNCHANGED waited
    BY <1>2, WorkEffect
  <2>2. \A d : WaitedInOrder(d) => WaitedInOrder(d)'
    BY <2>1 DEF WaitedInOrder
  <2> QED
    BY <1>2, <2>1, <2>2, WorkEffect DEF CopiesStep
<1>3. ASSUME NEW c \in copies, Expire(c) PROVE CopiesStep
  BY <1>3, ExpireStep DEF CopiesStep
<1>4. ASSUME NEW r \in Admin,
             \/ \E ch \in Channel \cup {"none"}, n \in Limit : ReplayStart(r, ch, n)
             \/ ReplayLoopEnds(r) \/ ReplayGetFails(r) \/ ReplayInspect(r)
      PROVE  CopiesStep
  <2>1. UNCHANGED <<copies, api, settled, waited, dropped>>
    BY <1>4 DEF ReplayStart, ReplayLoopEnds, ReplayGetFails, ReplayInspect
  <2>2. /\ \A q \in Admin : q # r => replay'[q] = replay[q]
        /\ replay[r].pc # "publish" /\ replay'[r].pc # "publish"
    <3>0. replay \in [Admin -> ReplayRec]
      BY DEF TypeOK
    <3>1. CASE \E ch \in Channel \cup {"none"}, n \in Limit : ReplayStart(r, ch, n)
      BY <3>0, <3>1 DEF ReplayStart, ReplayRec, At
    <3>2. CASE ReplayLoopEnds(r) \/ ReplayGetFails(r) \/ ReplayInspect(r)
      BY <3>0, <3>2
      DEF ReplayLoopEnds, ReplayGetFails, ReplayInspect, ReplayRec, At
    <3> QED
      BY <1>4, <3>1, <3>2
  <2> QED
    BY <2>1, <2>2 DEF CopiesStep, At
<1>5. CASE UNCHANGED vars
  BY <1>5 DEF vars, CopiesStep
<1> QED
  BY <1>1, <1>2, <1>3, <1>4, <1>5 DEF Next, Replay, CopiesStep

LEMMA NextTypeOK ==
  ASSUME Sound, OneCopyInv, ReplayCounts, [Next]_vars
  PROVE  TypeOK'
<1> USE DEF Sound
<1>1. CopiesStep
  BY NextCopies DEF OneCopyInv, OneCopy
<1>2. \A c \in copies : c.msg \in Message
  BY CopyFacts
<1>3. /\ copies' \in SUBSET Copy /\ settled' \in SUBSET Message
      /\ dropped' \in SUBSET (Message \X (Admin \cup {Worker}))
  <2>1. CASE \E c \in copies : Removed(c)
    BY <1>2, <2>1 DEF Removed, TypeOK
  <2>2. CASE \E c \in copies : \E d : Replaced(c, d)
    BY <2>2 DEF Replaced, TypeOK
  <2>3. ASSUME NEW r \in Admin, ReplayPublish(r)
        PROVE  /\ copies' \in SUBSET Copy /\ settled' \in SUBSET Message
               /\ dropped' \in SUBSET (Message \X (Admin \cup {Worker}))
    <3>1. PICK c : replay[r].held = c
      OBVIOUS
    <3>2. /\ c.msg \in Message /\ UNCHANGED settled
          /\ \/ (\E d : Added(d)) /\ UNCHANGED dropped
             \/ UNCHANGED copies /\ dropped' = dropped \cup {<<c.msg, r>>}
      BY <2>3, <3>1, ReplayPublishStep
    <3> QED
      BY <3>2 DEF Added, TypeOK
  <2>4. ASSUME NEW r \in Admin, ReplayGet(r)
        PROVE  /\ copies' \in SUBSET Copy /\ UNCHANGED <<settled, dropped>>
    BY <2>4 DEF ReplayGet, TypeOK
  <2>5. ASSUME NEW d, Added(d) PROVE copies' \in SUBSET Copy
    BY <2>5 DEF Added, TypeOK
  <2> QED
    BY <1>1, <2>1, <2>2, <2>3, <2>4, <2>5 DEF CopiesStep, TypeOK
<1>4. api' \in SUBSET Message
  BY <1>1, ReplayPublishStep DEF CopiesStep, Removed, Replaced, ReplayGet, TypeOK
<1>5. waited' \in [Message -> Seq(Levels)]
  <2>1. ASSUME NEW c \in copies, Expire(c) PROVE waited' \in [Message -> Seq(Levels)]
    BY <2>1, ExpireStep
  <2>2. ASSUME NEW r \in Admin, ReplayPublish(r)
        PROVE  waited' \in [Message -> Seq(Levels)]
    <3>1. \E m \in Message : waited' = [waited EXCEPT ![m] = <<>>]
      BY <2>2, ReplayPublishStep
    <3> QED
      BY <3>1 DEF TypeOK
  <2>3. \/ \E c \in copies : Expire(c)
        \/ \E r \in Admin : ReplayPublish(r)
        \/ UNCHANGED waited
    BY DEF Next, Work, HandlePoison, HandleDelivered, HandleFailed, PublishNew,
           Replay, ReplayStart, ReplayGet, ReplayLoopEnds, ReplayGetFails,
           ReplayInspect, vars
  <2> QED
    BY <2>1, <2>2, <2>3 DEF TypeOK
<1>6. faults' \in 0..MaxFaults
  <2>1. Fault \/ UNCHANGED faults
    BY DEF Next, Work, HandlePoison, HandleDelivered, HandleFailed, PublishNew,
           Expire, Replay, ReplayStart, ReplayGet, ReplayLoopEnds, ReplayGetFails,
           ReplayPublish, ReplayInspect, FailedPublish, vars
  <2> QED
    BY <2>1, FaultType
<1>7. replay' \in [Admin -> ReplayRec]
  BY ReplayType DEF OneCopyInv
<1> QED
  BY <1>3, <1>4, <1>5, <1>6, <1>7 DEF TypeOK

-----------------------------------------------------------------------------
(* One copy of a message                                                   *)

\* A message that a step does not touch.
LEMMA Untouched ==
  ASSUME NEW n \in Message, OneCopy(n), Ready(n)' = Ready(n), Held(n)' = Held(n),
         n \in api' <=> n \in api, Gone(n)' <=> Gone(n),
         waited'[n] = waited[n] \/ waited'[n] = <<>>
  PROVE  OneCopy(n)'
  BY DEF OneCopy

\* A ready copy is the only one, and nobody holds the message.
LEMMA ReadyIsOne ==
  ASSUME NEW c \in copies, OneCopy(c.msg)
  PROVE  /\ Ready(c.msg) = {c} /\ Held(c.msg) = {}
         /\ c.msg \in api /\ ~Gone(c.msg)
         /\ \A e \in copies : e # c => e.msg # c.msg
<1>1. c \in Ready(c.msg)
  BY DEF Ready
<1>2. Ready(c.msg) = {c}
  BY <1>1 DEF OneCopy
<1>3. \A e \in copies : e # c => e.msg # c.msg
  BY <1>2 DEF Ready
<1> QED
  BY <1>2, <1>3 DEF OneCopy

LEMMA HeldIsOne ==
  ASSUME NEW r \in Admin, At(r, "publish"), NEW m, replay[r].held.msg = m,
         OneCopy(m)
  PROVE  /\ Held(m) = {r} /\ Ready(m) = {} /\ m \in api /\ ~Gone(m)
         /\ \A e \in copies : e.msg # m
<1>1. r \in Held(m)
  BY DEF Held
<1>2. Held(m) = {r} /\ Ready(m) = {}
  BY <1>1 DEF OneCopy
<1> QED
  BY <1>1, <1>2 DEF OneCopy, Ready

\* The message after its one copy has gone elsewhere.
LEMMA OneCopyAfter ==
  ASSUME NEW m, m \in api',
         \/ \E d : Ready(m)' = {d} /\ Held(m)' = {} /\ ~Gone(m)'
         \/ \E r : Ready(m)' = {} /\ Held(m)' = {r} /\ ~Gone(m)'
         \/ Ready(m)' = {} /\ Held(m)' = {} /\ Gone(m)'
  PROVE  OneCopy(m)'
  BY DEF OneCopy

LEMMA ReplayGetStep ==
  ASSUME TypeOK, NEW r \in Admin, ReplayGet(r)
  PROVE  /\ ~At(r, "publish")
         /\ UNCHANGED <<api, settled, waited, dropped>>
         /\ \A q \in Admin : q # r => replay'[q] = replay[q]
         /\ \E c \in copies : /\ InDLQ(c) /\ copies' = copies \ {c}
                              /\ replay'[r].pc = "publish" /\ replay'[r].held = c
<1>1. replay[r].pc = "get"
  BY DEF ReplayGet, At
<1>2. PICK c \in DeadLetters(replay[r].channel) :
        /\ copies' = copies \ {c}
        /\ replay' = [replay EXCEPT ![r].pc = "publish", ![r].held = c]
  BY DEF ReplayGet
<1>3. c \in copies /\ InDLQ(c)
  BY <1>2 DEF DeadLetters, InDLQ, DLQQueue
<1>4. replay \in [Admin -> ReplayRec]
  BY DEF TypeOK
<1>5. replay'[r].pc = "publish" /\ replay'[r].held = c
  BY <1>2, <1>4 DEF ReplayRec
<1>6. \A q \in Admin : q # r => replay'[q] = replay[q]
  BY <1>2, <1>4
<1> QED
  BY <1>1, <1>2, <1>3, <1>5, <1>6 DEF ReplayGet, At

\* After the publish a request holds nothing.
LEMMA ReplayPublishEnds ==
  ASSUME Sound, NEW r \in Admin, ReplayPublish(r)
  PROVE  /\ ~At(r, "publish")'
         /\ \A q \in Admin : q # r => replay'[q] = replay[q]
<1>1. PICK c : replay[r].held = c
  OBVIOUS
<1>2. \/ replay' = [replay EXCEPT ![r].pc = "get", ![r].held = NoCopy,
           ![r].replayed = @ + 1, ![r].moved = @ + 1]
      \/ replay' = [replay EXCEPT ![r].pc = "done",
           ![r].held = NoCopy, ![r].code = "500"]
  BY <1>1, ReplayPublishStep
<1>3. replay \in [Admin -> ReplayRec]
  BY DEF Sound, TypeOK
<1> QED
  BY <1>2, <1>3 DEF ReplayRec, At

LEMMA NextOneCopy ==
  ASSUME Sound, OneCopyInv, [Next]_vars, NEW n \in Message
  PROVE  OneCopy(n)'
<1> USE DEF Sound
<1>1. CopiesStep
  BY NextCopies DEF OneCopyInv, OneCopy
<1>2. \A m \in Message : OneCopy(m)
  BY DEF OneCopyInv
<1>3. \A c \in copies : c.msg \in Message
  BY CopyFacts
<1>4. ASSUME NEW m \in Message, PublishNew(m), m \notin api, api' = api \cup {m},
             NEW d, Added(d), d.msg = m,
             UNCHANGED <<settled, waited, replay, dropped>>
      PROVE  OneCopy(n)'
  <2>1. Held(n)' = Held(n) /\ (Gone(n)' <=> Gone(n))
    BY <1>4 DEF Held, At, Gone
  <2>2. CASE n = m
    <3>1. Ready(n) = {} /\ Held(n) = {} /\ ~Gone(n)
      BY <1>2, <1>4, <2>2 DEF OneCopy
    <3>2. Ready(n)' = {d}
      BY <1>4, <2>2, <3>1 DEF Ready, Added
    <3> QED
      BY <1>4, <2>1, <2>2, <3>1, <3>2, OneCopyAfter
  <2>3. CASE n # m
    <3>1. Ready(n)' = Ready(n)
      BY <1>4, <2>3 DEF Ready, Added
    <3> QED
      BY <1>2, <1>4, <2>1, <2>3, <3>1, Untouched
  <2> QED
    BY <2>2, <2>3
<1>5. ASSUME NEW c \in copies, Removed(c), UNCHANGED waited PROVE OneCopy(n)'
  <2>1. Held(n)' = Held(n) /\ (n \in api' <=> n \in api)
    BY <1>5 DEF Held, At, Removed
  <2>2. CASE n = c.msg
    <3>1. Ready(n) = {c} /\ Held(n) = {} /\ n \in api
      BY <1>2, <2>2, ReadyIsOne
    <3>2. Ready(n)' = {}
      BY <1>5, <3>1 DEF Ready, Removed
    <3>3. Gone(n)'
      <4>1. n \in settled' \/ <<n, Worker>> \in dropped'
        BY <1>5, <2>2 DEF Removed
      <4>2. <<n, Worker>>[1] = n
        OBVIOUS
      <4> QED
        BY <4>1, <4>2 DEF Gone
    <3> QED
      BY <2>1, <3>1, <3>2, <3>3, OneCopyAfter
  <2>3. CASE n # c.msg
    <3>1. Ready(n)' = Ready(n) /\ (Gone(n)' <=> Gone(n))
      BY <1>5, <2>3 DEF Ready, Gone, Removed
    <3> QED
      BY <1>2, <1>5, <2>1, <3>1, Untouched
  <2> QED
    BY <2>2, <2>3
<1>6. ASSUME NEW c \in copies, NEW d, Replaced(c, d),
             \A k \in Message : k # c.msg => waited'[k] = waited[k]
      PROVE  OneCopy(n)'
  <2>1. /\ Held(n)' = Held(n) /\ (n \in api' <=> n \in api)
        /\ Gone(n)' <=> Gone(n)
    BY <1>6 DEF Held, At, Gone, Replaced
  <2>2. CASE n = c.msg
    <3>1. Ready(n) = {c} /\ Held(n) = {} /\ n \in api /\ ~Gone(n)
      BY <1>2, <2>2, ReadyIsOne
    <3>2. Ready(n)' = {d}
      BY <1>6, <2>2, <3>1 DEF Ready, Replaced
    <3> QED
      BY <2>1, <3>1, <3>2, OneCopyAfter
  <2>3. CASE n # c.msg
    <3>1. Ready(n)' = Ready(n)
      BY <1>6, <2>3 DEF Ready, Replaced
    <3> QED
      BY <1>2, <1>6, <2>1, <2>3, <3>1, Untouched
  <2> QED
    BY <2>2, <2>3
<1>7. ASSUME NEW r \in Admin, ReplayGet(r) PROVE OneCopy(n)'
  <2>1. PICK c \in copies : /\ copies' = copies \ {c}
                            /\ replay'[r].pc = "publish" /\ replay'[r].held = c
    BY <1>7, ReplayGetStep
  <2>2. /\ ~At(r, "publish") /\ UNCHANGED <<api, settled, waited, dropped>>
        /\ \A q \in Admin : q # r => replay'[q] = replay[q]
    BY <1>7, ReplayGetStep
  <2>3. (n \in api' <=> n \in api) /\ (Gone(n)' <=> Gone(n))
    BY <2>2 DEF Gone
  <2>4. CASE n = c.msg
    <3>1. Ready(n) = {c} /\ Held(n) = {} /\ n \in api /\ ~Gone(n)
      BY <1>2, <2>4, ReadyIsOne
    <3>2. Ready(n)' = {} /\ Held(n)' = {r}
      BY <2>1, <2>2, <2>4, <3>1 DEF Ready, Held, At
    <3> QED
      BY <2>3, <3>1, <3>2, OneCopyAfter
  <2>5. CASE n # c.msg
    <3>1. Ready(n)' = Ready(n) /\ Held(n)' = Held(n)
      BY <2>1, <2>2, <2>5 DEF Ready, Held, At
    <3> QED
      BY <1>2, <2>2, <2>3, <3>1, Untouched
  <2> QED
    BY <2>4, <2>5
<1>8. ASSUME NEW r \in Admin, ReplayPublish(r) PROVE OneCopy(n)'
  <2>1. PICK c : replay[r].held = c
    OBVIOUS
  <2> DEFINE m == c.msg
  <2>2. /\ m \in Message /\ At(r, "publish")
        /\ waited' = [waited EXCEPT ![m] = <<>>] /\ UNCHANGED <<api, settled>>
        /\ \/ (\E d : Added(d) /\ d.msg = m) /\ UNCHANGED dropped
           \/ UNCHANGED copies /\ dropped' = dropped \cup {<<m, r>>}
    BY <1>8, <2>1, ReplayPublishStep
  <2>3. /\ ~At(r, "publish")'
        /\ \A q \in Admin : q # r => replay'[q] = replay[q]
    BY <1>8, ReplayPublishEnds
  <2>4. n \in api' <=> n \in api
    BY <2>2
  <2>5. CASE n = m
    <3>1. Held(n) = {r} /\ Ready(n) = {} /\ n \in api /\ ~Gone(n)
      BY <1>2, <2>1, <2>2, <2>5, HeldIsOne
    <3>2. Held(n)' = {}
      BY <2>3, <3>1 DEF Held, At
    <3>3. ASSUME NEW d, Added(d), d.msg = m, UNCHANGED dropped
          PROVE  Ready(n)' = {d} /\ ~Gone(n)'
      BY <2>2, <2>5, <3>1, <3>3 DEF Ready, Added, Gone
    <3>4. ASSUME UNCHANGED copies, dropped' = dropped \cup {<<m, r>>}
          PROVE  Ready(n)' = {} /\ Gone(n)'
      <4>1. <<n, r>> \in dropped' /\ <<n, r>>[1] = n
        BY <2>5, <3>4
      <4>2. Ready(n)' = {}
        BY <3>1, <3>4 DEF Ready
      <4> QED
        BY <4>1, <4>2 DEF Gone
    <3> QED
      BY <2>2, <2>4, <3>1, <3>2, <3>3, <3>4, OneCopyAfter
  <2>6. CASE n # m
    <3>1. Held(n)' = Held(n)
      BY <2>1, <2>3, <2>6 DEF Held, At
    <3>2. Ready(n)' = Ready(n)
      BY <2>2, <2>6 DEF Ready, Added
    <3>3. Gone(n)' <=> Gone(n)
      BY <2>2, <2>6 DEF Gone
    <3>4. waited'[n] = waited[n]
      BY <2>2, <2>6 DEF TypeOK
    <3> QED
      BY <1>2, <2>4, <3>1, <3>2, <3>3, <3>4, Untouched
  <2> QED
    BY <2>5, <2>6
<1>9. ASSUME UNCHANGED <<copies, api, settled, waited, dropped>>,
             \A r \in Admin :
               At(r, "publish") \/ At(r, "publish")' => replay'[r] = replay[r]
      PROVE  OneCopy(n)'
  <2>1. Ready(n)' = Ready(n) /\ (n \in api' <=> n \in api) /\ (Gone(n)' <=> Gone(n))
    BY <1>9 DEF Ready, Gone
  <2>2. Held(n)' = Held(n)
    BY <1>9 DEF Held, At
  <2> QED
    BY <1>2, <1>9, <2>1, <2>2, Untouched
<1> QED
  BY <1>1, <1>4, <1>5, <1>6, <1>7, <1>8, <1>9 DEF CopiesStep

LEMMA NextFinite ==
  ASSUME Sound, OneCopyInv, [Next]_vars PROVE IsFiniteSet(copies')
<1> USE DEF Sound
<1>1. CopiesStep /\ IsFiniteSet(copies)
  BY NextCopies DEF OneCopyInv, OneCopy
<1>2. \A d : IsFiniteSet(copies \cup {d})
  BY <1>1, FS_AddElement
<1>3. \A c : IsFiniteSet(copies \ {c})
  BY <1>1, FS_RemoveElement
<1>4. \A c, d : IsFiniteSet((copies \ {c}) \cup {d})
  BY <1>3, FS_AddElement
<1>5. ASSUME NEW r \in Admin, ReplayPublish(r)
      PROVE  UNCHANGED copies \/ \E d : copies' = copies \cup {d}
  <2>1. PICK c : replay[r].held = c
    OBVIOUS
  <2> QED
    BY <1>5, <2>1, ReplayPublishStep DEF Added
<1>6. \A r \in Admin : ReplayGet(r) => \E c : copies' = copies \ {c}
  BY DEF ReplayGet
<1>7. \A c : Removed(c) => copies' = copies \ {c}
  BY DEF Removed
<1>8. \A c, d : Replaced(c, d) => copies' = (copies \ {c}) \cup {d}
  BY DEF Replaced
<1>9. \A d : Added(d) => copies' = copies \cup {d}
  BY DEF Added
<1>10. \/ UNCHANGED copies
       \/ \E d : copies' = copies \cup {d}
       \/ \E c : copies' = copies \ {c}
       \/ \E c : \E d : copies' = (copies \ {c}) \cup {d}
  <2>1. \/ \E d : Added(d)
        \/ \E c : Removed(c)
        \/ \E c : \E d : Replaced(c, d)
        \/ \E r \in Admin : ReplayGet(r)
        \/ \E r \in Admin : ReplayPublish(r)
        \/ UNCHANGED copies
    BY <1>1 DEF CopiesStep
  <2> QED
    BY <1>5, <1>6, <1>7, <1>8, <1>9, <2>1
<1>11. CASE UNCHANGED copies
  BY <1>1, <1>11
<1>12. CASE \E d : copies' = copies \cup {d}
  <2>1. PICK d : copies' = copies \cup {d}
    BY <1>12
  <2>2. IsFiniteSet(copies \cup {d})
    BY <1>2
  <2> QED
    BY <2>1, <2>2, Zenon
<1>13. CASE \E c : copies' = copies \ {c}
  <2>1. PICK c : copies' = copies \ {c}
    BY <1>13
  <2>2. IsFiniteSet(copies \ {c})
    BY <1>3
  <2> QED
    BY <2>1, <2>2, Zenon
<1>14. CASE \E c : \E d : copies' = (copies \ {c}) \cup {d}
  <2>1. PICK c : \E d : copies' = (copies \ {c}) \cup {d}
    BY <1>14
  <2>2. PICK d : copies' = (copies \ {c}) \cup {d}
    BY <2>1
  <2>3. IsFiniteSet((copies \ {c}) \cup {d})
    BY <1>4
  <2> QED
    BY <2>2, <2>3, Zenon
<1> QED
  BY <1>10, <1>11, <1>12, <1>13, <1>14

-----------------------------------------------------------------------------
(* Every copy is where its headers say                                     *)

LEMMA NextSoundCopies ==
  ASSUME Sound, OneCopyInv, [Next]_vars PROVE SoundCopies'
<1> USE DEF Sound
<1>1. CopiesStep /\ \A m \in Message : OneCopy(m)
  BY NextCopies DEF OneCopyInv, OneCopy
<1>2. \A c \in copies : c.msg \in Message /\ AtHome(c) /\ WaitedInOrder(c) /\ KeyKept(c)
  BY CopyFacts
\* A copy of a message for which nothing was waited in this step.
<1>3. ASSUME NEW e \in copies, waited'[e.msg] = waited[e.msg]
      PROVE  AtHome(e) /\ WaitedInOrder(e)' /\ KeyKept(e)
  BY <1>2, <1>3 DEF WaitedInOrder
<1> SUFFICES ASSUME NEW e \in copies'
             PROVE  AtHome(e) /\ WaitedInOrder(e)' /\ KeyKept(e)
  BY DEF SoundCopies, AtHome, KeyKept
<1>4. ASSUME NEW d, Added(d), WaitedInOrder(d)', UNCHANGED waited
      PROVE  AtHome(e) /\ WaitedInOrder(e)' /\ KeyKept(e)
  BY <1>3, <1>4 DEF Added
<1>5. ASSUME NEW c, copies' = copies \ {c}, UNCHANGED waited
      PROVE  AtHome(e) /\ WaitedInOrder(e)' /\ KeyKept(e)
  BY <1>3, <1>5
<1>6. ASSUME NEW c \in copies, NEW d, Replaced(c, d), WaitedInOrder(d)',
             \A n \in Message : n # c.msg => waited'[n] = waited[n]
      PROVE  AtHome(e) /\ WaitedInOrder(e)' /\ KeyKept(e)
  <2>1. CASE e = d
    BY <1>6, <2>1 DEF Replaced
  <2>2. CASE e # d
    <3>1. e \in copies /\ e # c
      BY <1>6, <2>2 DEF Replaced
    <3>2. e.msg # c.msg
      BY <1>1, <1>2, <3>1, ReadyIsOne
    <3> QED
      BY <1>2, <1>3, <1>6, <3>1, <3>2
  <2> QED
    BY <2>1, <2>2
<1>7. ASSUME NEW r \in Admin, ReplayPublish(r)
      PROVE  AtHome(e) /\ WaitedInOrder(e)' /\ KeyKept(e)
  <2>1. PICK c : replay[r].held = c
    OBVIOUS
  <2>2. /\ c.msg \in Message /\ At(r, "publish")
        /\ waited' = [waited EXCEPT ![c.msg] = <<>>]
        /\ \/ \E d : Added(d) /\ d.msg = c.msg /\ WaitedInOrder(d)'
           \/ UNCHANGED copies
    BY <1>7, <2>1, ReplayPublishStep
  <2>3. ASSUME e \in copies PROVE waited'[e.msg] = waited[e.msg]
    <3>1. e.msg # c.msg /\ e.msg \in Message
      BY <1>1, <1>2, <2>1, <2>2, <2>3, HeldIsOne
    <3> QED
      BY <2>2, <3>1 DEF TypeOK
  <2>4. CASE e \in copies
    BY <1>3, <2>3, <2>4
  <2>5. CASE e \notin copies
    BY <2>2, <2>5 DEF Added
  <2> QED
    BY <2>4, <2>5
<1>8. ASSUME UNCHANGED <<copies, waited>>
      PROVE  AtHome(e) /\ WaitedInOrder(e)' /\ KeyKept(e)
  BY <1>3, <1>8
<1>9. \A r \in Admin : ReplayGet(r) => UNCHANGED waited /\ \E c : copies' = copies \ {c}
  BY DEF ReplayGet
<1> QED
  BY <1>1, <1>4, <1>5, <1>6, <1>7, <1>8, <1>9
  DEF CopiesStep, Removed, PublishNew

LEMMA NextSoundHeld ==
  ASSUME Sound, OneCopyInv, [Next]_vars PROVE SoundHeld'
<1> USE DEF Sound
<1>1. CopiesStep
  BY NextCopies DEF OneCopyInv, OneCopy
<1> SUFFICES ASSUME NEW q \in Admin, At(q, "publish")'
             PROVE  /\ replay'[q].held \in Copy
                    /\ InDLQ(replay'[q].held) /\ AtHome(replay'[q].held)
  BY DEF SoundHeld, InDLQ, AtHome
<1>2. CASE replay'[q] = replay[q]
  BY <1>2 DEF SoundHeld, At
<1>3. ASSUME NEW r \in Admin, ReplayGet(r)
      PROVE  /\ replay'[q].held \in Copy
             /\ InDLQ(replay'[q].held) /\ AtHome(replay'[q].held)
  <2>1. CASE q = r
    BY <1>3, <2>1, ReplayGetStep, CopyFacts
  <2>2. CASE q # r
    BY <1>2, <1>3, <2>2, ReplayGetStep
  <2> QED
    BY <2>1, <2>2
<1>4. ASSUME NEW r \in Admin, ReplayPublish(r) PROVE replay'[q] = replay[q]
  BY <1>4, ReplayPublishEnds
<1>5. replay'[q] = replay[q] \/ \E r \in Admin : ReplayGet(r)
  BY <1>1, <1>4 DEF CopiesStep, Removed, Replaced
<1> QED
  BY <1>2, <1>3, <1>5

-----------------------------------------------------------------------------
(* What a replay counts                                                    *)

\* ReplayCounts, of one request.
CountsOf(q) ==
  /\ At(q, "new") => replay[q].replayed = 0
  /\ replay[q].replayed = replay[q].moved
  /\ replay[q].replayed <= replay[q].limit
  /\ At(q, "publish") => replay[q].replayed < replay[q].limit
  /\ \A d \in dropped : d[2] = q => At(q, "done") /\ replay[q].code = "500"

\* What one request does leaves the others alone.
LEMMA OtherCounts ==
  ASSUME NEW q, CountsOf(q), replay'[q] = replay[q], NEW m, NEW r, r # q,
         UNCHANGED dropped \/ dropped' = dropped \cup {<<m, r>>}
  PROVE  CountsOf(q)'
<1>1. \A d \in dropped' : d[2] = q => d \in dropped
  OBVIOUS
<1> QED
  BY <1>1 DEF CountsOf, At

\* A request that has not ended has dropped nothing.
LEMMA OwnCounts ==
  ASSUME NEW q, CountsOf(q), ~At(q, "done"), UNCHANGED dropped,
         replay'[q].pc # "new",
         replay'[q].replayed = replay'[q].moved,
         replay'[q].replayed <= replay'[q].limit,
         replay'[q].pc = "publish" => replay'[q].replayed < replay'[q].limit
  PROVE  CountsOf(q)'
<1>1. \A d \in dropped' : d[2] # q
  BY DEF CountsOf
<1> QED
  BY <1>1 DEF CountsOf, At

\* The limit of a request that starts.
LEMMA ReplayStartCounts ==
  ASSUME Sound, NEW q \in Admin, CountsOf(q), NEW ch \in Channel \cup {"none"},
         NEW n \in Limit, ReplayStart(q, ch, n)
  PROVE  CountsOf(q)'
<1>1. replay \in [Admin -> ReplayRec] /\ replay[q] \in ReplayRec
  BY DEF Sound, TypeOK
<1>2. replay[q].pc = "new" /\ UNCHANGED dropped
  BY DEF ReplayStart, At
<1>3. replay[q].replayed = 0 /\ replay[q].moved = 0
  BY <1>2 DEF CountsOf, At
<1>4. CASE ch \notin Channel \/ n = 0
  <2>1. replay' = [replay EXCEPT ![q] =
          [replay[q] EXCEPT !.pc = "done", !.code = "400"]]
    BY <1>4 DEF ReplayStart
  <2>2. /\ replay'[q].pc = "done" /\ replay'[q].replayed = 0
        /\ replay'[q].moved = 0 /\ replay'[q].limit = replay[q].limit
    BY <1>1, <1>3, <2>1 DEF ReplayRec
  <2> QED
    BY <1>2, <1>3, <2>2, OwnCounts DEF CountsOf, At
<1>5. CASE ~(ch \notin Channel \/ n = 0)
  <2>1. replay' = [replay EXCEPT ![q] =
          [replay[q] EXCEPT !.pc = "get", !.channel = ch,
                            !.limit = ReplayLimit(n)]]
    BY <1>5 DEF ReplayStart
  <2>2. ReplayLimit(n) \in Nat
    BY <1>5, TopologyAssumption DEF ReplayLimit
  <2>3. /\ replay'[q].pc = "get" /\ replay'[q].replayed = 0
        /\ replay'[q].moved = 0 /\ replay'[q].limit \in Nat
    BY <1>1, <1>3, <2>1, <2>2 DEF ReplayRec
  <2> QED
    BY <1>2, <2>3, OwnCounts DEF At
<1> QED
  BY <1>4, <1>5

\* A publish counts what it has put back; a failed one ends the request.
LEMMA ReplayPublishCounts ==
  ASSUME Sound, NEW q \in Admin, CountsOf(q), ReplayPublish(q)
  PROVE  CountsOf(q)'
<1>1. PICK c : replay[q].held = c
  OBVIOUS
<1> DEFINE m == c.msg
<1>2. /\ At(q, "publish")
      /\ \/ UNCHANGED dropped
            /\ replay' = [replay EXCEPT ![q].pc = "get", ![q].held = NoCopy,
                 ![q].replayed = @ + 1, ![q].moved = @ + 1]
         \/ (UNCHANGED dropped \/ dropped' = dropped \cup {<<m, q>>})
            /\ replay' = [replay EXCEPT ![q].pc = "done",
                 ![q].held = NoCopy, ![q].code = "500"]
  BY <1>1, ReplayPublishStep
<1>3. replay \in [Admin -> ReplayRec] /\ replay[q] \in ReplayRec
  BY DEF Sound, TypeOK
<1>4. /\ replay[q].replayed \in Nat /\ replay[q].limit \in Nat
      /\ replay[q].replayed < replay[q].limit
      /\ replay[q].replayed = replay[q].moved
  BY <1>2, <1>3 DEF CountsOf, ReplayRec
<1>5. CASE /\ UNCHANGED dropped
           /\ replay' = [replay EXCEPT ![q].pc = "get", ![q].held = NoCopy,
                ![q].replayed = @ + 1, ![q].moved = @ + 1]
  <2>1. /\ replay'[q].pc = "get"
        /\ replay'[q].replayed = replay[q].replayed + 1
        /\ replay'[q].moved = replay[q].moved + 1
        /\ replay'[q].limit = replay[q].limit
    BY <1>3, <1>5 DEF ReplayRec
  <2>2. replay'[q].replayed <= replay'[q].limit
    BY <1>4, <2>1
  <2> QED
    BY <1>2, <1>4, <1>5, <2>1, <2>2, OwnCounts DEF At
<1>6. CASE replay' = [replay EXCEPT ![q].pc = "done", ![q].held = NoCopy,
                                    ![q].code = "500"]
  <2>1. /\ replay'[q].pc = "done" /\ replay'[q].code = "500"
        /\ replay'[q].replayed = replay[q].replayed
        /\ replay'[q].moved = replay[q].moved
        /\ replay'[q].limit = replay[q].limit
    BY <1>3, <1>6 DEF ReplayRec
  <2> QED
    BY <1>4, <2>1 DEF CountsOf, At
<1> QED
  BY <1>2, <1>5, <1>6

\* A request gets its next letter, or leaves the loop.
LEMMA ReplayLoopCounts ==
  ASSUME Sound, NEW q \in Admin, CountsOf(q),
         ReplayGet(q) \/ ReplayLoopEnds(q) \/ ReplayGetFails(q) \/ ReplayInspect(q)
  PROVE  CountsOf(q)'
<1>1. replay \in [Admin -> ReplayRec] /\ replay[q] \in ReplayRec
  BY DEF Sound, TypeOK
<1>2. ~At(q, "done") /\ UNCHANGED dropped
  BY DEF ReplayGet, ReplayLoopEnds, ReplayGetFails, ReplayInspect, At
<1>3. /\ replay'[q].replayed = replay[q].replayed
      /\ replay'[q].moved = replay[q].moved
      /\ replay'[q].limit = replay[q].limit
      /\ replay'[q].pc \in {"publish", "inspect", "done"}
      /\ replay'[q].pc = "publish" => replay[q].replayed < replay[q].limit
  <2>1. CASE ReplayGet(q)
    <3>1. PICK c \in copies :
            replay' = [replay EXCEPT ![q].pc = "publish", ![q].held = c]
      BY <2>1 DEF ReplayGet, DeadLetters
    <3>2. replay[q].replayed < replay[q].limit
      BY <2>1 DEF ReplayGet
    <3> QED
      BY <1>1, <3>1, <3>2 DEF ReplayRec
  <2>2. CASE ReplayLoopEnds(q)
    BY <1>1, <2>2 DEF ReplayLoopEnds, ReplayRec
  <2>3. CASE ReplayGetFails(q)
    BY <1>1, <2>3 DEF ReplayGetFails, ReplayRec
  <2>4. CASE ReplayInspect(q)
    BY <1>1, <2>4 DEF ReplayInspect, ReplayRec
  <2> QED
    BY <2>1, <2>2, <2>3, <2>4
<1> QED
  BY <1>2, <1>3, OwnCounts DEF CountsOf

\* Only the step of a request changes it.
LEMMA ReplayStepOther ==
  ASSUME Sound, NEW r \in Admin, NEW q \in Admin, q # r, CountsOf(q),
         \/ \E ch \in Channel \cup {"none"}, n \in Limit : ReplayStart(r, ch, n)
         \/ Replay(r)
  PROVE  CountsOf(q)'
<1>1. replay \in [Admin -> ReplayRec]
  BY DEF Sound, TypeOK
<1>2. CASE ReplayPublish(r)
  <2>1. PICK c : replay[r].held = c
    OBVIOUS
  <2>2. UNCHANGED dropped \/ \E m : dropped' = dropped \cup {<<m, r>>}
    BY <1>2, <2>1, ReplayPublishStep
  <2>3. replay'[q] = replay[q]
    BY <1>2, ReplayPublishEnds
  <2> QED
    BY <2>2, <2>3, OtherCounts
<1>3. CASE ~ReplayPublish(r)
  <2>1. replay'[q] = replay[q] /\ UNCHANGED dropped
    BY <1>1, <1>3
    DEF ReplayStart, Replay, ReplayGet, ReplayLoopEnds, ReplayGetFails,
        ReplayInspect
  <2> QED
    BY <2>1, OtherCounts
<1> QED
  BY <1>2, <1>3

LEMMA NextReplayCounts ==
  ASSUME Sound, ReplayCounts, [Next]_vars PROVE ReplayCounts'
<1>1. \A q \in Admin : CountsOf(q)
  BY DEF ReplayCounts, CountsOf
<1> SUFFICES ASSUME NEW q \in Admin PROVE CountsOf(q)'
  BY DEF ReplayCounts, CountsOf, At
<1>2. CASE UNCHANGED <<replay, dropped>>
  BY <1>1, <1>2 DEF CountsOf, At
<1>3. ASSUME NEW c \in copies, Work(c) PROVE CountsOf(q)'
  <2>1. /\ UNCHANGED replay
        /\ UNCHANGED dropped \/ \E m : dropped' = dropped \cup {<<m, Worker>>}
    <3>1. Removed(c) \/ \E d : Replaced(c, d)
      BY <1>3, WorkEffect DEF Sound
    <3> QED
      BY <3>1 DEF Removed, Replaced
  <2>2. Worker # q
    BY TopologyAssumption
  <2> QED
    BY <1>1, <2>1, <2>2, OtherCounts
<1>4. ASSUME NEW r \in Admin,
             \/ \E ch \in Channel \cup {"none"}, n \in Limit : ReplayStart(r, ch, n)
             \/ Replay(r)
      PROVE  CountsOf(q)'
  <2>1. CASE q = r
    BY <1>1, <1>4, <2>1, ReplayStartCounts, ReplayPublishCounts, ReplayLoopCounts
    DEF Replay
  <2>2. CASE q # r
    BY <1>1, <1>4, <2>2, ReplayStepOther
  <2> QED
    BY <2>1, <2>2
<1> QED
  BY <1>2, <1>3, <1>4 DEF Next, PublishNew, Expire, vars

-----------------------------------------------------------------------------
(* The invariant, and what it gives                                        *)

LEMMA InitIInv == Init => IInv
<1> SUFFICES ASSUME Init PROVE IInv
  OBVIOUS
<1>1. TypeOK
  BY InitTypeOK
<1>2. copies = {} /\ api = {} /\ settled = {} /\ dropped = {}
  BY DEF Init
<1>3. SoundCopies
  BY <1>2 DEF SoundCopies
<1>4. \A r \in Admin : /\ replay[r].pc = "new" /\ replay[r].replayed = 0
                       /\ replay[r].moved = 0 /\ replay[r].limit = 0
  BY DEF Init
<1>5. SoundHeld
  BY <1>4 DEF SoundHeld, At
<1>6. ReplayCounts
  BY <1>2, <1>4 DEF ReplayCounts, At
<1>7. ASSUME NEW m \in Message PROVE OneCopy(m)
  <2>1. Ready(m) = {} /\ Held(m) = {} /\ ~Gone(m) /\ m \notin api
    BY <1>2, <1>4 DEF Ready, Held, Gone, At
  <2>2. waited[m] = <<>>
    BY DEF Init
  <2> QED
    BY <2>1, <2>2 DEF OneCopy
<1>8. OneCopyInv
  BY <1>2, <1>7, FS_EmptySet DEF OneCopyInv
<1> QED
  BY <1>1, <1>3, <1>5, <1>6, <1>8 DEF IInv

LEMMA NextIInv == IInv /\ [Next]_vars => IInv'
<1> SUFFICES ASSUME IInv, [Next]_vars PROVE IInv'
  OBVIOUS
<1>1. Sound /\ OneCopyInv /\ ReplayCounts
  BY DEF IInv, Sound
<1>2. TypeOK'
  BY <1>1, NextTypeOK
<1>3. SoundCopies'
  BY <1>1, NextSoundCopies
<1>4. SoundHeld'
  BY <1>1, NextSoundHeld
<1>5. OneCopyInv'
  BY <1>1, NextFinite, NextOneCopy DEF OneCopyInv
<1>6. ReplayCounts'
  BY <1>1, NextReplayCounts
<1> QED
  BY <1>2, <1>3, <1>4, <1>5, <1>6 DEF IInv

\* The inductive invariant holds in every reachable state.
THEOREM InvariantHolds == Spec => []IInv
  BY InitIInv, NextIInv, PTL DEF Spec

\* Every routing key, header and replay request keeps its type, for any
\* channels, priorities, messages and limits (topology.go:88-205,
\* handler_admin.go:126-214).
THEOREM TopologyTypeCorrect == Spec => []TypeOK
<1>1. IInv => TypeOK
  BY DEF IInv
<1> QED
  BY <1>1, InvariantHolds, PTL

\* A copy is always on its own channel and priority, or in its channel's DLQ
\* with the key that leads it back, after any number of retries and replays
\* (topology.go:88-205, retry_publisher.go:25-66, deliver.go:228-264).
THEOREM EveryCopyIsAtHomeHolds == Spec => []EveryCopyIsAtHome
<1>1. IInv => EveryCopyIsAtHome
  BY DEF IInv, SoundCopies, AtHome, EveryCopyIsAtHome
<1> QED
  BY <1>1, InvariantHolds, PTL

\* x-attempt is the number of TTLs that a notification has waited for, level
\* by level, with MaxAttempts levels (deliver.go:228-264).
THEOREM WaitsForEveryLevelHolds == Spec => []WaitsForEveryLevel
<1>1. IInv => WaitsForEveryLevel
  BY DEF IInv, SoundCopies, WaitedInOrder, WaitsForEveryLevel
<1> QED
  BY <1>1, InvariantHolds, PTL

\* No publish goes to an unbound key or to two queues: a published message is
\* in one queue or with one request until it is delivered or dropped
\* (publisher.go:38-56, topology.go:88-205).
THEOREM EveryMessageHasOneCopyHolds == Spec => []EveryMessageHasOneCopy
<1>1. ASSUME NEW m \in api, OneCopy(m)
      PROVE  Cardinality(Ready(m)) + Cardinality(Held(m)) = IF Gone(m) THEN 0 ELSE 1
  <2>0. Cardinality({}) = 0
    BY FS_EmptySet
  <2>1. CASE Gone(m)
    <3>1. Ready(m) = {} /\ Held(m) = {}
      BY <1>1, <2>1 DEF OneCopy
    <3> QED
      BY <2>0, <2>1, <3>1
  <2>2. CASE ~Gone(m) /\ Ready(m) # {}
    <3>1. PICK c : c \in Ready(m)
      BY <2>2
    <3>2. Ready(m) = {c} /\ Held(m) = {}
      BY <1>1, <2>2, <3>1 DEF OneCopy
    <3>3. Cardinality({c}) = 1
      BY FS_Singleton
    <3> QED
      BY <2>0, <2>2, <3>2, <3>3
  <2>3. CASE ~Gone(m) /\ Ready(m) = {}
    <3>1. PICK r : r \in Held(m)
      BY <1>1, <2>3 DEF OneCopy
    <3>2. Held(m) = {r}
      BY <1>1, <3>1 DEF OneCopy
    <3>3. Cardinality({r}) = 1
      BY FS_Singleton
    <3> QED
      BY <2>0, <2>3, <3>2, <3>3
  <2> QED
    BY <2>1, <2>2, <2>3
<1>2. IInv => EveryMessageHasOneCopy
  <2> SUFFICES ASSUME IInv, NEW m \in api
               PROVE  Cardinality(Ready(m)) + Cardinality(Held(m))
                        = IF Gone(m) THEN 0 ELSE 1
    BY DEF EveryMessageHasOneCopy, Ready, Held, Gone
  <2>1. OneCopy(m)
    BY DEF IInv, OneCopyInv, TypeOK
  <2> QED
    BY <1>1, <2>1
<1> QED
  BY <1>2, InvariantHolds, PTL

\* A replay answered 200 has put back as many letters as it says, at most its
\* limit, and has discarded none (handler_admin.go:155-214).
THEOREM ReplayAnswerIsTrueHolds == Spec => []ReplayAnswerIsTrue
<1>1. IInv => ReplayAnswerIsTrue
  BY DEF IInv, ReplayCounts, ReplayAnswerIsTrue
<1> QED
  BY <1>1, InvariantHolds, PTL
=============================================================================
