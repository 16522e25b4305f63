-------------------------- MODULE SubmissionProofs --------------------------
(***************************************************************************)
(* Machine-checked proofs about Submission, for every number of requests,  *)
(* items of a batch, channels, keys, tokens and faults.                    *)
(***************************************************************************)
EXTENDS SubmissionInvariant, FunctionTheorems, FiniteSetTheorems, TLAPS

-----------------------------------------------------------------------------
(* Ids and counts                                                          *)

\* A request's items are numbered from 1, and its ids are its own.
LEMMA Items1 ==
  ASSUME NEW r \in Request
  PROVE  /\ DOMAIN Items[r] = 1..Len(Items[r]) /\ Len(Items[r]) \in Nat \ {0}
         /\ 1 \in DOMAIN Items[r]
         /\ Len(Items[r]) \in DOMAIN Items[r]
         /\ r \notin Batch => DOMAIN Items[r] = {1}
<1>1. Items[r] \in Seq(Channel) /\ Len(Items[r]) > 0
  BY SubmissionAssumption
<1>2. DOMAIN Items[r] = 1..Len(Items[r]) /\ Len(Items[r]) \in Nat
  BY <1>1
<1>3. ASSUME r \notin Batch PROVE DOMAIN Items[r] = {1}
  <2>1. Len(Items[r]) = 1
    BY <1>3, SubmissionAssumption
  <2> QED
    BY <2>1, <1>2
<1>4. 1 \in 1..Len(Items[r]) /\ Len(Items[r]) \in 1..Len(Items[r])
  BY <1>1, <1>2
<1> QED
  BY <1>1, <1>2, <1>3, <1>4

LEMMA IdsAreOwn ==
  ASSUME NEW r \in Request
  PROVE  /\ IdsOf(r) \subseteq Id
         /\ \A id \in IdsOf(r) : id[1] = r /\ id = <<r, id[2]>> /\ id[2] \in DOMAIN Items[r]
         /\ \A i \in DOMAIN Items[r] : <<r, i>> \in IdsOf(r)
  BY DEF IdsOf, Id

LEMMA IdOwner == \A id \in Id : id[1] \in Request /\ id \in IdsOf(id[1])
  BY DEF IdsOf, Id

LEMMA CountType ==
  ASSUME NEW r \in Request, NEW c
  PROVE  Count(r, c) \in Nat
<1> DEFINE S == {i \in DOMAIN Items[r] : Items[r][i] = c}
<1>1. IsFiniteSet(DOMAIN Items[r])
  BY Items1, FS_Interval
<1>2. IsFiniteSet(S)
  BY <1>1, FS_Subset
<1>3. Cardinality(S) \in Nat
  BY <1>2, FS_CardinalityType
<1> QED
  BY <1>3 DEF Count

\* A batch has no key, so that a keyed request has one notification.
LEMMA KeyedIsSingle ==
  ASSUME NEW r \in Request, KeyOf[r] # NoKey
  PROVE  r \notin Batch /\ IdsOf(r) = {<<r, 1>>}
<1>1. r \notin Batch
  BY SubmissionAssumption
<1> QED
  BY <1>1, Items1 DEF IdsOf

LEMMA AnswerIdType ==
  ASSUME NEW r \in Request
  PROVE  AnswerId(r) \in Id \cup {NoId}
  BY Items1, IdsAreOwn DEF AnswerId

LEMMA FaultStep ==
  ASSUME faults \in 0..MaxFaults, NoFault \/ \E k \in FaultKinds : Fault(k)
  PROVE  faults' \in 0..MaxFaults /\ faults' >= faults
  BY SubmissionAssumption DEF NoFault, Fault

-----------------------------------------------------------------------------
(* Token buckets                                                           *)

\* ReserveN: a call that does not go back in time makes no tokens: what the
\* bucket has more, time has filled in.
LEMMA ReserveNBucket ==
  ASSUME NEW b \in BucketRec, NEW n \in Nat, NEW t \in Nat
  PROVE  /\ ReserveN(b, n, t) \in BucketRec
         /\ ReserveN(b, n, t).last = t
         /\ b.last <= t => ReserveN(b, n, t).tokens - t <= b.tokens - b.last - n
<1>1. b.tokens \in Int /\ b.last \in Nat /\ Burst \in Nat
  BY BurstAssumption DEF BucketRec
<1>2. /\ Advanced(b, t) \in Int
      /\ b.last <= t => Advanced(b, t) <= b.tokens + (t - b.last)
  BY <1>1 DEF Advanced, Capped
<1> DEFINE left == Advanced(b, t) - n
<1>3. left \in Int /\ (left < 0 => t - left \in Nat)
  BY <1>2
<1>4. ReserveN(b, n, t) =
        [tokens |-> left, last |-> t, lastEvent |-> IF left < 0 THEN t - left ELSE t]
  BY DEF ReserveN
<1>5. ReserveN(b, n, t) \in BucketRec
  BY <1>3, <1>4 DEF BucketRec
<1> QED
  BY <1>1, <1>2, <1>4, <1>5

\* CancelAt: of a reservation that is not due after the latest one, no more
\* than it took comes back.
LEMMA CancelAtBucket ==
  ASSUME NEW b \in BucketRec, NEW n \in Nat, NEW due \in Nat, NEW t \in Nat
  PROVE  /\ CancelAt(b, n, due, t) \in BucketRec
         /\ CancelAt(b, n, due, t).last \in {b.last, t}
         /\ Restorable(b, n, due, t) > 0 /\ b.last <= t /\ due <= b.lastEvent
              => CancelAt(b, n, due, t).tokens - CancelAt(b, n, due, t).last
                   <= b.tokens - b.last + n
<1>1. /\ b.tokens \in Int /\ b.last \in Nat /\ b.lastEvent \in Nat /\ Burst \in Nat
  BY BurstAssumption DEF BucketRec
<1>2. /\ Advanced(b, t) \in Int
      /\ b.last <= t => Advanced(b, t) <= b.tokens + (t - b.last)
  BY <1>1 DEF Advanced, Capped
<1> DEFINE k == Restorable(b, n, due, t)
           left == Capped(Advanced(b, t) + k)
           event == IF due = b.lastEvent /\ due - n >= t THEN due - n ELSE b.lastEvent
<1>3. k \in Int /\ (k > 0 /\ due <= b.lastEvent => k <= n)
  BY <1>1 DEF Restorable
<1>4. left \in Int /\ left <= Advanced(b, t) + k /\ event \in Nat
  BY <1>1, <1>2, <1>3 DEF Capped
<1>5. CASE k <= 0
  BY <1>1, <1>5 DEF CancelAt
<1>6. CASE k > 0
  <2>1. CancelAt(b, n, due, t) = [tokens |-> left, last |-> t, lastEvent |-> event]
    BY <1>3, <1>6 DEF CancelAt
  <2>2. CancelAt(b, n, due, t) \in BucketRec
    BY <1>4, <2>1 DEF BucketRec
  <2>3. b.last <= t /\ due <= b.lastEvent => left - t <= b.tokens - b.last + n
    BY <1>1, <1>2, <1>3, <1>4, <1>6
  <2> QED
    BY <2>1, <2>2, <2>3, <1>6
<1> QED
  BY <1>3, <1>5, <1>6

\* The time that a step notes, and the time that a call brings, are past.
LEMMA LookTime ==
  ASSUME TypeOK, TimesArePast, NEW r \in Request, Look(r)
  PROVE  /\ seen' \in [Request -> 0..MaxTicks]
         /\ \A s \in Request : seen'[s] <= clock
<1>1. /\ MaxTicks \in Nat /\ clock \in 0..MaxTicks /\ seen \in [Request -> 0..MaxTicks]
      /\ \A s \in Request : seen[s] <= clock
  BY SubmissionAssumption DEF TypeOK, TimesArePast
<1>2. PICK t \in {clock, 0} : seen' = [seen EXCEPT ![r] = t]
  BY DEF Look
<1>3. t \in 0..MaxTicks /\ t <= clock
  BY <1>1
<1> QED
  BY <1>1, <1>2, <1>3

LEMMA NowTime ==
  ASSUME TypeOK, NEW r \in Request, NEW t \in Now(r)
  PROVE  t \in Nat /\ t <= clock /\ clock \in Nat
  BY SubmissionAssumption DEF TypeOK, Now

-----------------------------------------------------------------------------
(* The beginning                                                           *)

LEMMA InitIInv == Init => IInv
<1> SUFFICES ASSUME Init PROVE IInv
  OBVIOUS
<1>1. TypeOK
  <2>1. FullBucket(0) \in BucketRec
    BY BurstAssumption DEF FullBucket, BucketRec
  <2> QED
    BY <2>1, SubmissionAssumption DEF Init, TypeOK, RequestPC, Code
<1>2. restarts <= faults /\ TimesArePast
  BY DEF Init, TimesArePast, FullBucket
<1>3. Progress
  BY IdsAreOwn DEF Init, Progress, NoTrace, BeforeCreate
<1>4. OneRowPerKey /\ AcceptedIsStored /\ RejectedLeavesNoTrace
  BY DEF Init, OneRowPerKey, AcceptedIsStored, RejectedLeavesNoTrace, Answered
<1>5. PublishedOnceAfterStored
  BY DEF Init, PublishedOnceAfterStored
<1> QED
  BY <1>1, <1>2, <1>3, <1>4, <1>5 DEF IInv

-----------------------------------------------------------------------------
(* Types                                                                   *)

Response == [code : Code, id : Id \cup {NoId}]

\* What a step of request r does to the control: r moves to p, and is
\* answered exactly when p is the end; the others stay.
Moves(r, p, a) ==
  /\ pc' = [pc EXCEPT ![r] = p]
  /\ answer' = [answer EXCEPT ![r] = a]
  /\ p \in RequestPC
  /\ a \in Response
  /\ p # "done" => a = answer[r]
  /\ p = "done" => a.code # "none"

LEMMA AnswerMoves ==
  ASSUME TypeOK, NEW r \in Request, NEW code \in Code \ {"none"},
         NEW id \in Id \cup {NoId}, Answer(r, code, id)
  PROVE  Moves(r, "done", [code |-> code, id |-> id])
  BY DEF TypeOK, Answer, Goto, Moves, RequestPC, Response

LEMMA ContinueMoves ==
  ASSUME TypeOK, NEW r \in Request, NEW p \in RequestPC \ {"done"}, Continue(r, p)
  PROVE  Moves(r, p, answer[r])
  BY DEF TypeOK, Continue, Goto, Moves, Response

LEMMA MovesType ==
  ASSUME TypeOK, NEW r \in Request, NEW p, NEW a, Moves(r, p, a)
  PROVE  /\ pc' \in [Request -> RequestPC]
         /\ answer' \in [Request -> [code : Code, id : Id \cup {NoId}]]
         /\ pc'[r] = p /\ answer'[r] = a
         /\ \A s \in Request \ {r} : pc'[s] = pc[s] /\ answer'[s] = answer[s]
  BY DEF TypeOK, Moves, Response

\* The part of a step of request r that the others do not see: rows and
\* messages of its own ids only, and its own place in its loops.
Own(r) ==
  /\ rows \subseteq rows' /\ rows' \subseteq rows \cup IdsOf(r)
  /\ \A id \in Id \ IdsOf(r) : sent'[id] = sent[id]
  /\ \A s \in Request \ {r} : next'[s] = next[s] /\ held'[s] = held[s]

\* What r must establish for itself.
OwnProgress(r, p, a) ==
  /\ p = "giveBack" => held'[r] \in Reservation
  /\ p \in BeforeCreate => next'[r] = 1
  /\ p \in BeforeCreate \/ a.code \in {"400", "429"} => NoTrace(r)'
  /\ p = "publish" =>
       /\ IdsOf(r) \subseteq rows'
       /\ next'[r] \in DOMAIN Items[r]
       /\ \A i \in DOMAIN Items[r] : i >= next'[r] => sent'[<<r, i>>] = 0
  /\ a.code = "202" /\ KeyOf[r] # NoKey => a.id \in RowsWithKey(KeyOf[r])'
  /\ \A id \in IdsOf(r) : sent'[id] <= 1 /\ (sent'[id] = 1 => id \in rows')

Facts == Progress /\ AcceptedIsStored /\ RejectedLeavesNoTrace /\ PublishedOnceAfterStored

\* A step that is r's own and establishes r's part keeps everybody's.
LEMMA OwnStep ==
  ASSUME TypeOK, Facts, NEW r \in Request, pc[r] # "done", NEW p, NEW a,
         Moves(r, p, a), Own(r), OwnProgress(r, p, a)
  PROVE  Facts'
<1> USE DEF Facts
<1>1. /\ pc'[r] = p /\ answer'[r] = a
      /\ \A s \in Request \ {r} : pc'[s] = pc[s] /\ answer'[s] = answer[s]
  BY MovesType
<1>2. \A s \in Request \ {r} : \A id \in IdsOf(s) :
        /\ id \in Id /\ id \notin IdsOf(r)
        /\ sent'[id] = sent[id] /\ (id \in rows' <=> id \in rows)
  <2> SUFFICES ASSUME NEW s \in Request \ {r}, NEW id \in IdsOf(s)
               PROVE  /\ id \in Id /\ id \notin IdsOf(r)
                      /\ sent'[id] = sent[id] /\ (id \in rows' <=> id \in rows)
    OBVIOUS
  <2>1. id \in Id /\ id[1] = s
    BY IdsAreOwn
  <2>2. id \notin IdsOf(r)
    BY <2>1, IdsAreOwn
  <2> QED
    BY <2>1, <2>2 DEF Own
<1>3. Progress'
  <2> SUFFICES ASSUME NEW s \in Request
               PROVE  /\ answer'[s].code = "none" <=> pc'[s] # "done"
                      /\ pc'[s] = "giveBack" => held'[s] \in Reservation
                      /\ pc'[s] \in BeforeCreate => NoTrace(s)' /\ next'[s] = 1
                      /\ pc'[s] = "publish" =>
                           /\ IdsOf(s) \subseteq rows'
                           /\ next'[s] \in DOMAIN Items[s]
                           /\ \A i \in DOMAIN Items[s] :
                                i >= next'[s] => sent'[<<s, i>>] = 0
    BY DEF Progress
  <2>1. CASE s = r
    <3>1. answer[r].code = "none" <=> pc[r] # "done"
      BY DEF Progress
    <3> QED
      BY <1>1, <2>1, <3>1 DEF OwnProgress, Moves, NoTrace
  <2>2. CASE s # r
    <3>1. pc'[s] = pc[s] /\ answer'[s] = answer[s] /\ next'[s] = next[s]
          /\ held'[s] = held[s]
      BY <1>1, <2>2 DEF Own
    <3>2. NoTrace(s) => NoTrace(s)'
      BY <1>2, <2>2 DEF NoTrace
    <3>3. IdsOf(s) \subseteq rows => IdsOf(s) \subseteq rows'
      BY DEF Own
    <3>4. \A i \in DOMAIN Items[s] : sent'[<<s, i>>] = sent[<<s, i>>]
      BY <1>2, <2>2, IdsAreOwn
    <3> QED
      BY <3>1, <3>2, <3>3, <3>4 DEF Progress
  <2> QED
    BY <2>1, <2>2
<1>4. AcceptedIsStored'
  <2> SUFFICES ASSUME NEW s \in Request, Answered(s, "202")', KeyOf[s] # NoKey
               PROVE  answer'[s].id \in RowsWithKey(KeyOf[s])'
    BY DEF AcceptedIsStored
  <2>1. CASE s = r
    BY <1>1, <2>1 DEF OwnProgress, Answered
  <2>2. CASE s # r
    BY <1>1, <2>2 DEF AcceptedIsStored, Answered, RowsWithKey, Own
  <2> QED
    BY <2>1, <2>2
<1>5. RejectedLeavesNoTrace'
  <2> SUFFICES ASSUME NEW s \in Request, Answered(s, "400")' \/ Answered(s, "429")'
               PROVE  NoTrace(s)'
    BY DEF RejectedLeavesNoTrace, NoTrace
  <2>1. CASE s = r
    BY <1>1, <2>1 DEF OwnProgress, Answered
  <2>2. CASE s # r
    <3>1. NoTrace(s)
      BY <1>1, <2>2 DEF RejectedLeavesNoTrace, NoTrace, Answered
    <3> QED
      BY <1>2, <2>2, <3>1 DEF NoTrace
  <2> QED
    BY <2>1, <2>2
<1>6. PublishedOnceAfterStored'
  <2> SUFFICES ASSUME NEW id \in Id
               PROVE  sent'[id] <= 1 /\ (sent'[id] = 1 => id \in rows')
    BY DEF PublishedOnceAfterStored
  <2>1. CASE id \in IdsOf(r)
    BY <2>1 DEF OwnProgress
  <2>2. CASE id \notin IdsOf(r)
    BY <2>2 DEF Own, PublishedOnceAfterStored
  <2> QED
    BY <2>1, <2>2
<1> QED
  BY <1>3, <1>4, <1>5, <1>6

\* A step that leaves rows and messages alone before r's insert.
LEMMA StepBeforeCreate ==
  ASSUME TypeOK, Facts, NEW r \in Request, pc[r] \in BeforeCreate,
         NEW p \in BeforeCreate \cup {"done"}, NEW a, Moves(r, p, a),
         UNCHANGED <<next, rows, sent>>,
         \A s \in Request \ {r} : held'[s] = held[s],
         p = "giveBack" => held'[r] \in Reservation,
         p = "done" /\ a.code = "202" /\ KeyOf[r] # NoKey
           => a.id \in RowsWithKey(KeyOf[r])
  PROVE  Facts'
<1>1. /\ NoTrace(r) /\ answer[r].code = "none" /\ pc[r] # "done"
      /\ next[r] = 1
  BY DEF Facts, Progress, BeforeCreate
<1>2. NoTrace(r)'
  BY <1>1 DEF NoTrace
<1>3. a.code = "202" => p = "done"
  BY <1>1 DEF Moves
<1>4. \A id \in IdsOf(r) : sent'[id] <= 1 /\ (sent'[id] = 1 => id \in rows')
  BY <1>2 DEF NoTrace
<1>5. p # "publish"
  BY DEF BeforeCreate
<1>6. RowsWithKey(KeyOf[r])' = RowsWithKey(KeyOf[r])
  BY DEF RowsWithKey
<1>7. Own(r)
  BY DEF Own
<1>8. OwnProgress(r, p, a)
  BY <1>1, <1>2, <1>3, <1>4, <1>5, <1>6 DEF OwnProgress
<1> QED
  BY <1>1, <1>7, <1>8, OwnStep

-----------------------------------------------------------------------------
(* The actions                                                             *)

LEMMA ReceiveStep ==
  ASSUME IInv, NEW r \in Request, Receive(r)
  PROVE  IInv'
<1> USE DEF IInv
<1>1. PICK p \in {"charge", "done"}, a \in Response :
        Moves(r, p, a) /\ (p = "done" => a.code = "400")
  <2>1. CASE Answer(r, "400", NoId)
    <3>1. Moves(r, "done", [code |-> "400", id |-> NoId])
      BY <2>1, AnswerMoves DEF Code
    <3> QED
      BY <3>1 DEF Moves
  <2>2. CASE Continue(r, "charge")
    BY <2>2, ContinueMoves DEF Moves, RequestPC
  <2> QED
    BY <2>1, <2>2 DEF Receive
<1>2. UNCHANGED <<limiter, next, rows, sent, faults>> /\ pc[r] = "new"
  BY DEF Receive
<1>3. TypeOK' /\ TimesArePast'
  <2>1. /\ seen' \in [Request -> 0..MaxTicks]
        /\ \A s \in Request : seen'[s] <= clock
    BY LookTime DEF Receive
  <2> QED
    BY <1>1, <1>2, <2>1, MovesType DEF TypeOK, TimesArePast, limiter
<1>4. Facts'
  BY <1>1, <1>2, StepBeforeCreate DEF Facts, BeforeCreate, limiter
<1>5. OneRowPerKey' /\ (restarts <= faults)'
  BY <1>2 DEF OneRowPerKey, limiter
<1> QED
  BY <1>3, <1>4, <1>5 DEF Facts

\* What the last bucket's answer decides is one move.
LEMMA ChargedMoves ==
  ASSUME TypeOK, NEW r \in Request, NEW c, NEW ok \in BOOLEAN, Charged(r, c, ok)
  PROVE  /\ \E p \in {"charge", "create", "lookup", "done"}, a \in Response :
              Moves(r, p, a) /\ (p = "done" => a.code = "429")
         /\ todo' \in [Request -> SUBSET Channel]
         /\ limited' \in [Request -> BOOLEAN]
<1>1. ASSUME Answer(r, "429", NoId)
      PROVE  Moves(r, "done", [code |-> "429", id |-> NoId])
  BY <1>1, AnswerMoves DEF Code
<1>2. ASSUME NEW p \in {"charge", "create", "lookup"}, Continue(r, p)
      PROVE  Moves(r, p, answer[r])
  BY <1>2, ContinueMoves DEF RequestPC
<1>3. \/ Answer(r, "429", NoId)
      \/ \E p \in {"charge", "create", "lookup"} : Continue(r, p)
  BY DEF Charged
<1>4. todo' \in [Request -> SUBSET Channel] /\ limited' \in [Request -> BOOLEAN]
  BY DEF Charged, TypeOK
<1> QED
  BY <1>1, <1>2, <1>3, <1>4 DEF Moves

\* A reservation, due now or pending, leaves a bucket of which all is past.
LEMMA AllowChannelBucket ==
  ASSUME TypeOK, TimesArePast, NEW r \in Request, NEW c \in Channel, AllowChannel(r, c)
  PROVE  /\ bucket' \in [Channel -> BucketRec] /\ skewed' \in [Channel -> BOOLEAN]
         /\ \A d \in Channel : bucket'[d].last <= clock
         /\ \A d \in Channel \ {c} : bucket'[d] = bucket[d] /\ skewed'[d] = skewed[d]
<1>1. /\ bucket \in [Channel -> BucketRec] /\ skewed \in [Channel -> BOOLEAN]
      /\ \A d \in Channel : bucket[d].last <= clock
  BY DEF TypeOK, TimesArePast
<1>2. CASE UNCHANGED <<bucket, skewed>>
  BY <1>1, <1>2
<1>3. CASE \E t \in Now(r) :
             /\ bucket' = [bucket EXCEPT ![c] = ReserveN(bucket[c], Count(r, c), t)]
             /\ skewed' = [skewed EXCEPT ![c] = @ \/ t < bucket[c].last]
  <2>1. PICK t \in Now(r) :
             /\ bucket' = [bucket EXCEPT ![c] = ReserveN(bucket[c], Count(r, c), t)]
             /\ skewed' = [skewed EXCEPT ![c] = @ \/ t < bucket[c].last]
    BY <1>3
  <2>2. t \in Nat /\ t <= clock
    BY NowTime
  <2>3. /\ ReserveN(bucket[c], Count(r, c), t) \in BucketRec
        /\ ReserveN(bucket[c], Count(r, c), t).last = t
    BY <1>1, <2>2, CountType, ReserveNBucket
  <2> QED
    BY <1>1, <2>1, <2>2, <2>3
<1> QED
  BY <1>2, <1>3 DEF AllowChannel

LEMMA AllowChannelStep ==
  ASSUME IInv, NEW r \in Request, NEW c \in Channel, AllowChannel(r, c)
  PROVE  IInv'
<1> USE DEF IInv
<1>1. /\ pc[r] = "charge" /\ Look(r)
      /\ UNCHANGED <<next, rows, sent, clock, restarts, faults>>
  BY DEF AllowChannel
<1>2. /\ bucket' \in [Channel -> BucketRec] /\ skewed' \in [Channel -> BOOLEAN]
      /\ \A d \in Channel : bucket'[d].last <= clock
      /\ seen' \in [Request -> 0..MaxTicks]
      /\ \A s \in Request : seen'[s] <= clock
  BY <1>1, AllowChannelBucket, LookTime
<1>3. TimesArePast'
  BY <1>1, <1>2 DEF TimesArePast
<1>4. CASE UNCHANGED held /\ \E ok \in BOOLEAN : Charged(r, c, ok)
  <2>1. PICK p \in {"charge", "create", "lookup", "done"}, a \in Response :
          Moves(r, p, a) /\ (p = "done" => a.code = "429")
    BY <1>4, ChargedMoves
  <2>2. TypeOK'
    BY <1>1, <1>2, <1>4, <2>1, ChargedMoves, MovesType DEF TypeOK
  <2>3. Facts'
    BY <1>1, <1>4, <2>1, StepBeforeCreate DEF Facts, BeforeCreate
  <2> QED
    BY <1>1, <1>3, <2>2, <2>3 DEF Facts, OneRowPerKey
<1>5. CASE /\ \E h \in Reservation : held' = [held EXCEPT ![r] = h]
           /\ Continue(r, "giveBack") /\ UNCHANGED <<todo, limited>>
  <2>1. Moves(r, "giveBack", answer[r])
    BY <1>5, ContinueMoves DEF RequestPC
  <2>2. held' \in [Request -> Reservation \cup {NoReservation}]
        /\ held'[r] \in Reservation
        /\ \A s \in Request \ {r} : held'[s] = held[s]
    BY <1>5 DEF TypeOK
  <2>3. TypeOK'
    BY <1>1, <1>2, <1>5, <2>1, <2>2, MovesType DEF TypeOK
  <2>4. Facts'
    BY <1>1, <2>1, <2>2, StepBeforeCreate DEF Facts, BeforeCreate
  <2> QED
    BY <1>1, <1>3, <2>3, <2>4 DEF Facts, OneRowPerKey
<1>6. ASSUME NEW t \in Now(r),
             held' = [held EXCEPT ![r] =
               [channel |-> c, due |-> ReserveN(bucket[c], Count(r, c), t).lastEvent]]
      PROVE  \E h \in Reservation : held' = [held EXCEPT ![r] = h]
  <2>1. ReserveN(bucket[c], Count(r, c), t) \in BucketRec
    BY NowTime, CountType, ReserveNBucket DEF TypeOK
  <2> QED
    BY <1>6, <2>1 DEF Reservation, BucketRec
<1> QED
  BY <1>4, <1>5, <1>6 DEF AllowChannel

LEMMA GiveBackBucket ==
  ASSUME IInv, NEW r \in Request, GiveBack(r)
  PROVE  /\ bucket' \in [Channel -> BucketRec] /\ skewed' \in [Channel -> BOOLEAN]
         /\ \A d \in Channel : bucket'[d].last <= clock
         /\ held[r].channel \in Channel
         /\ \A d \in Channel \ {held[r].channel} :
              bucket'[d] = bucket[d] /\ skewed'[d] = skewed[d]
<1> DEFINE c == held[r].channel
           b(t) == CancelAt(bucket[c], Count(r, c), held[r].due, t)
<1>1. /\ bucket \in [Channel -> BucketRec] /\ skewed \in [Channel -> BOOLEAN]
      /\ \A d \in Channel : bucket[d].last <= clock
      /\ c \in Channel /\ held[r].due \in Nat
  BY DEF IInv, TypeOK, TimesArePast, Progress, GiveBack, Reservation
<1>2. PICK t \in Now(r) :
        /\ bucket' = [bucket EXCEPT ![c] = b(t)]
        /\ skewed' = [skewed EXCEPT ![c] =
             @ \/ /\ Restorable(bucket[c], Count(r, c), held[r].due, t) > 0
                  /\ t < bucket[c].last \/ bucket[c].lastEvent < held[r].due]
  BY DEF GiveBack
<1>3. t \in Nat /\ t <= clock
  BY NowTime DEF IInv
<1>4. b(t) \in BucketRec /\ b(t).last \in {bucket[c].last, t}
  BY <1>1, <1>3, CountType, CancelAtBucket
<1> QED
  BY <1>1, <1>2, <1>3, <1>4

LEMMA GiveBackStep ==
  ASSUME IInv, NEW r \in Request, GiveBack(r)
  PROVE  IInv'
<1> USE DEF IInv
<1>1. /\ pc[r] = "giveBack" /\ Look(r)
      /\ UNCHANGED <<next, rows, sent, clock, restarts, faults>>
      /\ held' = [held EXCEPT ![r] = NoReservation]
      /\ Charged(r, held[r].channel, FALSE)
  BY DEF GiveBack
<1>2. /\ bucket' \in [Channel -> BucketRec] /\ skewed' \in [Channel -> BOOLEAN]
      /\ \A d \in Channel : bucket'[d].last <= clock
      /\ seen' \in [Request -> 0..MaxTicks]
      /\ \A s \in Request : seen'[s] <= clock
  BY <1>1, GiveBackBucket, LookTime
<1>3. TimesArePast'
  BY <1>1, <1>2 DEF TimesArePast
<1>4. PICK p \in {"charge", "create", "lookup", "done"}, a \in Response :
        Moves(r, p, a) /\ (p = "done" => a.code = "429")
  BY <1>1, ChargedMoves
<1>5. held' \in [Request -> Reservation \cup {NoReservation}]
      /\ \A s \in Request \ {r} : held'[s] = held[s]
  BY <1>1 DEF TypeOK
<1>6. TypeOK'
  BY <1>1, <1>2, <1>4, <1>5, ChargedMoves, MovesType DEF TypeOK
<1>7. Facts'
  BY <1>1, <1>4, <1>5, StepBeforeCreate DEF Facts, BeforeCreate
<1> QED
  BY <1>1, <1>3, <1>6, <1>7 DEF Facts, OneRowPerKey

LEMMA LookupStep ==
  ASSUME IInv, NEW r \in Request, Lookup(r)
  PROVE  IInv'
<1> USE DEF IInv
<1>1. pc[r] = "lookup" /\ UNCHANGED <<limiter, seen, next, rows, sent>>
  BY DEF Lookup
<1>2. faults' \in 0..MaxFaults /\ faults' >= faults
  BY FaultStep, SubmissionAssumption DEF Lookup, Fault, TypeOK
<1>3. PICK p \in {"create", "done"}, a \in Response :
        /\ Moves(r, p, a)
        /\ p = "done" /\ a.code = "202" => a.id \in RowsWithKey(KeyOf[r])
        /\ p = "done" => a.code \in {"202", "500"}
  <2>1. ASSUME NEW id \in RowsWithKey(KeyOf[r]), Answer(r, "202", id)
        PROVE  Moves(r, "done", [code |-> "202", id |-> id])
    <3>1. id \in Id
      BY DEF RowsWithKey, TypeOK
    <3> QED
      BY <2>1, <3>1, AnswerMoves DEF Code
  <2>2. ASSUME Continue(r, "create")
        PROVE  Moves(r, "create", answer[r])
    BY <2>2, ContinueMoves DEF RequestPC
  <2>3. ASSUME Answer(r, "500", NoId)
        PROVE  Moves(r, "done", [code |-> "500", id |-> NoId])
    BY <2>3, AnswerMoves DEF Code
  <2>4. CASE \E id \in RowsWithKey(KeyOf[r]) : Answer(r, "202", id)
    <3>1. PICK id \in RowsWithKey(KeyOf[r]) : Answer(r, "202", id)
      BY <2>4
    <3>2. Moves(r, "done", [code |-> "202", id |-> id])
      BY <2>1, <3>1
    <3> QED
      BY <3>2 DEF Moves
  <2>5. CASE Continue(r, "create")
    BY <2>2, <2>5 DEF Moves
  <2>6. CASE Answer(r, "500", NoId)
    <3>1. Moves(r, "done", [code |-> "500", id |-> NoId])
      BY <2>3, <2>6
    <3> QED
      BY <3>1 DEF Moves
  <2> QED
    BY <2>4, <2>5, <2>6 DEF Lookup
<1>4. TypeOK'
  BY <1>1, <1>2, <1>3, MovesType DEF TypeOK, limiter
<1>5. Facts'
  BY <1>1, <1>3, StepBeforeCreate DEF Facts, BeforeCreate, limiter
<1>6. (restarts <= faults)' /\ TimesArePast'
  BY <1>1, <1>2 DEF TypeOK, TimesArePast, limiter
<1> QED
  BY <1>1, <1>4, <1>5, <1>6 DEF Facts, OneRowPerKey

\* The insert of rows that do not conflict keeps one row per key.
LEMMA InsertKeepsKeys ==
  ASSUME TypeOK, OneRowPerKey, NEW r \in Request, ~Conflict(r),
         rows' = Inserted(r)
  PROVE  OneRowPerKey'
<1> SUFFICES ASSUME NEW id \in rows', NEW jd \in rows',
                    KeyOf[id[1]] = KeyOf[jd[1]], KeyOf[id[1]] # NoKey
             PROVE  id = jd
  BY DEF OneRowPerKey
<1>1. id \in rows \cup IdsOf(r) /\ jd \in rows \cup IdsOf(r)
  BY DEF Inserted
<1>2. CASE KeyOf[r] = NoKey
  BY <1>1, <1>2, IdsAreOwn DEF OneRowPerKey
<1>3. CASE KeyOf[r] # NoKey
  <2>1. \A kd \in rows : KeyOf[kd[1]] # KeyOf[r]
    BY <1>3 DEF Conflict, RowsWithKey
  <2>2. \A kd \in IdsOf(r) : kd = <<r, 1>> /\ kd[1] = r
    BY <1>3, KeyedIsSingle
  <2> QED
    BY <1>1, <2>1, <2>2 DEF OneRowPerKey
<1> QED
  BY <1>2, <1>3

LEMMA CreateStep ==
  ASSUME IInv, NEW r \in Request, Create(r)
  PROVE  IInv'
<1> USE DEF IInv
<1>1. pc[r] = "create" /\ UNCHANGED <<limiter, seen, next, sent>>
  BY DEF Create
<1>2. faults' \in 0..MaxFaults /\ faults' >= faults
  BY FaultStep, SubmissionAssumption DEF Create, Fault, TypeOK
<1>3. rows' = rows \/ (rows' = Inserted(r) /\ ~Conflict(r))
  BY DEF Create
<1>4. rows \subseteq rows' /\ rows' \subseteq rows \cup IdsOf(r) /\ rows' \subseteq Id
  BY <1>3, IdsAreOwn DEF Inserted, TypeOK
<1>5. OneRowPerKey'
  <2>1. CASE rows' = rows
    BY <2>1 DEF OneRowPerKey
  <2>2. CASE rows' = Inserted(r) /\ ~Conflict(r)
    BY <2>2, InsertKeepsKeys
  <2> QED
    BY <1>3, <2>1, <2>2
<1>6. Own(r)
  BY <1>1, <1>4 DEF Own, limiter
<1>7. /\ \A id \in IdsOf(r) : sent'[id] = 0
      /\ next'[r] = 1 /\ NoTrace(r)
  BY <1>1 DEF Progress, BeforeCreate, NoTrace
<1>8. TypeOK' /\ Facts'
  <2>1. CASE Answer(r, "400", NoId) /\ UNCHANGED rows
    <3> DEFINE a == [code |-> "400", id |-> NoId]
    <3>1. Moves(r, "done", a)
      BY <2>1, AnswerMoves DEF Code
    <3>2. OwnProgress(r, "done", a)
      BY <1>7, <2>1 DEF OwnProgress, NoTrace, BeforeCreate
    <3>3. TypeOK'
      BY <1>1, <1>2, <1>4, <3>1, MovesType DEF TypeOK, limiter
    <3> HIDE DEF a
    <3> QED
      BY <1>1, <1>6, <3>1, <3>2, <3>3, OwnStep DEF Facts
  <2>2. CASE Answer(r, "500", NoId)
    <3> DEFINE a == [code |-> "500", id |-> NoId]
    <3>1. Moves(r, "done", a)
      BY <2>2, AnswerMoves DEF Code
    <3>2. OwnProgress(r, "done", a)
      BY <1>7 DEF OwnProgress, BeforeCreate
    <3>3. TypeOK'
      BY <1>1, <1>2, <1>4, <3>1, MovesType DEF TypeOK, limiter
    <3> HIDE DEF a
    <3> QED
      BY <1>1, <1>6, <3>1, <3>2, <3>3, OwnStep DEF Facts
  <2>3. CASE Continue(r, "publish") /\ rows' = Inserted(r)
    <3>1. Moves(r, "publish", answer[r])
      BY <2>3, ContinueMoves DEF RequestPC
    <3>2. answer[r].code = "none"
      BY <1>1 DEF Progress
    <3>3. IdsOf(r) \subseteq rows'
      BY <2>3 DEF Inserted
    <3>4. next'[r] \in DOMAIN Items[r]
      BY <1>7, Items1
    <3>5. \A i \in DOMAIN Items[r] : sent'[<<r, i>>] = 0
      BY <1>7, IdsAreOwn
    <3>6. OwnProgress(r, "publish", answer[r])
      BY <1>7, <3>2, <3>3, <3>4, <3>5 DEF OwnProgress, BeforeCreate
    <3>7. TypeOK'
      BY <1>1, <1>2, <1>4, <3>1, MovesType DEF TypeOK, limiter
    <3> QED
      BY <1>1, <1>6, <3>1, <3>6, <3>7, OwnStep DEF Facts
  <2> QED
    BY <2>1, <2>2, <2>3 DEF Create
<1>9. (restarts <= faults)' /\ TimesArePast'
  BY <1>1, <1>2 DEF TypeOK, TimesArePast, limiter
<1> QED
  BY <1>5, <1>8, <1>9 DEF Facts

\* Where a publish leaves the request, whether its message got out or not.
LEMMA PublishedMoves ==
  ASSUME IInv, NEW r \in Request, pc[r] = "publish",
         Published(r) \/ (Answer(r, "500", NoId) /\ UNCHANGED next)
  PROVE  /\ next' \in [Request -> Nat]
         /\ \A s \in Request \ {r} : next'[s] = next[s]
         /\ \E p \in {"publish", "done"}, a \in Response :
              /\ Moves(r, p, a)
              /\ p = "publish" => next'[r] = next[r] + 1 /\ next'[r] \in DOMAIN Items[r]
              /\ a.code \in {"none", "202", "500"}
              /\ a.code = "202" => a.id = AnswerId(r)
<1> USE DEF IInv
<1>1. next[r] \in DOMAIN Items[r] /\ next \in [Request -> Nat]
      /\ answer[r].code = "none"
  BY DEF Progress, TypeOK
<1>2. CASE Answer(r, "500", NoId) /\ UNCHANGED next
  <2>1. Moves(r, "done", [code |-> "500", id |-> NoId])
    BY <1>2, AnswerMoves DEF Code
  <2> QED
    BY <1>1, <1>2, <2>1 DEF Moves
<1>3. CASE Published(r)
  <2>1. next' = [next EXCEPT ![r] = @ + 1]
    BY <1>3 DEF Published
  <2>2. next[r] + 1 \in Nat
    BY <1>1
  <2>3. next' \in [Request -> Nat] /\ next'[r] = next[r] + 1
        /\ \A s \in Request \ {r} : next'[s] = next[s]
    BY <1>1, <2>1, <2>2
  <2>4. CASE next[r] < Len(Items[r]) /\ Continue(r, "publish")
    <3>1. Moves(r, "publish", answer[r])
      BY <2>4, ContinueMoves DEF RequestPC
    <3>2. next'[r] \in DOMAIN Items[r]
      BY <1>1, <2>3, <2>4, Items1
    <3> QED
      BY <1>1, <2>3, <3>1, <3>2 DEF Moves
  <2>5. CASE Answer(r, "202", AnswerId(r))
    <3>1. Moves(r, "done", [code |-> "202", id |-> AnswerId(r)])
      BY <2>5, AnswerIdType, AnswerMoves DEF Code
    <3> QED
      BY <2>3, <3>1 DEF Moves
  <2> QED
    BY <1>3, <2>4, <2>5 DEF Published
<1> QED
  BY <1>2, <1>3

LEMMA PublishStep ==
  ASSUME IInv, NEW r \in Request, Publish(r)
  PROVE  IInv'
<1> USE DEF IInv
<1> DEFINE n == <<r, next[r]>>
<1>1. pc[r] = "publish" /\ UNCHANGED <<limiter, seen, rows>>
  BY DEF Publish
<1>2. faults' \in 0..MaxFaults /\ faults' >= faults
  BY FaultStep, SubmissionAssumption DEF Publish, Fault, TypeOK
<1>3. /\ IdsOf(r) \subseteq rows /\ next[r] \in DOMAIN Items[r]
      /\ \A i \in DOMAIN Items[r] : i >= next[r] => sent[<<r, i>>] = 0
  BY <1>1 DEF Progress
<1>4. n \in IdsOf(r) /\ IdsOf(r) \subseteq Id /\ DOMAIN Items[r] \subseteq Nat
  BY <1>3, IdsAreOwn, Items1
<1>5. sent[n] = 0 /\ sent \in [Id -> Nat]
  BY <1>3, Items1 DEF TypeOK
<1>6. /\ sent' \in [Id -> Nat]
      /\ \A id \in Id \ {n} : sent'[id] = sent[id]
      /\ sent'[n] <= 1
  <2>1. sent' = sent \/ sent' = [sent EXCEPT ![n] = @ + 1]
    BY DEF Publish
  <2>2. sent[n] + 1 = 1
    BY <1>5
  <2> QED
    BY <1>4, <1>5, <2>1, <2>2
<1>7. PICK p \in {"publish", "done"}, a \in Response :
        /\ Moves(r, p, a)
        /\ p = "publish" => next'[r] = next[r] + 1 /\ next'[r] \in DOMAIN Items[r]
        /\ a.code \in {"none", "202", "500"}
        /\ a.code = "202" => a.id = AnswerId(r)
  BY <1>1, PublishedMoves DEF Publish
<1>8. next' \in [Request -> Nat] /\ \A s \in Request \ {r} : next'[s] = next[s]
  BY <1>1, PublishedMoves DEF Publish
<1>9. Own(r)
  BY <1>1, <1>4, <1>6, <1>8 DEF Own, limiter
<1>10. OwnProgress(r, p, a)
  <2>1. \A i \in DOMAIN Items[r] : i >= next[r] + 1 => sent'[<<r, i>>] = 0
    <3> SUFFICES ASSUME NEW i \in DOMAIN Items[r], i >= next[r] + 1
                 PROVE  sent'[<<r, i>>] = 0
      OBVIOUS
    <3>1. i >= next[r] /\ i # next[r]
      BY <1>3, <1>4
    <3>2. <<r, i>> \in Id \ {n}
      BY <3>1, IdsAreOwn
    <3> QED
      BY <1>3, <1>6, <3>1, <3>2
  <2>2. a.code = "202" /\ KeyOf[r] # NoKey => a.id \in RowsWithKey(KeyOf[r])'
    <3> SUFFICES ASSUME a.code = "202", KeyOf[r] # NoKey
                 PROVE  a.id \in RowsWithKey(KeyOf[r])'
      OBVIOUS
    <3>1. a.id = <<r, 1>>
      BY <1>7, KeyedIsSingle DEF AnswerId
    <3>2. <<r, 1>> \in rows'
      BY <1>1, <1>3, KeyedIsSingle
    <3> QED
      BY <3>1, <3>2 DEF RowsWithKey
  <2>3. \A id \in IdsOf(r) : sent'[id] <= 1 /\ (sent'[id] = 1 => id \in rows')
    BY <1>1, <1>3, <1>4, <1>6 DEF PublishedOnceAfterStored
  <2> QED
    BY <1>1, <1>3, <1>7, <2>1, <2>2, <2>3 DEF OwnProgress, BeforeCreate
<1>11. TypeOK'
  BY <1>1, <1>2, <1>6, <1>7, <1>8, MovesType DEF TypeOK, limiter
<1>12. Facts'
  BY <1>1, <1>7, <1>9, <1>10, OwnStep DEF Facts
<1>13. OneRowPerKey' /\ (restarts <= faults)' /\ TimesArePast'
  BY <1>1, <1>2 DEF TypeOK, OneRowPerKey, TimesArePast, limiter
<1> QED
  BY <1>11, <1>12, <1>13 DEF Facts

LEMMA TickStep ==
  ASSUME IInv, Tick
  PROVE  IInv'
<1> USE DEF IInv
<1>1. /\ clock \in 0..MaxTicks /\ clock < MaxTicks /\ clock' = clock + 1
      /\ UNCHANGED <<pc, todo, held, limited, seen, next, answer, rows, sent, bucket,
                     skewed, restarts, faults>>
  BY DEF Tick, TypeOK
<1>2. clock' \in 0..MaxTicks
  BY <1>1, SubmissionAssumption
<1>3. TypeOK'
  BY <1>1, <1>2 DEF TypeOK
<1>4. TimesArePast'
  <2>1. /\ \A c \in Channel : bucket[c].last \in Nat
        /\ \A r \in Request : seen[r] \in Nat
    BY SubmissionAssumption DEF TypeOK, BucketRec
  <2> QED
    BY <1>1, <2>1 DEF TimesArePast
<1> QED
  BY <1>1, <1>3, <1>4 DEF Progress, NoTrace, OneRowPerKey, AcceptedIsStored, Answered,
     RowsWithKey, RejectedLeavesNoTrace, PublishedOnceAfterStored

LEMMA RestartStep ==
  ASSUME IInv, Restart
  PROVE  IInv'
<1> USE DEF IInv
<1>1. /\ faults < MaxFaults /\ faults' = faults + 1 /\ restarts' = restarts + 1
      /\ UNCHANGED <<todo, limited, next, rows, sent, skewed, clock>>
      /\ seen' = [r \in Request |-> 0]
      /\ bucket' = [c \in Channel |-> FullBucket(clock)]
  BY DEF Restart, Fault
<1>2. \A r \in Request :
        \/ pc'[r] = pc[r] /\ answer'[r] = answer[r] /\ pc[r] \in {"new", "done"}
        \/ /\ pc'[r] = "done" /\ pc[r] # "done"
           /\ answer'[r] = [code |-> "lost", id |-> NoId]
  BY DEF Restart, Running
<1>3. restarts' \in 0..MaxFaults /\ faults' \in 0..MaxFaults /\ restarts' <= faults'
  BY <1>1, SubmissionAssumption DEF TypeOK
<1>4. TypeOK'
  <2>1. pc' \in [Request -> RequestPC]
    BY DEF Restart, TypeOK, RequestPC
  <2>2. answer' \in [Request -> [code : Code, id : Id \cup {NoId}]]
    BY DEF Restart, TypeOK, Code
  <2>3. held' \in [Request -> Reservation \cup {NoReservation}]
    BY DEF Restart
  <2>4. FullBucket(clock) \in BucketRec
    BY SubmissionAssumption, BurstAssumption DEF FullBucket, BucketRec, TypeOK
  <2> QED
    BY <1>1, <1>3, <2>1, <2>2, <2>3, <2>4, SubmissionAssumption DEF TypeOK
<1>5. Progress'
  BY <1>1, <1>2 DEF Progress, NoTrace, BeforeCreate
<1>6. AcceptedIsStored'
  BY <1>1, <1>2 DEF AcceptedIsStored, Answered, RowsWithKey
<1>7. RejectedLeavesNoTrace'
  BY <1>1, <1>2 DEF RejectedLeavesNoTrace, Answered
<1>8. TimesArePast'
  BY <1>1, SubmissionAssumption DEF TimesArePast, FullBucket, TypeOK
<1> QED
  BY <1>1, <1>3, <1>4, <1>5, <1>6, <1>7, <1>8 DEF OneRowPerKey, PublishedOnceAfterStored

-----------------------------------------------------------------------------
(* The theorems                                                            *)

LEMMA NextStep == IInv /\ [Next]_vars => IInv'
<1> SUFFICES ASSUME IInv, [Next]_vars PROVE IInv'
  OBVIOUS
<1>1. CASE UNCHANGED vars
  BY <1>1 DEF IInv, vars, TypeOK, TimesArePast, Progress, NoTrace, OneRowPerKey,
     AcceptedIsStored, Answered, RowsWithKey, RejectedLeavesNoTrace, PublishedOnceAfterStored
<1>2. ASSUME NEW r \in Request, Receive(r) PROVE IInv'
  BY <1>2, ReceiveStep
<1>3. ASSUME NEW r \in Request, Serve(r) PROVE IInv'
  BY <1>3, AllowChannelStep, GiveBackStep, LookupStep, CreateStep, PublishStep DEF Serve
<1>4. CASE Tick
  BY <1>4, TickStep
<1>5. CASE Restart
  BY <1>5, RestartStep
<1> QED
  BY <1>1, <1>2, <1>3, <1>4, <1>5 DEF Next

\* The inductive invariant: where every request stands tells its rows and its
\* messages, in every interleaving of handlers, faults and restarts.
THEOREM SubmissionInvariantHolds == Spec => []IInv
<1>1. Init => IInv
  BY InitIInv
<1>2. IInv /\ [Next]_vars => IInv'
  BY NextStep
<1> QED
  BY <1>1, <1>2, PTL DEF Spec

\* Every reachable state of the API, its table, its buckets and the queues has
\* the types that TypeOK declares.
THEOREM SubmissionTypeCorrect == Spec => []TypeOK
<1>1. IInv => TypeOK
  BY DEF IInv
<1> QED
  BY <1>1, SubmissionInvariantHolds, PTL

\* CreateWithIdempotency and the unique index of migration 0003: accepted
\* requests with one key are all answered with the one row of that key.
THEOREM SameKeySameNotificationHolds == Spec => []SameKeySameNotification
<1>1. IInv => SameKeySameNotification
  <2> SUFFICES ASSUME IInv, NEW r \in Request, NEW s \in Request,
                      KeyOf[r] = KeyOf[s], KeyOf[r] # NoKey,
                      Answered(r, "202"), Answered(s, "202")
               PROVE  /\ answer[r].id = answer[s].id
                      /\ RowsWithKey(KeyOf[r]) = {answer[r].id}
    BY DEF SameKeySameNotification
  <2>1. answer[r].id \in RowsWithKey(KeyOf[r]) /\ answer[s].id \in RowsWithKey(KeyOf[r])
    BY DEF IInv, AcceptedIsStored
  <2>2. \A id, jd \in RowsWithKey(KeyOf[r]) : id = jd
    BY DEF IInv, OneRowPerKey, RowsWithKey
  <2> QED
    BY <2>1, <2>2
<1> QED
  BY <1>1, SubmissionInvariantHolds, PTL

\* create, createBatch and Validate: a request that is refused, by validation
\* or by a bucket, has neither stored a row nor published a message.
THEOREM RejectedLeavesNoTraceHolds == Spec => []RejectedLeavesNoTrace
<1>1. IInv => RejectedLeavesNoTrace
  BY DEF IInv
<1> QED
  BY <1>1, SubmissionInvariantHolds, PTL

\* publishOne after Insert: a message follows its row and is never published
\* twice, whatever the broker, the database or a restart does in between.
THEOREM PublishedOnceAfterStoredHolds == Spec => []PublishedOnceAfterStored
<1>1. IInv => PublishedOnceAfterStored
  BY DEF IInv
<1> QED
  BY <1>1, SubmissionInvariantHolds, PTL

-----------------------------------------------------------------------------
(* Tokens and what they were given for                                     *)

\* A request is charged as many tokens of c as it has notifications for c.
LEMMA UnitsCounted ==
  ASSUME NEW r \in Request, NEW c
  PROVE  IsFiniteSet(UnitsOf(r, c)) /\ Cardinality(UnitsOf(r, c)) = Count(r, c)
<1> DEFINE S == {i \in DOMAIN Items[r] : Items[r][i] = c}
           f == [i \in S |-> <<r, i>>]
<1>1. IsFiniteSet(S)
  <2>1. IsFiniteSet(DOMAIN Items[r])
    BY Items1, FS_Interval
  <2> QED
    BY <2>1, FS_Subset
<1>2. f \in [S -> UnitsOf(r, c)]
  BY DEF UnitsOf, IdsOf
<1>3. \A id \in UnitsOf(r, c) : \E i \in S : f[i] = id
  BY DEF UnitsOf, IdsOf
<1>4. \A i, j \in S : f[i] = f[j] => i = j
  OBVIOUS
<1>5. f \in Bijection(S, UnitsOf(r, c))
  BY <1>2, <1>3, <1>4, Fun_IsBij
<1>6. ExistsBijection(S, UnitsOf(r, c))
  BY <1>5 DEF ExistsBijection
<1> QED
  BY <1>1, <1>6, FS_Bijection DEF Count

LEMMA FewerCost ==
  ASSUME NEW S, NEW T, IsFiniteSet(S), T \subseteq S
  PROVE  /\ IsFiniteSet(T) /\ Cardinality(T) \in Nat /\ Cardinality(S) \in Nat
         /\ Cardinality(T) <= Cardinality(S)
  BY FS_Subset, FS_CardinalityType

LEMMA MoreCost ==
  ASSUME NEW S, NEW T, IsFiniteSet(S), IsFiniteSet(T), S \cap T = {}
  PROVE  /\ IsFiniteSet(S \cup T)
         /\ Cardinality(S) \in Nat /\ Cardinality(T) \in Nat
         /\ Cardinality(S \cup T) = Cardinality(S) + Cardinality(T)
<1>1. Cardinality(S \cap T) = 0
  BY FS_EmptySet
<1>2. Cardinality(S) \in Nat /\ Cardinality(T) \in Nat
  BY FS_CardinalityType
<1>3. /\ IsFiniteSet(S \cup T)
      /\ Cardinality(S \cup T) = Cardinality(S) + Cardinality(T) - Cardinality(S \cap T)
  BY FS_Union
<1> QED
  BY <1>1, <1>2, <1>3

LEMMA FillsType == \A k \in Nat : Burst * (1 + k) \in Nat
<1> SUFFICES ASSUME NEW k \in Nat PROVE Burst * (1 + k) \in Nat
  OBVIOUS
<1>1. Burst \in Nat /\ 1 + k \in Nat
  BY BurstAssumption
<1> QED
  BY <1>1

LEMMA BudgetType ==
  ASSUME TypeOK, TimesArePast, NEW c \in Channel
  PROVE  /\ Budget(c) \in Nat /\ Filled(c) \in Nat /\ Filled(c) <= Budget(c)
         /\ bucket[c] \in BucketRec
         /\ bucket[c].tokens \in Int /\ bucket[c].last \in Nat /\ bucket[c].last <= clock
         /\ Budget(c) = Burst * (1 + restarts) + clock
         /\ Burst * (1 + restarts) \in Nat /\ clock \in Nat /\ Burst \in Nat
<1>1. Burst \in Nat /\ restarts \in Nat /\ clock \in Nat
  BY SubmissionAssumption, BurstAssumption DEF TypeOK
<1>2. Burst * (1 + restarts) \in Nat
  BY <1>1
<1>3. /\ bucket[c] \in BucketRec /\ bucket[c].last <= clock
      /\ bucket[c].tokens \in Int /\ bucket[c].last \in Nat
  BY DEF TypeOK, TimesArePast, BucketRec
<1>4. /\ Budget(c) = Burst * (1 + restarts) + clock
      /\ Filled(c) = Burst * (1 + restarts) + bucket[c].last
  BY DEF Budget, Filled
<1> HIDE DEF Budget, Filled
<1> QED
  BY <1>1, <1>2, <1>3, <1>4

\* The accounts in one inequality for what a bucket has and has given out.
LEMMA AccountsNow ==
  ASSUME IInv, BudgetKept, NEW c \in Channel
  PROVE  /\ IsFiniteSet(Granted(c)) /\ IsFiniteSet(Pending(c))
         /\ Cardinality(Granted(c)) \in Nat /\ Cardinality(Pending(c)) \in Nat
         /\ ~skewed[c] =>
              /\ Cardinality(Granted(c)) <= Burst * (1 + restarts) + clock
              /\ Cardinality(Granted(c)) + Cardinality(Pending(c))
                   + (bucket[c].tokens - bucket[c].last) <= Burst * (1 + restarts)
<1>1. /\ IsFiniteSet(Granted(c)) /\ IsFiniteSet(Pending(c))
      /\ Cardinality(Granted(c)) \in Nat /\ Cardinality(Pending(c)) \in Nat
  BY FS_CardinalityType DEF BudgetKept, WithinBudget
<1>2. /\ bucket[c].tokens \in Int /\ bucket[c].last \in Nat
      /\ Burst * (1 + restarts) \in Nat /\ clock \in Nat
  BY BudgetType DEF IInv
<1>3. ~skewed[c] =>
        /\ Cardinality(Granted(c)) <= Burst * (1 + restarts) + clock
        /\ Cardinality(Granted(c)) + bucket[c].tokens + Cardinality(Pending(c))
             <= Burst * (1 + restarts) + bucket[c].last
  BY DEF BudgetKept, WithinBudget, Budget, Filled
<1> QED
  BY <1>1, <1>2, <1>3

\* The accounts are kept when what is given out and what the bucket has left,
\* less the time of its latest call, do not grow together.
LEMMA AccountsNext ==
  ASSUME IInv', NEW c \in Channel,
         IsFiniteSet(Granted(c)'), IsFiniteSet(Pending(c)'),
         ~skewed'[c] =>
           /\ Cardinality(Granted(c)') <= Burst * (1 + restarts') + clock'
           /\ Cardinality(Granted(c)') + Cardinality(Pending(c)')
                + (bucket'[c].tokens - bucket'[c].last) <= Burst * (1 + restarts')
  PROVE  WithinBudget(c)'
<1>1. /\ Cardinality(Granted(c)') \in Nat /\ Cardinality(Pending(c)') \in Nat
  BY FS_CardinalityType
<1>2. /\ bucket'[c].tokens \in Int /\ bucket'[c].last \in Nat
      /\ Burst * (1 + restarts') \in Nat /\ clock' \in Nat
  <2>1. /\ bucket'[c].tokens \in Int /\ bucket'[c].last \in Nat
        /\ restarts' \in Nat /\ clock' \in Nat /\ Burst \in Nat
    BY SubmissionAssumption, BurstAssumption DEF IInv, TypeOK, BucketRec
  <2> QED
    BY <2>1, FillsType
<1>3. ~skewed'[c] =>
        /\ Cardinality(Granted(c)') <= Burst * (1 + restarts') + clock'
        /\ Cardinality(Granted(c)') + bucket'[c].tokens + Cardinality(Pending(c)')
             <= Burst * (1 + restarts') + bucket'[c].last
  BY <1>1, <1>2
<1> QED
  BY <1>3 DEF WithinBudget, Budget, Filled

\* What Charged does to r: the bucket of c is off its list, a refusal sticks,
\* and only a request that every bucket admitted goes on.
LEMMA ChargedEffect ==
  ASSUME TypeOK, NEW r \in Request, NEW c, NEW ok \in BOOLEAN, Charged(r, c, ok)
  PROVE  /\ todo'[r] = todo[r] \ {c} /\ (limited'[r] <=> limited[r] \/ ~ok)
         /\ \A s \in Request \ {r} :
              /\ todo'[s] = todo[s] /\ limited'[s] = limited[s]
              /\ pc'[s] = pc[s] /\ answer'[s] = answer[s]
         /\ pc'[r] \in {"charge", "create", "lookup", "done"}
         /\ pc'[r] \in {"create", "lookup"} => todo'[r] = {} /\ ~limited'[r]
         /\ pc'[r] = "lookup" => KeyOf[r] # NoKey
         /\ answer'[r] = answer[r] \/ answer'[r].code = "429"
<1>1. /\ todo' = [todo EXCEPT ![r] = @ \ {c}]
      /\ limited' = [limited EXCEPT ![r] = limited[r] \/ ~ok]
  BY DEF Charged
<1>2. /\ todo \in [Request -> SUBSET Channel] /\ limited \in [Request -> BOOLEAN]
      /\ pc \in [Request -> RequestPC]
      /\ answer \in [Request -> [code : Code, id : Id \cup {NoId}]]
  BY DEF TypeOK
<1>3. /\ todo'[r] = todo[r] \ {c} /\ (limited'[r] <=> limited[r] \/ ~ok)
      /\ \A s \in Request \ {r} : todo'[s] = todo[s] /\ limited'[s] = limited[s]
  BY <1>1, <1>2
<1>4. CASE todo[r] # {c} /\ Continue(r, "charge")
  BY <1>2, <1>3, <1>4 DEF Continue, Goto
<1>5. CASE Answer(r, "429", NoId)
  BY <1>2, <1>3, <1>5 DEF Answer, Goto
<1>6. CASE /\ todo[r] = {c} /\ ~(limited[r] \/ ~ok)
           /\ Continue(r, IF KeyOf[r] = NoKey THEN "create" ELSE "lookup")
  BY <1>2, <1>3, <1>6 DEF Continue, Goto
<1> QED
  BY <1>4, <1>5, <1>6 DEF Charged

\* What the other steps of r do to its control and its rows.
LEMMA ServiceEffect ==
  ASSUME TypeOK, NEW r \in Request,
         Receive(r) \/ Lookup(r) \/ Create(r) \/ Publish(r)
  PROVE  /\ UNCHANGED limiter
         /\ \A s \in Request \ {r} : pc'[s] = pc[s] /\ answer'[s] = answer[s]
         /\ pc[r] # "giveBack" /\ pc'[r] \in {"charge", "create", "publish", "done"}
         /\ pc'[r] \in {"create", "publish"} => pc[r] \in {"lookup", "create", "publish"}
         /\ rows' = rows \/ (pc[r] = "create" /\ rows' = Inserted(r) /\ ~Conflict(r))
<1>1. /\ pc \in [Request -> RequestPC]
      /\ answer \in [Request -> [code : Code, id : Id \cup {NoId}]]
  BY DEF TypeOK
<1>2. CASE Receive(r)
  BY <1>1, <1>2 DEF Receive, Answer, Continue, Goto
<1>3. CASE Lookup(r)
  BY <1>1, <1>3 DEF Lookup, Answer, Continue, Goto
<1>4. CASE Create(r)
  BY <1>1, <1>4 DEF Create, Answer, Continue, Goto
<1>5. CASE Publish(r)
  BY <1>1, <1>5 DEF Publish, Published, Answer, Continue, Goto
<1> QED
  BY <1>2, <1>3, <1>4, <1>5

LEMMA OwnUnits ==
  ASSUME NEW r \in Request, NEW c
  PROVE  UnitsOf(r, c) = {id \in Id : id[1] = r /\ Items[id[1]][id[2]] = c}
  BY IdsAreOwn, IdOwner DEF UnitsOf

\* A step that moves no token and grants none keeps the accounts of a bucket.
LEMMA SameAccounts ==
  ASSUME BudgetKept, NEW c \in Channel, Granted(c)' = Granted(c),
         Pending(c)' = Pending(c), bucket'[c] = bucket[c], skewed'[c] = skewed[c],
         UNCHANGED <<restarts, clock>>
  PROVE  WithinBudget(c)'
<1>1. Budget(c)' = Budget(c) /\ Filled(c)' = Filled(c)
  BY DEF Budget, Filled
<1> QED
  BY <1>1 DEF BudgetKept, WithinBudget

LEMMA ServiceAccounts ==
  ASSUME IInv, ChargedFirst, BudgetKept, NEW r \in Request,
         Receive(r) \/ Lookup(r) \/ Create(r) \/ Publish(r)
  PROVE  ChargedFirst' /\ BudgetKept'
<1>1. /\ UNCHANGED <<todo, limited, held, bucket, skewed, clock, restarts>>
      /\ \A s \in Request \ {r} : pc'[s] = pc[s]
      /\ pc[r] # "giveBack" /\ pc'[r] \in {"charge", "create", "publish", "done"}
      /\ pc'[r] \in {"create", "publish"} => pc[r] \in {"lookup", "create", "publish"}
      /\ rows' = rows \/ (pc[r] = "create" /\ rows' = Inserted(r))
  BY ServiceEffect DEF IInv, limiter
<1>2. ChargedFirst'
  <2>1. ASSUME NEW s \in Request
        PROVE  /\ pc'[s] \in {"lookup", "create", "publish"} => todo'[s] = {} /\ ~limited'[s]
               /\ pc'[s] = "lookup" => KeyOf[s] # NoKey
    BY <1>1 DEF ChargedFirst
  <2>2. ASSUME NEW id \in rows' PROVE todo'[id[1]] = {} /\ ~limited'[id[1]]
    <3>1. CASE id \in rows
      BY <1>1, <3>1 DEF ChargedFirst
    <3>2. CASE pc[r] = "create" /\ id \in IdsOf(r)
      <4>1. id[1] = r /\ todo[r] = {} /\ ~limited[r]
        BY <3>2, IdsAreOwn DEF ChargedFirst
      <4> QED
        BY <1>1, <4>1
    <3> QED
      BY <1>1, <3>1, <3>2 DEF Inserted
  <2> QED
    BY <2>1, <2>2 DEF ChargedFirst
<1>3. BudgetKept'
  <2> SUFFICES ASSUME NEW c \in Channel
               PROVE  WithinBudget(c)'
    BY DEF BudgetKept
  <2>1. Granted(c)' = Granted(c)
    BY <1>1 DEF Granted
  <2>2. \A id \in Id : pc'[id[1]] = "giveBack" <=> pc[id[1]] = "giveBack"
    BY <1>1, IdOwner
  <2>3. Pending(c)' = Pending(c)
    BY <1>1, <2>2 DEF Pending
  <2> QED
    BY <1>1, <2>1, <2>3, SameAccounts
<1> QED
  BY <1>2, <1>3

\* What the limiter does to r alone keeps the order of charge and insert.
LEMMA ChargeKeepsOrder ==
  ASSUME IInv, ChargedFirst, NEW r \in Request, pc[r] \in {"charge", "giveBack"},
         UNCHANGED rows,
         \A s \in Request \ {r} :
           todo'[s] = todo[s] /\ limited'[s] = limited[s] /\ pc'[s] = pc[s],
         pc'[r] \in {"create", "lookup", "publish"} => todo'[r] = {} /\ ~limited'[r],
         pc'[r] = "lookup" => KeyOf[r] # NoKey
  PROVE  ChargedFirst'
<1>1. \A id \in rows : id[1] \in Request \ {r}
  <2> SUFFICES ASSUME NEW id \in rows, id[1] = r PROVE FALSE
    BY IdOwner DEF IInv, TypeOK
  <2>1. id \in IdsOf(r)
    BY IdOwner DEF IInv, TypeOK
  <2> QED
    BY <2>1 DEF IInv, Progress, NoTrace, BeforeCreate
<1> QED
  BY <1>1 DEF ChargedFirst

LEMMA AllowChannelAccounts ==
  ASSUME IInv, IInv', ChargedFirst, BudgetKept, NEW r \in Request, NEW c \in Channel,
         AllowChannel(r, c)
  PROVE  ChargedFirst' /\ BudgetKept'
<1> DEFINE n == Count(r, c)
<1>1. /\ TypeOK /\ TimesArePast /\ pc[r] = "charge" /\ c \in todo[r] /\ n \in Nat
      /\ UNCHANGED <<rows, restarts, clock>>
  BY CountType DEF AllowChannel, IInv
<1>2. IsFiniteSet(UnitsOf(r, c)) /\ Cardinality(UnitsOf(r, c)) = n
  BY UnitsCounted
<1>3. /\ bucket \in [Channel -> BucketRec] /\ pc \in [Request -> RequestPC]
      /\ held \in [Request -> Reservation \cup {NoReservation}]
      /\ skewed \in [Channel -> BOOLEAN]
  BY <1>1 DEF TypeOK
<1>4. \A d \in Channel :
        /\ IsFiniteSet(Granted(d)) /\ IsFiniteSet(Pending(d))
        /\ Cardinality(Granted(d)) \in Nat /\ Cardinality(Pending(d)) \in Nat
        /\ bucket[d].tokens \in Int /\ bucket[d].last \in Nat
        /\ bucket'[d].tokens \in Int /\ bucket'[d].last \in Nat
        /\ bucket'[d].last <= clock
        /\ Burst * (1 + restarts) \in Nat /\ clock \in Nat
  BY <1>1, AccountsNow, BudgetType, AllowChannelBucket DEF BucketRec
<1>5. \A d \in Channel \ {c} : bucket'[d] = bucket[d] /\ skewed'[d] = skewed[d]
  BY <1>1, AllowChannelBucket
<1> DEFINE Moved == ~skewed'[c] =>
             /\ ~skewed[c]
             /\ bucket'[c].tokens - bucket'[c].last <= bucket[c].tokens - bucket[c].last - n
<1> HIDE DEF n, Moved
\* What a reservation moves.
<1>6. ASSUME NEW t \in Now(r),
             bucket' = [bucket EXCEPT ![c] = ReserveN(bucket[c], n, t)],
             skewed' = [skewed EXCEPT ![c] = @ \/ t < bucket[c].last]
      PROVE  bucket'[c] = ReserveN(bucket[c], n, t) /\ Moved
  <2>1. t \in Nat
    BY <1>1, NowTime
  <2>2. /\ ReserveN(bucket[c], n, t).last = t
        /\ bucket[c].last <= t =>
             ReserveN(bucket[c], n, t).tokens - t <= bucket[c].tokens - bucket[c].last - n
    BY <1>1, <1>3, <2>1, ReserveNBucket
  <2>3. bucket'[c] = ReserveN(bucket[c], n, t) /\ (skewed'[c] <=> skewed[c] \/ t < bucket[c].last)
    BY <1>3, <1>6
  <2>4. ~(t < bucket[c].last) => bucket[c].last <= t
    BY <1>4, <2>1
  <2> QED
    BY <2>2, <2>3, <2>4 DEF Moved
\* A refusal of a request for more than the burst moves no token, and a grant
\* as many as there are notifications.
<1>7. ASSUME NEW ok \in BOOLEAN, Charged(r, c, ok), UNCHANGED held,
             \/ ~ok /\ UNCHANGED <<bucket, skewed>>
             \/ ok /\ bucket'[c].tokens >= 0 /\ Moved
      PROVE  ChargedFirst' /\ BudgetKept'
  <2>1. /\ todo'[r] = todo[r] \ {c} /\ (limited'[r] <=> limited[r] \/ ~ok)
        /\ \A s \in Request \ {r} :
             todo'[s] = todo[s] /\ limited'[s] = limited[s] /\ pc'[s] = pc[s]
        /\ pc'[r] \in {"charge", "create", "lookup", "done"}
        /\ pc'[r] \in {"create", "lookup"} => todo'[r] = {} /\ ~limited'[r]
        /\ pc'[r] = "lookup" => KeyOf[r] # NoKey
    BY <1>1, <1>7, ChargedEffect
  <2>2. ChargedFirst'
    BY <1>1, <2>1, ChargeKeepsOrder
  <2>3. ASSUME NEW d \in Channel PROVE WithinBudget(d)'
    <3>1. Pending(d)' = Pending(d)
      BY <1>1, <1>7, <2>1, IdOwner DEF Pending
    <3>2. CASE d # c \/ ~ok
      <4>1. /\ Granted(d)' \subseteq Granted(d)
            /\ bucket'[d] = bucket[d] /\ skewed'[d] = skewed[d]
        BY <1>5, <1>7, <2>1, <3>2, IdOwner DEF Granted
      <4>2. /\ IsFiniteSet(Granted(d)') /\ Cardinality(Granted(d)') \in Nat
            /\ Cardinality(Granted(d)') <= Cardinality(Granted(d))
        BY <1>4, <4>1, FewerCost
      <4>3. ~skewed[d] =>
              /\ Cardinality(Granted(d)) <= Burst * (1 + restarts) + clock
              /\ Cardinality(Granted(d)) + Cardinality(Pending(d))
                   + (bucket[d].tokens - bucket[d].last) <= Burst * (1 + restarts)
        BY AccountsNow
      <4>4. ~skewed'[d] =>
              /\ Cardinality(Granted(d)') <= Burst * (1 + restarts) + clock
              /\ Cardinality(Granted(d)') + Cardinality(Pending(d))
                   + (bucket'[d].tokens - bucket'[d].last) <= Burst * (1 + restarts)
        BY <1>4, <4>1, <4>2, <4>3
      <4> QED
        BY <1>1, <1>4, <3>1, <4>2, <4>4, AccountsNext
    <3>3. CASE d = c /\ ok
      <4>1. Granted(c)' \subseteq Granted(c) \cup UnitsOf(r, c)
        BY <1>7, <2>1, IdOwner, OwnUnits DEF Granted
      <4>2. Granted(c) \cap UnitsOf(r, c) = {}
        BY <1>1, IdsAreOwn DEF Granted, UnitsOf
      <4>3. /\ IsFiniteSet(Granted(c) \cup UnitsOf(r, c))
            /\ Cardinality(Granted(c) \cup UnitsOf(r, c)) = Cardinality(Granted(c)) + n
        BY <1>2, <1>4, <4>2, MoreCost
      <4>4. /\ IsFiniteSet(Granted(c)') /\ Cardinality(Granted(c)') \in Nat
            /\ Cardinality(Granted(c)') <= Cardinality(Granted(c)) + n
        BY <4>1, <4>3, FewerCost
      <4>5. ~skewed'[c] =>
              /\ ~skewed[c] /\ bucket'[c].tokens >= 0
              /\ bucket'[c].tokens - bucket'[c].last <= bucket[c].tokens - bucket[c].last - n
        BY <1>7, <3>3 DEF Moved
      <4>6. ~skewed[c] =>
              Cardinality(Granted(c)) + Cardinality(Pending(c))
                + (bucket[c].tokens - bucket[c].last) <= Burst * (1 + restarts)
        BY AccountsNow
      <4>7. ~skewed'[c] =>
              Cardinality(Granted(c)') + Cardinality(Pending(c))
                + (bucket'[c].tokens - bucket'[c].last) <= Burst * (1 + restarts)
        BY <1>1, <1>4, <4>4, <4>5, <4>6
      <4>8. ~skewed'[c] => Cardinality(Granted(c)') <= Burst * (1 + restarts) + clock
        BY <1>4, <4>4, <4>5, <4>7
      <4> QED
        BY <1>1, <1>4, <3>1, <3>3, <4>4, <4>7, <4>8, AccountsNext
    <3> QED
      BY <3>2, <3>3
  <2> QED
    BY <2>2, <2>3 DEF BudgetKept
\* The reservation is not due: the tokens are taken until it is cancelled.
<1>8. ASSUME Moved, NEW due, held' = [held EXCEPT ![r] = [channel |-> c, due |-> due]],
             Continue(r, "giveBack"), UNCHANGED <<todo, limited>>
      PROVE  ChargedFirst' /\ BudgetKept'
  <2>1. /\ pc'[r] = "giveBack" /\ held'[r].channel = c
        /\ \A s \in Request \ {r} : pc'[s] = pc[s] /\ held'[s] = held[s]
    BY <1>3, <1>8 DEF Continue, Goto
  <2>2. ChargedFirst'
    BY <1>1, <1>8, <2>1, ChargeKeepsOrder
  <2>3. ASSUME NEW d \in Channel PROVE WithinBudget(d)'
    <3>1. Granted(d)' = Granted(d)
      BY <1>8 DEF Granted
    <3>2. CASE d # c
      <4>1. Pending(d)' = Pending(d)
        BY <1>1, <2>1, <3>2, IdOwner DEF Pending
      <4>2. bucket'[d] = bucket[d] /\ skewed'[d] = skewed[d]
        BY <1>5, <3>2
      <4> QED
        BY <1>1, <3>1, <4>1, <4>2, SameAccounts
    <3>3. CASE d = c
      <4>1. Pending(c)' = Pending(c) \cup UnitsOf(r, c) /\ Pending(c) \cap UnitsOf(r, c) = {}
        BY <1>1, <2>1, IdOwner, OwnUnits DEF Pending
      <4>2. /\ IsFiniteSet(Pending(c)')
            /\ Cardinality(Pending(c)') = Cardinality(Pending(c)) + n
        BY <1>2, <1>4, <4>1, MoreCost
      <4>3. ~skewed'[c] =>
              /\ ~skewed[c]
              /\ bucket'[c].tokens - bucket'[c].last <= bucket[c].tokens - bucket[c].last - n
        BY <1>8 DEF Moved
      <4>4. ~skewed[c] =>
              /\ Cardinality(Granted(c)) <= Burst * (1 + restarts) + clock
              /\ Cardinality(Granted(c)) + Cardinality(Pending(c))
                   + (bucket[c].tokens - bucket[c].last) <= Burst * (1 + restarts)
        BY AccountsNow
      <4>5. ~skewed'[c] =>
              /\ Cardinality(Granted(c)) <= Burst * (1 + restarts) + clock
              /\ Cardinality(Granted(c)) + Cardinality(Pending(c)')
                   + (bucket'[c].tokens - bucket'[c].last) <= Burst * (1 + restarts)
        BY <1>1, <1>4, <4>2, <4>3, <4>4
      <4> QED
        BY <1>1, <1>4, <3>1, <3>3, <4>2, <4>5, AccountsNext
    <3> QED
      BY <3>2, <3>3
  <2> QED
    BY <2>2, <2>3 DEF BudgetKept
<1>9. CASE n > Burst /\ Charged(r, c, FALSE) /\ UNCHANGED <<bucket, skewed, held>>
  BY <1>7, <1>9
<1>10. ASSUME NEW t \in Now(r),
              bucket' = [bucket EXCEPT ![c] = ReserveN(bucket[c], n, t)],
              skewed' = [skewed EXCEPT ![c] = @ \/ t < bucket[c].last],
              \/ /\ ReserveN(bucket[c], n, t).tokens >= 0
                 /\ Charged(r, c, TRUE) /\ UNCHANGED held
              \/ /\ held' = [held EXCEPT ![r] =
                       [channel |-> c, due |-> ReserveN(bucket[c], n, t).lastEvent]]
                 /\ Continue(r, "giveBack") /\ UNCHANGED <<todo, limited>>
       PROVE  ChargedFirst' /\ BudgetKept'
  BY <1>6, <1>7, <1>8, <1>10
<1> QED
  BY <1>9, <1>10 DEF AllowChannel, n

LEMMA GiveBackAccounts ==
  ASSUME IInv, IInv', ChargedFirst, BudgetKept, NEW r \in Request, GiveBack(r)
  PROVE  ChargedFirst' /\ BudgetKept'
<1> DEFINE c == held[r].channel
           n == Count(r, c)
           due == held[r].due
<1>1. /\ TypeOK /\ TimesArePast /\ pc[r] = "giveBack" /\ c \in Channel /\ due \in Nat
      /\ held' = [held EXCEPT ![r] = NoReservation] /\ Charged(r, c, FALSE)
      /\ UNCHANGED <<rows, restarts, clock>>
  BY DEF GiveBack, IInv, Progress, Reservation
<1>2. PICK t \in Now(r) :
        /\ bucket' = [bucket EXCEPT ![c] = CancelAt(@, n, due, t)]
        /\ skewed' = [skewed EXCEPT ![c] =
             @ \/ /\ Restorable(bucket[c], n, due, t) > 0
                  /\ t < bucket[c].last \/ bucket[c].lastEvent < due]
  BY DEF GiveBack
<1>3. /\ IsFiniteSet(UnitsOf(r, c)) /\ Cardinality(UnitsOf(r, c)) = n
      /\ n \in Nat /\ t \in Nat
  BY <1>1, <1>2, UnitsCounted, CountType, NowTime
<1>4. \A s \in Request \ {r} : held'[s] = held[s]
  BY <1>1 DEF TypeOK
<1>5. \A d \in Channel \ {c} : bucket'[d] = bucket[d] /\ skewed'[d] = skewed[d]
  BY GiveBackBucket
<1>6. UnitsOf(r, c) \subseteq Pending(c)
  BY <1>1, OwnUnits DEF Pending
<1>7. \A d \in Channel : d # c => \A id \in Pending(d) : id[1] # r
  BY DEF Pending
<1>8. \A d \in Channel :
        /\ IsFiniteSet(Granted(d)) /\ IsFiniteSet(Pending(d))
        /\ Cardinality(Granted(d)) \in Nat /\ Cardinality(Pending(d)) \in Nat
        /\ bucket[d] \in BucketRec /\ bucket'[d] \in BucketRec
        /\ bucket[d].tokens \in Int /\ bucket[d].last \in Nat
        /\ bucket'[d].tokens \in Int /\ bucket'[d].last \in Nat
        /\ bucket[d].lastEvent \in Nat
        /\ Burst * (1 + restarts) \in Nat /\ clock \in Nat
  BY <1>1, AccountsNow, BudgetType, GiveBackBucket DEF BucketRec
<1> HIDE DEF c, n, due
\* No more comes back than was reserved, when no call went back in time.
<1>9. ~skewed'[c] =>
        /\ ~skewed[c]
        /\ bucket'[c].tokens - bucket'[c].last <= bucket[c].tokens - bucket[c].last + n
  <2> DEFINE b == CancelAt(bucket[c], n, due, t)
             k == Restorable(bucket[c], n, due, t)
  <2>1. /\ b \in BucketRec
        /\ k > 0 /\ bucket[c].last <= t /\ due <= bucket[c].lastEvent
             => b.tokens - b.last <= bucket[c].tokens - bucket[c].last + n
    BY <1>1, <1>3, <1>8, CancelAtBucket
  <2>2. k <= 0 => b = bucket[c]
    BY DEF CancelAt
  <2>3. k \in Int
    BY <1>1, <1>3, <1>8 DEF Restorable
  <2>4. /\ bucket'[c] = b
        /\ skewed'[c] <=> skewed[c] \/ (k > 0 /\ (t < bucket[c].last \/ bucket[c].lastEvent < due))
    BY <1>1, <1>2 DEF TypeOK
  <2> HIDE DEF b, k
  <2>5. ASSUME ~skewed'[c], k > 0
        PROVE  b.tokens - b.last <= bucket[c].tokens - bucket[c].last + n
    <3>1. bucket[c].last <= t /\ due <= bucket[c].lastEvent
      BY <1>1, <1>3, <1>8, <2>4, <2>5
    <3> QED
      BY <2>1, <2>5, <3>1
  <2>6. k <= 0 => b.tokens - b.last <= bucket[c].tokens - bucket[c].last + n
    BY <1>1, <1>3, <1>8, <2>2
  <2> QED
    BY <2>3, <2>4, <2>5, <2>6
<1>10. /\ todo'[r] = todo[r] \ {c} /\ limited'[r]
       /\ \A s \in Request \ {r} :
            todo'[s] = todo[s] /\ limited'[s] = limited[s] /\ pc'[s] = pc[s]
       /\ pc'[r] \in {"charge", "create", "lookup", "done"}
       /\ pc'[r] \in {"create", "lookup"} => todo'[r] = {} /\ ~limited'[r]
       /\ pc'[r] = "lookup" => KeyOf[r] # NoKey
  BY <1>1, ChargedEffect
<1>11. ChargedFirst'
  BY <1>1, <1>10, ChargeKeepsOrder
<1>12. ASSUME NEW d \in Channel PROVE WithinBudget(d)'
  <2>1. Granted(d)' \subseteq Granted(d)
    BY <1>10, IdOwner DEF Granted
  <2>2. /\ IsFiniteSet(Granted(d)') /\ Cardinality(Granted(d)') \in Nat
        /\ Cardinality(Granted(d)') <= Cardinality(Granted(d))
    BY <1>8, <2>1, FewerCost
  <2>3. Pending(d)' \subseteq Pending(d) /\ \A id \in Pending(d)' : id[1] # r
    BY <1>4, <1>10, IdOwner DEF Pending
  <2>4. /\ IsFiniteSet(Pending(d)') /\ Cardinality(Pending(d)') \in Nat
        /\ Cardinality(Pending(d)') <= Cardinality(Pending(d))
    BY <1>8, <2>3, FewerCost
  <2>5. ~skewed[d] =>
          /\ Cardinality(Granted(d)) <= Burst * (1 + restarts) + clock
          /\ Cardinality(Granted(d)) + Cardinality(Pending(d))
               + (bucket[d].tokens - bucket[d].last) <= Burst * (1 + restarts)
    BY AccountsNow
  <2>6. CASE d # c
    <3>1. bucket'[d] = bucket[d] /\ skewed'[d] = skewed[d]
      BY <1>5, <2>6
    <3>2. ~skewed'[d] =>
            /\ Cardinality(Granted(d)') <= Burst * (1 + restarts) + clock
            /\ Cardinality(Granted(d)') + Cardinality(Pending(d)')
                 + (bucket'[d].tokens - bucket'[d].last) <= Burst * (1 + restarts)
      BY <1>8, <2>2, <2>4, <2>5, <3>1
    <3> QED
      BY <1>1, <2>2, <2>4, <3>2, AccountsNext
  <2>7. CASE d = c
    <3>1. /\ Pending(d)' \cup UnitsOf(r, d) \subseteq Pending(d)
          /\ Pending(d)' \cap UnitsOf(r, d) = {}
      BY <1>6, <2>3, <2>7, IdsAreOwn DEF UnitsOf
    <3>2. Cardinality(Pending(d)' \cup UnitsOf(r, d)) = Cardinality(Pending(d)') + n
      BY <1>3, <2>4, <2>7, <3>1, MoreCost
    <3>3. Cardinality(Pending(d)') + n <= Cardinality(Pending(d))
      BY <1>8, <3>1, <3>2, FewerCost
    <3>4. ~skewed'[d] =>
            /\ Cardinality(Granted(d)') <= Burst * (1 + restarts) + clock
            /\ Cardinality(Granted(d)') + Cardinality(Pending(d)')
                 + (bucket'[d].tokens - bucket'[d].last) <= Burst * (1 + restarts)
      BY <1>3, <1>8, <1>9, <2>2, <2>4, <2>5, <2>7, <3>3
    <3> QED
      BY <1>1, <2>2, <2>4, <3>4, AccountsNext
  <2> QED
    BY <2>6, <2>7
<1> QED
  BY <1>11, <1>12 DEF BudgetKept

\* Time that passes gives the buckets a claim to more, which their next call
\* brings in.
LEMMA TickAccounts ==
  ASSUME IInv, IInv', ChargedFirst, BudgetKept, Tick
  PROVE  ChargedFirst' /\ BudgetKept'
<1>1. clock' = clock + 1 /\ UNCHANGED <<pc, todo, held, limited, rows, bucket, skewed, restarts>>
  BY DEF Tick
<1>2. ChargedFirst'
  BY <1>1 DEF ChargedFirst
<1>3. ASSUME NEW d \in Channel PROVE WithinBudget(d)'
  <2>1. Granted(d)' = Granted(d) /\ Pending(d)' = Pending(d)
    BY <1>1 DEF Granted, Pending
  <2>2. /\ Burst * (1 + restarts) \in Nat /\ clock \in Nat
        /\ IsFiniteSet(Granted(d)) /\ IsFiniteSet(Pending(d))
        /\ Cardinality(Granted(d)) \in Nat
    BY AccountsNow, BudgetType DEF IInv
  <2>3. ~skewed'[d] =>
          /\ Cardinality(Granted(d)) <= Burst * (1 + restarts) + clock
          /\ Cardinality(Granted(d)) + Cardinality(Pending(d))
               + (bucket'[d].tokens - bucket'[d].last) <= Burst * (1 + restarts)
    BY <1>1, AccountsNow
  <2>4. ~skewed'[d] => Cardinality(Granted(d)) <= Burst * (1 + restarts) + clock'
    BY <1>1, <2>2, <2>3
  <2> QED
    BY <1>1, <2>1, <2>2, <2>3, <2>4, AccountsNext
<1> QED
  BY <1>2, <1>3 DEF BudgetKept

\* A restart fills the buckets, and the budget grows by as much; what the
\* buckets had given out before was within the budget before.
LEMMA RestartAccounts ==
  ASSUME IInv, IInv', ChargedFirst, BudgetKept, Restart
  PROVE  ChargedFirst' /\ BudgetKept'
<1>1. /\ TypeOK /\ restarts' = restarts + 1
      /\ bucket' = [d \in Channel |-> FullBucket(clock)]
      /\ UNCHANGED <<todo, limited, rows, skewed, clock>>
      /\ \A r \in Request : pc'[r] \in {"new", "done"}
  BY DEF Restart, Running, IInv
<1>2. ChargedFirst'
  BY <1>1 DEF ChargedFirst
<1>3. ASSUME NEW d \in Channel PROVE WithinBudget(d)'
  <2>1. Granted(d)' = Granted(d) /\ bucket'[d].tokens = Burst /\ bucket'[d].last = clock
    BY <1>1 DEF Granted, FullBucket
  <2>2. Pending(d)' = {} /\ IsFiniteSet(Pending(d)') /\ Cardinality(Pending(d)') = 0
    BY <1>1, IdOwner, FS_EmptySet DEF Pending
  <2>3. /\ Burst * (1 + restarts) \in Nat /\ clock \in Nat /\ Burst \in Nat
        /\ restarts \in Nat
        /\ IsFiniteSet(Granted(d)) /\ Cardinality(Granted(d)) \in Nat
    <3>1. restarts \in Nat
      BY <1>1, SubmissionAssumption DEF TypeOK
    <3>2. Burst * (1 + restarts) \in Nat /\ clock \in Nat /\ Burst \in Nat
      BY BudgetType DEF IInv
    <3> QED
      BY <3>1, <3>2, AccountsNow
  <2>4. Burst * (1 + restarts') = Burst * (1 + restarts) + Burst
    BY <1>1, <2>3
  <2>5. ~skewed[d] => Cardinality(Granted(d)) <= Burst * (1 + restarts) + clock
    BY AccountsNow
  <2>6. ~skewed'[d] =>
          /\ Cardinality(Granted(d)') <= Burst * (1 + restarts') + clock'
          /\ Cardinality(Granted(d)') + Cardinality(Pending(d)')
               + (bucket'[d].tokens - bucket'[d].last) <= Burst * (1 + restarts')
    <3> DEFINE B == Burst * (1 + restarts)
               G == Cardinality(Granted(d))
    <3>1. B \in Nat /\ G \in Nat /\ (~skewed[d] => G <= B + clock)
      BY <2>3, <2>5
    <3> HIDE DEF B, G
    <3>2. ~skewed[d] => G <= B + Burst + clock /\ G + 0 + (Burst - clock) <= B + Burst
      BY <2>3, <3>1
    <3> QED
      BY <1>1, <2>1, <2>2, <2>4, <3>2 DEF B, G
  <2> QED
    BY <2>1, <2>2, <2>3, <2>6, AccountsNext
<1> QED
  BY <1>2, <1>3 DEF BudgetKept

LEMMA InitAccounts ==
  ASSUME Init
  PROVE  Accounts
<1>1. ChargedFirst
  BY DEF Init, ChargedFirst
<1>2. QueuedSoFar /\ StoredIsAccounted /\ AcceptedNamesARow
  BY DEF Init, QueuedSoFar, StoredIsAccounted, AcceptedNamesARow, Answered
<1>3. ASSUME NEW c \in Channel PROVE WithinBudget(c)
  <2>1. \A id \in Id : Items[id[1]][id[2]] = c => c \in todo[id[1]]
    BY IdOwner, IdsAreOwn DEF Init
  <2>2. \A id \in Id : pc[id[1]] = "new"
    BY IdOwner DEF Init
  <2>3. Granted(c) = {} /\ Pending(c) = {}
    BY <2>1, <2>2 DEF Granted, Pending
  <2>4. IsFiniteSet({}) /\ Cardinality({}) = 0
    BY FS_EmptySet
  <2>5. Burst \in Nat /\ bucket[c].tokens = Burst /\ bucket[c].last = 0
        /\ Budget(c) = Burst /\ Filled(c) = Burst
    BY BurstAssumption DEF Init, FullBucket, Budget, Filled
  <2> QED
    BY <2>3, <2>4, <2>5 DEF WithinBudget
<1> QED
  BY <1>1, <1>2, <1>3 DEF Accounts, BudgetKept

-----------------------------------------------------------------------------
(* What was accepted is queued                                             *)

\* A row that came alone is still to be published, queued, or its request was
\* not accepted; and an accepted request is of one of two kinds.
Settled(r) ==
  /\ faults = 0 /\ pc[r] = "publish"
       => \A i \in DOMAIN Items[r] : i < next[r] => sent[<<r, i>>] = 1
  /\ r \notin Batch /\ <<r, 1>> \in rows => sent[<<r, 1>>] = 1 \/ Unsettled(r)
  /\ Answered(r, "202") =>
       /\ r \notin Batch => answer[r].id \in rows /\ answer[r].id[1] \notin Batch
       /\ r \in Batch /\ faults = 0 => \A id \in IdsOf(r) : sent[id] = 1

LEMMA SettledParts ==
  QueuedSoFar /\ StoredIsAccounted /\ AcceptedNamesARow <=> \A r \in Request : Settled(r)
  BY DEF QueuedSoFar, StoredIsAccounted, AcceptedNamesARow, Settled

LEMMA SettledPartsNext ==
  ASSUME \A r \in Request : Settled(r)'
  PROVE  QueuedSoFar' /\ StoredIsAccounted' /\ AcceptedNamesARow'
  BY DEF QueuedSoFar, StoredIsAccounted, AcceptedNamesARow, Settled

\* A request that a step does not move stays settled, if no row disappears.
LEMMA StaysSettled ==
  ASSUME NEW s \in Request, Settled(s), rows \subseteq rows',
         faults' = 0 => faults = 0,
         pc'[s] = pc[s] /\ answer'[s] = answer[s] /\ next'[s] = next[s],
         \A id \in IdsOf(s) : sent'[id] = sent[id] /\ (id \in rows' => id \in rows)
  PROVE  Settled(s)'
<1>1. \A i \in DOMAIN Items[s] : <<s, i>> \in IdsOf(s)
  BY IdsAreOwn
<1>2. <<s, 1>> \in IdsOf(s)
  BY <1>1, Items1
<1>3. Unsettled(s)' <=> Unsettled(s)
  BY DEF Unsettled, Answered
<1> QED
  BY <1>1, <1>2, <1>3 DEF Settled, Answered

LEMMA QueuedKept ==
  ASSUME IInv, QueuedSoFar, StoredIsAccounted, AcceptedNamesARow, NEW r \in Request,
         rows \subseteq rows', faults' = 0 => faults = 0,
         \A s \in Request \ {r} :
           /\ pc'[s] = pc[s] /\ answer'[s] = answer[s] /\ next'[s] = next[s]
           /\ \A id \in IdsOf(s) : sent'[id] = sent[id] /\ (id \in rows' => id \in rows),
         Settled(r)'
  PROVE  QueuedSoFar' /\ StoredIsAccounted' /\ AcceptedNamesARow'
<1>1. ASSUME NEW s \in Request \ {r} PROVE Settled(s)'
  BY SettledParts, StaysSettled
<1> QED
  BY <1>1, SettledPartsNext

\* A lookup finds the row of a request that came alone.
LEMMA KeyedRowIsSingle ==
  ASSUME TypeOK, NEW k, k # NoKey, NEW id \in RowsWithKey(k)
  PROVE  id[1] \in Request /\ id[1] \notin Batch
<1>1. id \in Id /\ KeyOf[id[1]] = k
  BY DEF RowsWithKey, TypeOK
<1>2. id[1] \in Request
  BY <1>1, IdOwner
<1> QED
  BY <1>1, <1>2, KeyedIsSingle

\* Everything but the publish loop: no message moves, and a 202 is the answer
\* of the lookup, with a row that is there.
LEMMA UnpublishedQueued ==
  ASSUME IInv, ChargedFirst, QueuedSoFar, StoredIsAccounted, AcceptedNamesARow,
         NEW r \in Request,
         \/ Receive(r) \/ Lookup(r) \/ Create(r) \/ GiveBack(r)
         \/ \E c \in Channel : AllowChannel(r, c)
  PROVE  QueuedSoFar' /\ StoredIsAccounted' /\ AcceptedNamesARow'
<1>1. pc[r] \in BeforeCreate /\ UNCHANGED <<next, sent>>
  BY DEF Receive, Lookup, Create, GiveBack, AllowChannel, BeforeCreate
<1>2. next[r] = 1 /\ NoTrace(r) /\ answer[r].code = "none"
  BY <1>1 DEF IInv, Progress, BeforeCreate
<1>3. TypeOK /\ answer \in [Request -> [code : Code, id : Id \cup {NoId}]]
      /\ pc \in [Request -> RequestPC] /\ faults \in Nat
  BY SubmissionAssumption DEF IInv, TypeOK
<1>4. ASSUME UNCHANGED <<rows, faults>>, NEW c, NEW ok \in BOOLEAN, Charged(r, c, ok)
      PROVE  /\ \A s \in Request \ {r} : pc'[s] = pc[s] /\ answer'[s] = answer[s]
             /\ answer'[r].code # "202"
  BY <1>2, <1>3, <1>4, ChargedEffect
\* Only the lookup accepts.
<1>5. /\ \A s \in Request \ {r} : pc'[s] = pc[s] /\ answer'[s] = answer[s]
      /\ faults' = 0 => faults = 0
      /\ rows' = rows \/ (rows' = Inserted(r) /\ (pc'[r] = "publish" \/ answer'[r].code = "500"))
      /\ answer'[r].code = "202" =>
           KeyOf[r] # NoKey /\ rows' = rows /\ answer'[r].id \in RowsWithKey(KeyOf[r])
  <2>1. CASE Receive(r)
    BY <1>2, <1>3, <2>1 DEF Receive, Answer, Continue, Goto
  <2>2. CASE Lookup(r)
    <3>1. KeyOf[r] # NoKey /\ UNCHANGED rows
      BY <2>2 DEF Lookup, ChargedFirst
    <3>2. faults' = 0 => faults = 0
      BY <1>3, <2>2 DEF Lookup, NoFault, Fault
    <3>3. \A s \in Request \ {r} : pc'[s] = pc[s] /\ answer'[s] = answer[s]
      BY <1>3, <2>2, ServiceEffect
    <3>4. answer'[r].code = "202" => answer'[r].id \in RowsWithKey(KeyOf[r])
      <4>1. CASE \E id \in RowsWithKey(KeyOf[r]) : Answer(r, "202", id)
        BY <1>3, <4>1 DEF Answer
      <4>2. CASE Continue(r, "create")
        BY <1>2, <4>2 DEF Continue
      <4>3. CASE Answer(r, "500", NoId)
        BY <1>3, <4>3 DEF Answer
      <4> QED
        BY <2>2, <4>1, <4>2, <4>3 DEF Lookup
    <3> QED
      BY <3>1, <3>2, <3>3, <3>4
  <2>3. CASE Create(r)
    <3>1. faults' = 0 => faults = 0
      BY <1>3, <2>3 DEF Create, NoFault, Fault
    <3>2. \A s \in Request \ {r} : pc'[s] = pc[s] /\ answer'[s] = answer[s]
      BY <1>3, <2>3, ServiceEffect
    <3>3. answer'[r].code \in {"none", "400", "500"}
      BY <1>2, <1>3, <2>3 DEF Create, Answer, Continue, Goto
    <3>4. rows' = rows \/ (rows' = Inserted(r) /\ (pc'[r] = "publish" \/ answer'[r].code = "500"))
      BY <1>3, <2>3 DEF Create, Answer, Continue, Goto
    <3> QED
      BY <3>1, <3>2, <3>3, <3>4
  <2>4. CASE GiveBack(r)
    <3>1. UNCHANGED <<rows, faults>>
      BY <2>4 DEF GiveBack
    <3>2. Charged(r, held[r].channel, FALSE)
      BY <2>4 DEF GiveBack
    <3>3. \E ok \in BOOLEAN : Charged(r, held[r].channel, ok)
      BY <3>2
    <3> QED
      BY <1>4, <3>1, <3>3
  <2>5. ASSUME NEW c \in Channel, AllowChannel(r, c)
        PROVE  /\ \A s \in Request \ {r} : pc'[s] = pc[s] /\ answer'[s] = answer[s]
               /\ UNCHANGED <<rows, faults>> /\ answer'[r].code # "202"
    <3>1. UNCHANGED <<rows, faults>>
      BY <2>5 DEF AllowChannel
    <3>2. CASE \E ok \in BOOLEAN : Charged(r, c, ok)
      BY <1>4, <3>1, <3>2
    <3>3. CASE Continue(r, "giveBack")
      BY <1>2, <1>3, <3>1, <3>3 DEF Continue, Goto
    <3> QED
      BY <2>5, <3>2, <3>3 DEF AllowChannel
  <2> QED
    BY <2>1, <2>2, <2>3, <2>4, <2>5
<1>6. /\ rows \subseteq rows'
      /\ \A s \in Request \ {r} : \A id \in IdsOf(s) : id \in rows' => id \in rows
  BY <1>5, IdsAreOwn DEF Inserted
<1>7. Settled(r)'
  <2>1. \A i \in DOMAIN Items[r] : ~(i < next'[r])
    BY <1>1, <1>2, Items1
  <2>2. <<r, 1>> \in rows' => Unsettled(r)'
    <3>1. <<r, 1>> \notin rows
      BY <1>2, IdsAreOwn, Items1 DEF NoTrace
    <3> QED
      BY <1>5, <3>1 DEF Unsettled, Answered
  <2>3. answer'[r].code = "202" =>
          r \notin Batch /\ answer'[r].id \in rows' /\ answer'[r].id[1] \notin Batch
    BY <1>3, <1>5, KeyedIsSingle, KeyedRowIsSingle DEF RowsWithKey
  <2> QED
    BY <2>1, <2>2, <2>3 DEF Settled, Answered
<1> QED
  BY <1>1, <1>5, <1>6, <1>7, QueuedKept

LEMMA PublishQueued ==
  ASSUME IInv, QueuedSoFar, StoredIsAccounted, AcceptedNamesARow,
         NEW r \in Request, Publish(r)
  PROVE  QueuedSoFar' /\ StoredIsAccounted' /\ AcceptedNamesARow'
<1> DEFINE n == <<r, next[r]>>
<1>1. pc[r] = "publish" /\ UNCHANGED rows
  BY DEF Publish
<1>2. /\ next[r] \in DOMAIN Items[r] /\ answer[r].code = "none" /\ sent[n] = 0
      /\ n \in IdsOf(r) /\ n \in Id /\ IdsOf(r) \subseteq rows
  BY <1>1, Items1, IdsAreOwn DEF IInv, Progress
<1>3. /\ answer \in [Request -> [code : Code, id : Id \cup {NoId}]]
      /\ pc \in [Request -> RequestPC] /\ next \in [Request -> Nat]
      /\ sent \in [Id -> Nat] /\ faults \in Nat
  BY SubmissionAssumption DEF IInv, TypeOK
<1>4. /\ \A s \in Request \ {r} :
           pc'[s] = pc[s] /\ answer'[s] = answer[s] /\ next'[s] = next[s]
      /\ pc'[r] = "publish" => next'[r] = next[r] + 1
      /\ answer'[r].code = "202" => next[r] = Len(Items[r])
  BY <1>2, <1>3 DEF Publish, Published, Answer, Continue, Goto
<1>5. sent' = sent \/ sent' = [sent EXCEPT ![n] = @ + 1]
  BY DEF Publish
<1>6. \A s \in Request \ {r} : \A id \in IdsOf(s) : sent'[id] = sent[id]
  <2> SUFFICES ASSUME NEW s \in Request \ {r}, NEW id \in IdsOf(s)
               PROVE  sent'[id] = sent[id]
    OBVIOUS
  <2>1. id \in Id /\ id # n
    BY <1>2, IdsAreOwn
  <2> QED
    BY <1>3, <1>5, <2>1
\* The message is known to have reached the queue unless a fault was injected;
\* then a request that came alone is answered 500.
<1>7. \/ faults' = faults /\ sent' = [sent EXCEPT ![n] = @ + 1]
      \/ faults' = faults + 1 /\ (r \notin Batch => answer'[r].code = "500")
  BY <1>2, <1>3 DEF Publish, NoFault, Fault, Answer, Goto
<1>8. faults' = 0 => faults = 0
  BY <1>3, <1>7
<1>9. ASSUME sent' = [sent EXCEPT ![n] = @ + 1], faults = 0 \/ r \notin Batch
      PROVE  \A i \in DOMAIN Items[r] : i < next[r] + 1 => sent'[<<r, i>>] = 1
  <2> SUFFICES ASSUME NEW i \in DOMAIN Items[r], i < next[r] + 1
               PROVE  sent'[<<r, i>>] = 1
    OBVIOUS
  <2>1. <<r, i>> \in Id
    BY IdsAreOwn
  <2>2. CASE i = next[r]
    BY <1>2, <1>3, <1>9, <2>2
  <2>3. CASE i # next[r]
    <3>1. i < next[r] /\ <<r, i>> # n
      BY <1>2, <2>3, Items1
    <3>2. faults = 0
      <4>1. r \in Batch
        BY <1>2, <2>3, Items1
      <4> QED
        BY <1>9, <4>1
    <3>3. sent[<<r, i>>] = 1
      BY <1>1, <3>1, <3>2 DEF QueuedSoFar
    <3> QED
      BY <1>3, <1>9, <2>1, <3>1, <3>3
  <2> QED
    BY <2>2, <2>3
<1>10. Settled(r)'
  <2>1. faults' = 0 /\ pc'[r] = "publish"
          => \A i \in DOMAIN Items[r] : i < next'[r] => sent'[<<r, i>>] = 1
    BY <1>3, <1>4, <1>7, <1>9
  <2>2. r \notin Batch => sent'[<<r, 1>>] = 1 \/ answer'[r].code = "500"
    <3>1. r \notin Batch => next[r] = 1
      BY <1>2, Items1
    <3> QED
      BY <1>2, <1>3, <1>7, <3>1
  <2>3. ASSUME answer'[r].code = "202", r \in Batch, faults' = 0, NEW id \in IdsOf(r)
        PROVE  sent'[id] = 1
    <3>1. sent' = [sent EXCEPT ![n] = @ + 1] /\ faults = 0
      BY <1>3, <1>7, <2>3
    <3>2. PICK i \in DOMAIN Items[r] : id = <<r, i>>
      BY <2>3, IdsAreOwn
    <3>3. i < next[r] + 1
      BY <1>4, <2>3, Items1
    <3> QED
      BY <1>9, <3>1, <3>2, <3>3
  <2>4. ASSUME answer'[r].code = "202", r \notin Batch
        PROVE  answer'[r].id \in rows /\ answer'[r].id[1] \notin Batch
    <3>1. Answer(r, "202", <<r, 1>>) \/ Answer(r, "500", NoId) \/ Continue(r, "publish")
      BY <2>4 DEF Publish, Published, AnswerId
    <3>2. answer'[r].id = <<r, 1>>
      BY <1>2, <1>3, <2>4, <3>1 DEF Answer, Continue
    <3>3. <<r, 1>> \in rows
      BY <1>2, Items1, IdsAreOwn
    <3> QED
      BY <2>4, <3>2, <3>3
  <2> QED
    BY <1>1, <2>1, <2>2, <2>3, <2>4 DEF Settled, Answered, Unsettled
<1> QED
  BY <1>1, <1>4, <1>6, <1>8, <1>10, QueuedKept

LEMMA RestartQueued ==
  ASSUME IInv, QueuedSoFar, StoredIsAccounted, AcceptedNamesARow, Restart
  PROVE  QueuedSoFar' /\ StoredIsAccounted' /\ AcceptedNamesARow'
<1>1. /\ faults' # 0 /\ UNCHANGED <<rows, sent>>
      /\ \A r \in Request :
           \/ answer'[r] = answer[r] /\ (pc[r] # "publish")
           \/ answer'[r].code = "lost"
  BY SubmissionAssumption DEF Restart, Running, Fault, IInv, TypeOK
<1>2. ASSUME NEW r \in Request PROVE Settled(r)'
  <2>1. Settled(r)
    BY SettledParts
  <2>2. CASE answer'[r] = answer[r] /\ pc[r] # "publish"
    <3>1. Unsettled(r) => Unsettled(r)'
      BY <2>2 DEF Unsettled, Answered
    <3> QED
      BY <1>1, <2>1, <2>2, <3>1 DEF Settled, Answered
  <2>3. CASE answer'[r].code = "lost"
    BY <1>1, <2>3 DEF Settled, Answered, Unsettled
  <2> QED
    BY <1>1, <2>2, <2>3
<1> QED
  BY <1>2, SettledPartsNext

-----------------------------------------------------------------------------
(* The accounts always hold                                                *)

LEMMA NextAccounts ==
  ASSUME IInv, IInv', Accounts, [Next]_vars
  PROVE  Accounts'
<1> USE DEF Accounts
<1>1. CASE UNCHANGED vars
  BY <1>1 DEF vars, ChargedFirst, BudgetKept, WithinBudget, Granted, Pending, Budget,
     Filled, QueuedSoFar, StoredIsAccounted, AcceptedNamesARow, Unsettled, Answered
<1>2. ASSUME NEW r \in Request, Receive(r) \/ Lookup(r) \/ Create(r) PROVE Accounts'
  BY <1>2, ServiceAccounts, UnpublishedQueued
<1>3. ASSUME NEW r \in Request, Publish(r) PROVE Accounts'
  BY <1>3, ServiceAccounts, PublishQueued
<1>4. ASSUME NEW r \in Request, NEW c \in Channel, AllowChannel(r, c) PROVE Accounts'
  BY <1>4, AllowChannelAccounts, UnpublishedQueued
<1>5. ASSUME NEW r \in Request, GiveBack(r) PROVE Accounts'
  BY <1>5, GiveBackAccounts, UnpublishedQueued
<1>6. CASE Tick
  <2>1. UNCHANGED <<pc, next, answer, rows, sent, faults>>
    BY <1>6 DEF Tick
  <2>2. QueuedSoFar' /\ StoredIsAccounted' /\ AcceptedNamesARow'
    BY <2>1 DEF QueuedSoFar, StoredIsAccounted, AcceptedNamesARow, Unsettled, Answered
  <2> QED
    BY <1>6, <2>2, TickAccounts
<1>7. CASE Restart
  BY <1>7, RestartAccounts, RestartQueued
<1> QED
  BY <1>1, <1>2, <1>3, <1>4, <1>5, <1>6, <1>7 DEF Next, Serve

THEOREM AccountsHold == Spec => []Accounts
<1>1. Init => Accounts
  BY InitAccounts
<1>2. IInv /\ IInv' /\ Accounts /\ [Next]_vars => Accounts'
  BY NextAccounts
<1> QED
  BY <1>1, <1>2, SubmissionInvariantHolds, PTL DEF Spec

\* ReserveN, Cancel and the charge per item of a batch: however reservations of
\* concurrent requests overlap, and also when the library gives back less than
\* was reserved, the rows stored for a channel stay within what its bucket was
\* ever filled with, unless a call on the bucket went back in time.
THEOREM StoredWithinBudgetHolds == Spec => []StoredWithinBudget
<1>1. IInv /\ Accounts => StoredWithinBudget
  <2> SUFFICES ASSUME IInv, Accounts, NEW c \in Channel, ~skewed[c]
               PROVE  Cardinality(StoredFor(c)) <= Budget(c)
    BY DEF StoredWithinBudget
  <2>1. StoredFor(c) \subseteq Granted(c)
    BY DEF StoredFor, Granted, Accounts, ChargedFirst, IInv, TypeOK
  <2>2. /\ IsFiniteSet(Granted(c)) /\ Cardinality(Granted(c)) <= Budget(c)
        /\ Budget(c) \in Nat
    BY BudgetType DEF Accounts, BudgetKept, WithinBudget, IInv
  <2>3. /\ Cardinality(StoredFor(c)) <= Cardinality(Granted(c))
        /\ Cardinality(StoredFor(c)) \in Nat /\ Cardinality(Granted(c)) \in Nat
    BY <2>1, <2>2, FewerCost
  <2> QED
    BY <2>2, <2>3
<1> QED
  BY <1>1, SubmissionInvariantHolds, AccountsHold, PTL

\* create, CreateWithIdempotency, createBatch and publishOne: 202 means a queued
\* message, but for a batch of which a publish failed, and for the row of
\* another request that has yet to publish it or could not.
THEOREM AcceptedIsQueuedHolds == Spec => []AcceptedIsQueued
<1>1. IInv /\ Accounts => AcceptedIsQueued
  <2> SUFFICES ASSUME IInv, Accounts, NEW r \in Request, Answered(r, "202")
               PROVE  \/ r \in Batch /\ (faults = 0 => \A id \in IdsOf(r) : sent[id] = 1)
                      \/ /\ r \notin Batch
                         /\ answer[r].id \in rows
                         /\ \/ sent[answer[r].id] = 1
                            \/ answer[r].id[1] # r /\ Unsettled(answer[r].id[1])
    BY DEF AcceptedIsQueued
  <2>1. CASE r \in Batch
    BY <2>1 DEF Accounts, AcceptedNamesARow
  <2>2. CASE r \notin Batch
    <3> DEFINE id == answer[r].id
    <3>1. id \in rows /\ id[1] \notin Batch /\ id \in Id
      BY <2>2 DEF Accounts, AcceptedNamesARow, IInv, TypeOK
    <3>2. id[1] \in Request /\ id = <<id[1], 1>>
      BY <3>1, IdOwner, IdsAreOwn, Items1
    <3>3. sent[id] = 1 \/ Unsettled(id[1])
      BY <3>1, <3>2 DEF Accounts, StoredIsAccounted
    <3>4. ~Unsettled(r)
      BY DEF IInv, Progress, Unsettled, Answered
    <3> QED
      BY <2>2, <3>1, <3>3, <3>4
  <2> QED
    BY <2>1, <2>2
<1> QED
  BY <1>1, SubmissionInvariantHolds, AccountsHold, PTL

-----------------------------------------------------------------------------
(* The handlers implement the idempotent store                             *)

\* A step of r is a step of the store when it stores its rows only where
\* nothing conflicts, publishes only its next notification, and does not
\* answer 202 to a request without a key before its rows are there.
LEMMA StoreStep ==
  ASSUME IInv, IInv', NEW r \in Request, pc[r] # "done",
         \A s \in Request \ {r} : answer'[s] = answer[s],
         rows' = rows \/ (rows' = Inserted(r) /\ ~Conflict(r) /\ pc[r] = "create"),
         \/ sent' = sent
         \/ pc[r] = "publish" /\ sent' = [sent EXCEPT ![<<r, next[r]>>] = @ + 1],
         answer'[r].code = "202" /\ KeyOf[r] = NoKey => IdsOf(r) \subseteq rows'
  PROVE  Store!Next
<1>1. answer[r].code = "none"
  BY DEF IInv, Progress
<1>2. \A s \in Request : Store!IdsOf(s) = IdsOf(s)
  BY DEF Store!IdsOf, IdsOf
<1>3. rows' = rows \/ \E s \in Request : Store!Store(s)
  <2>1. ASSUME rows' = Inserted(r), ~Conflict(r), pc[r] = "create"
        PROVE  Store!Store(r)
    <3>1. IdsOf(r) \cap rows = {}
      BY <2>1 DEF IInv, Progress, NoTrace, BeforeCreate
    <3>2. KeyOf[r] = NoKey \/ Store!WithKey(KeyOf[r]) = {}
      BY <2>1 DEF Conflict, RowsWithKey, Store!WithKey
    <3> QED
      BY <1>1, <1>2, <2>1, <3>1, <3>2 DEF Store!Store, Store!Open, Inserted
  <2> QED
    BY <2>1
<1>4. sent' = sent \/ \E id \in Store!Id : Store!Send(id)
  <2> DEFINE n == <<r, next[r]>>
  <2>1. ASSUME pc[r] = "publish", sent' = [sent EXCEPT ![n] = @ + 1]
        PROVE  n \in Store!Id /\ Store!Send(n)
    <3>1. /\ next[r] \in DOMAIN Items[r] /\ IdsOf(r) \subseteq rows /\ sent[n] = 0
      BY <2>1, Items1 DEF IInv, Progress
    <3>2. n \in IdsOf(r) /\ n \in rows /\ n[1] = r
      BY <3>1, IdsAreOwn
    <3>3. sent' = [sent EXCEPT ![n] = 1]
      BY <2>1, <3>1
    <3>4. n \in Store!Id
      BY <1>2, <3>2 DEF Store!Id
    <3> QED
      BY <1>1, <3>1, <3>2, <3>3, <3>4 DEF Store!Send, Store!Open
  <2> QED
    BY <2>1
<1>5. ASSUME NEW s \in Request PROVE Store!Answer(s)
  <2>1. CASE s = r
    <3>1. answer'[r].code = "202" /\ KeyOf[r] # NoKey
            => Store!WithKey(KeyOf[r])' = {answer'[r].id}
      <4> SUFFICES ASSUME Answered(r, "202")', KeyOf[r] # NoKey
                   PROVE  RowsWithKey(KeyOf[r])' = {answer'[r].id}
        BY DEF Answered, RowsWithKey, Store!WithKey
      <4>1. answer'[r].id \in RowsWithKey(KeyOf[r])'
        BY DEF IInv, AcceptedIsStored
      <4>2. \A id, jd \in RowsWithKey(KeyOf[r])' : id = jd
        BY DEF IInv, OneRowPerKey, RowsWithKey
      <4> QED
        BY <4>1, <4>2
    <3>2. answer'[r].code \in {"400", "429"} => IdsOf(r) \cap rows' = {}
      BY DEF IInv, RejectedLeavesNoTrace, Answered
    <3>3. Store!Truthful(r)
      BY <1>2, <3>1, <3>2 DEF Store!Truthful
    <3> QED
      BY <1>1, <2>1, <3>3 DEF Store!Answer, Store!Open
  <2>2. CASE s # r
    BY <2>2 DEF Store!Answer
  <2> QED
    BY <2>1, <2>2
<1> QED
  BY <1>3, <1>4, <1>5 DEF Store!Next

LEMMA StoreInit ==
  ASSUME Init
  PROVE  Store!Init
<1>1. Store!Id = Id
  BY DEF Store!Id, Store!IdsOf, Id, IdsOf
<1> QED
  BY <1>1 DEF Init, Store!Init

LEMMA StoreNext ==
  ASSUME IInv, IInv', Accounts, [Next]_vars
  PROVE  [Store!Next]_Store!store
<1>1. CASE UNCHANGED vars
  BY <1>1 DEF vars, Store!store
<1>2. ASSUME NEW r \in Request, Receive(r) PROVE Store!Next
  <2>1. pc[r] # "done" /\ UNCHANGED <<rows, sent>>
    BY <1>2 DEF Receive
  <2>2. \A s \in Request \ {r} : answer'[s] = answer[s]
    BY <1>2, ServiceEffect DEF IInv
  <2>3. answer'[r].code # "202"
    BY <1>2, <2>1 DEF Receive, Answer, Continue, Goto, IInv, TypeOK, Progress
  <2> QED
    BY <2>1, <2>2, <2>3, StoreStep
<1>3. ASSUME NEW r \in Request, NEW c, NEW ok \in BOOLEAN, Charged(r, c, ok),
             pc[r] \in {"charge", "giveBack"}, UNCHANGED <<rows, sent>>
      PROVE  Store!Next
  <2>1. /\ \A s \in Request \ {r} : answer'[s] = answer[s]
        /\ answer'[r] = answer[r] \/ answer'[r].code = "429"
    BY <1>3, ChargedEffect DEF IInv
  <2>2. answer[r].code = "none"
    BY <1>3 DEF IInv, Progress
  <2> QED
    BY <1>3, <2>1, <2>2, StoreStep
<1>4. ASSUME NEW r \in Request, NEW c \in Channel, AllowChannel(r, c)
      PROVE  [Store!Next]_Store!store
  <2>1. CASE \E ok \in BOOLEAN : Charged(r, c, ok)
    BY <1>3, <1>4, <2>1 DEF AllowChannel
  <2>2. CASE Continue(r, "giveBack")
    BY <1>4, <2>2 DEF AllowChannel, Continue, Store!store
  <2> QED
    BY <1>4, <2>1, <2>2 DEF AllowChannel
<1>5. ASSUME NEW r \in Request, GiveBack(r) PROVE Store!Next
  <2>1. /\ pc[r] = "giveBack" /\ UNCHANGED <<rows, sent>>
        /\ \E ok \in BOOLEAN : Charged(r, held[r].channel, ok)
    BY <1>5 DEF GiveBack
  <2> QED
    BY <1>3, <2>1
<1>6. ASSUME NEW r \in Request, Lookup(r) PROVE Store!Next
  <2>1. pc[r] = "lookup" /\ UNCHANGED <<rows, sent>> /\ KeyOf[r] # NoKey
    BY <1>6 DEF Lookup, Accounts, ChargedFirst
  <2>2. \A s \in Request \ {r} : answer'[s] = answer[s]
    BY <1>6, ServiceEffect DEF IInv
  <2> QED
    BY <2>1, <2>2, StoreStep
<1>7. ASSUME NEW r \in Request, Create(r) PROVE Store!Next
  <2>1. pc[r] = "create" /\ UNCHANGED sent
    BY <1>7 DEF Create
  <2>2. /\ \A s \in Request \ {r} : answer'[s] = answer[s]
        /\ rows' = rows \/ (rows' = Inserted(r) /\ ~Conflict(r))
    BY <1>7, ServiceEffect DEF IInv
  <2>3. answer'[r].code # "202"
    BY <1>7, <2>1 DEF Create, Answer, Continue, Goto, IInv, TypeOK, Progress
  <2> QED
    BY <2>1, <2>2, <2>3, StoreStep
<1>8. ASSUME NEW r \in Request, Publish(r) PROVE Store!Next
  <2>1. /\ pc[r] = "publish" /\ UNCHANGED rows
        /\ sent' = sent \/ sent' = [sent EXCEPT ![<<r, next[r]>>] = @ + 1]
    BY <1>8 DEF Publish
  <2>2. \A s \in Request \ {r} : answer'[s] = answer[s]
    BY <1>8, ServiceEffect DEF IInv
  <2>3. IdsOf(r) \subseteq rows
    BY <2>1 DEF IInv, Progress
  <2> QED
    BY <2>1, <2>2, <2>3, StoreStep
<1>9. CASE Tick
  BY <1>9 DEF Tick, Store!store
<1>10. CASE Restart
  <2>1. UNCHANGED <<rows, sent>>
    BY <1>10 DEF Restart
  <2>2. ASSUME NEW r \in Request PROVE Store!Answer(r)
    <3>1. \/ answer'[r] = answer[r]
          \/ pc[r] # "done" /\ answer'[r] = [code |-> "lost", id |-> NoId]
      BY <1>10 DEF Restart, Running
    <3>2. pc[r] # "done" => answer[r].code = "none"
      BY DEF IInv, Progress
    <3> QED
      BY <3>1, <3>2 DEF Store!Answer, Store!Open, Store!Truthful
  <2> QED
    BY <2>1, <2>2 DEF Store!Next
<1> QED
  BY <1>1, <1>2, <1>4, <1>5, <1>6, <1>7, <1>8, <1>9, <1>10 DEF Next, Serve

\* The handlers of create and createBatch, the unique index and publishOne
\* together implement the idempotent store with an outbox: every step of theirs
\* is a step of NotificationStore on rows, messages and answers, or none.
THEOREM ImplementsStoreHolds == Spec => ImplementsStore
<1>1. Init => Store!Init
  BY StoreInit
<1>2. IInv /\ IInv' /\ Accounts /\ [Next]_vars => [Store!Next]_Store!store
  BY StoreNext
<1> QED
  BY <1>1, <1>2, SubmissionInvariantHolds, AccountsHold, PTL
  DEF Spec, ImplementsStore, Store!Spec
=============================================================================
