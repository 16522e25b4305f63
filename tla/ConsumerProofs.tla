--------------------------- MODULE ConsumerProofs ---------------------------
(***************************************************************************)
(* Machine-checked proofs about Consumer, for every number of messages,    *)
(* slots and faults and every prefetch count.                              *)
(***************************************************************************)
EXTENDS ConsumerInvariant, SequenceTheorems, FiniteSetTheorems, TLAPS

-----------------------------------------------------------------------------
(* The sequence of deliveries, tag by tag                                  *)

LEMMA TagsFacts ==
  ASSUME delivery \in Seq(DeliveryRec)
  PROVE  /\ Tags = 1..Len(delivery) /\ Len(delivery) \in Nat
         /\ \A t \in Tags : delivery[t] \in DeliveryRec
         /\ delivery \in [Tags -> DeliveryRec]
BY LenProperties DEF Tags

\* A step that rewrites deliveries keeps their tags.
LEMMA Rewritten ==
  ASSUME delivery \in Seq(DeliveryRec), delivery' \in [Tags -> DeliveryRec]
  PROVE  delivery' \in Seq(DeliveryRec) /\ Tags' = Tags
<1> DEFINE n == Len(delivery)
<1>1. Tags = 1..n /\ n \in Nat
  BY TagsFacts
<1>2. delivery' \in [1..n -> DeliveryRec]
  BY <1>1
<1>3. delivery' \in Seq(DeliveryRec)
  BY <1>1, <1>2, SeqDef
<1>4. Tags' = 1..n
  BY <1>2 DEF Tags
<1> QED
  BY <1>1, <1>3, <1>4

LEMMA PushEffect ==
  ASSUME TypeOK, NEW m \in Message, Push(m)
  PROVE  LET n == Len(delivery) + 1 IN
         /\ delivery' \in Seq(DeliveryRec)
         /\ n \notin Tags /\ Tags' = Tags \cup {n}
         /\ \A t \in Tags : delivery'[t] = delivery[t]
         /\ delivery'[n].msg = m /\ delivery'[n].at = "buffered" /\ delivery'[n].own
         /\ delivery'[n].unacked /\ delivery'[n].ctx = "none"
         /\ delivery'[n].begun = "none" /\ ~delivery'[n].failed
<1> DEFINE d == [msg |-> m, at |-> "buffered", own |-> TRUE, unacked |-> TRUE,
                 ctx |-> "none", begun |-> "none", failed |-> FALSE]
           n == Len(delivery) + 1
<1>1. delivery \in Seq(DeliveryRec) /\ Tags = 1..Len(delivery) /\ Len(delivery) \in Nat
  BY TagsFacts DEF TypeOK
<1>2. d \in DeliveryRec
  BY DEF DeliveryRec
<1>3. delivery' = Append(delivery, d)
  BY DEF Push
<1> HIDE DEF d
<1>4. /\ delivery' \in Seq(DeliveryRec) /\ Len(delivery') = n
      /\ \A t \in 1..Len(delivery) : delivery'[t] = delivery[t]
      /\ delivery'[n] = d
  BY <1>1, <1>2, <1>3
<1>5. Tags' = 1..n
  BY <1>4, LenProperties DEF Tags
<1>6. /\ d.msg = m /\ d.at = "buffered" /\ d.own /\ d.unacked /\ d.ctx = "none"
      /\ d.begun = "none" /\ ~d.failed
  BY DEF d
<1> QED
  BY <1>1, <1>4, <1>5, <1>6

\* What a step writes in a delivery, field by field.
LEMMA TakeEffect ==
  ASSUME TypeOK, NEW t \in Tags, TakeDelivery(t)
  PROVE  /\ delivery' \in Seq(DeliveryRec) /\ Tags' = Tags
         /\ \A u \in Tags : u # t => delivery'[u] = delivery[u]
         /\ delivery'[t].msg = delivery[t].msg /\ delivery'[t].at = "held"
         /\ delivery'[t].own = delivery[t].own /\ delivery'[t].unacked = delivery[t].unacked
         /\ delivery'[t].ctx = delivery[t].ctx /\ delivery'[t].begun = delivery[t].begun
         /\ delivery'[t].failed = delivery[t].failed
<1>1. /\ delivery \in Seq(DeliveryRec) /\ delivery \in [Tags -> DeliveryRec]
      /\ \A u \in Tags : delivery[u] \in DeliveryRec
  BY TagsFacts DEF TypeOK
<1>2. delivery' = [delivery EXCEPT ![t].at = "held"]
  BY DEF TakeDelivery
<1>3. [delivery[t] EXCEPT !.at = "held"] \in DeliveryRec
  BY <1>1 DEF DeliveryRec
<1>4. /\ delivery' \in [Tags -> DeliveryRec]
      /\ \A u \in Tags : u # t => delivery'[u] = delivery[u]
      /\ delivery'[t] = [delivery[t] EXCEPT !.at = "held"]
  BY <1>1, <1>2, <1>3
<1>6. /\ delivery'[t].msg = delivery[t].msg /\ delivery'[t].at = "held"
      /\ delivery'[t].own = delivery[t].own /\ delivery'[t].unacked = delivery[t].unacked
      /\ delivery'[t].ctx = delivery[t].ctx /\ delivery'[t].begun = delivery[t].begun
      /\ delivery'[t].failed = delivery[t].failed
  BY <1>1, <1>4 DEF DeliveryRec
<1> QED
  BY <1>6, <1>1, <1>4, Rewritten

LEMMA BegunEffect ==
  ASSUME TypeOK, NEW t \in Tags, NEW c \in {"root", "drain"},
         NEW s \in {"live", "cancelled"}, Begun(t, c, s)
  PROVE  /\ delivery' \in Seq(DeliveryRec) /\ Tags' = Tags
         /\ \A u \in Tags : u # t => delivery'[u] = delivery[u]
         /\ delivery'[t].msg = delivery[t].msg /\ delivery'[t].at = "running"
         /\ delivery'[t].own = delivery[t].own /\ delivery'[t].unacked = delivery[t].unacked
         /\ delivery'[t].ctx = c /\ delivery'[t].begun = s
         /\ delivery'[t].failed = delivery[t].failed
<1> DEFINE d == [delivery[t] EXCEPT !.at = "running", !.ctx = c, !.begun = s]
<1>1. /\ delivery \in Seq(DeliveryRec) /\ delivery \in [Tags -> DeliveryRec]
      /\ \A u \in Tags : delivery[u] \in DeliveryRec
  BY TagsFacts DEF TypeOK
<1>2. delivery' = [delivery EXCEPT ![t] = d]
  BY DEF Begun
<1>3. d \in DeliveryRec
  BY <1>1 DEF DeliveryRec
<1>4. /\ delivery' \in [Tags -> DeliveryRec]
      /\ \A u \in Tags : u # t => delivery'[u] = delivery[u]
      /\ delivery'[t] = d
  BY <1>1, <1>2, <1>3
<1>6. /\ delivery'[t].msg = delivery[t].msg /\ delivery'[t].at = "running"
      /\ delivery'[t].own = delivery[t].own /\ delivery'[t].unacked = delivery[t].unacked
      /\ delivery'[t].ctx = c /\ delivery'[t].begun = s
      /\ delivery'[t].failed = delivery[t].failed
  BY <1>1, <1>4 DEF DeliveryRec
<1> QED
  BY <1>6, <1>1, <1>4, Rewritten

LEMMA SettleEffect ==
  ASSUME TypeOK, NEW t \in Tags, NEW v \in {"ack", "nack"}, NEW f \in BOOLEAN,
         Settle(t, v, f)
  PROVE  /\ delivery' \in Seq(DeliveryRec) /\ Tags' = Tags
         /\ \A u \in Tags : u # t => delivery'[u] = delivery[u]
         /\ delivery'[t].msg = delivery[t].msg /\ delivery'[t].at = "ended"
         /\ delivery'[t].own = delivery[t].own /\ delivery'[t].unacked = FALSE
         /\ delivery'[t].ctx = delivery[t].ctx /\ delivery'[t].begun = delivery[t].begun
         /\ delivery'[t].failed = f
         /\ acked' = IF delivery[t].unacked /\ v = "ack"
                     THEN acked \cup {delivery[t].msg} ELSE acked
         /\ dropped' = IF delivery[t].unacked /\ v = "nack"
                       THEN dropped \cup {delivery[t].msg} ELSE dropped
<1> DEFINE d == [delivery[t] EXCEPT !.at = "ended", !.unacked = FALSE, !.failed = f]
<1>1. /\ delivery \in Seq(DeliveryRec) /\ delivery \in [Tags -> DeliveryRec]
      /\ \A u \in Tags : delivery[u] \in DeliveryRec
  BY TagsFacts DEF TypeOK
<1>2. delivery' = [delivery EXCEPT ![t] = d]
  BY DEF Settle
<1>3. d \in DeliveryRec
  BY <1>1 DEF DeliveryRec
<1>4. /\ delivery' \in [Tags -> DeliveryRec]
      /\ \A u \in Tags : u # t => delivery'[u] = delivery[u]
      /\ delivery'[t] = d
  BY <1>1, <1>2, <1>3
<1>5. /\ acked' = IF delivery[t].unacked /\ v = "ack"
                  THEN acked \cup {delivery[t].msg} ELSE acked
      /\ dropped' = IF delivery[t].unacked /\ v = "nack"
                    THEN dropped \cup {delivery[t].msg} ELSE dropped
  BY DEF Settle
<1>6. /\ delivery'[t].msg = delivery[t].msg /\ delivery'[t].at = "ended"
      /\ delivery'[t].own = delivery[t].own /\ delivery'[t].unacked = FALSE
      /\ delivery'[t].ctx = delivery[t].ctx /\ delivery'[t].begun = delivery[t].begun
      /\ delivery'[t].failed = f
  BY <1>1, <1>4 DEF DeliveryRec
<1> QED
  BY <1>6, <1>1, <1>4, <1>5, Rewritten

\* Consume, CloseChannel and Exit write fields of every delivery.
LEMMA ConsumeEffect ==
  ASSUME TypeOK, delivery' = [t \in Tags |-> [delivery[t] EXCEPT !.own = FALSE]]
  PROVE  /\ delivery' \in Seq(DeliveryRec) /\ Tags' = Tags
         /\ \A t \in Tags :
              /\ delivery'[t].msg = delivery[t].msg /\ delivery'[t].at = delivery[t].at
              /\ delivery'[t].own = FALSE /\ delivery'[t].unacked = delivery[t].unacked
              /\ delivery'[t].ctx = delivery[t].ctx /\ delivery'[t].begun = delivery[t].begun
              /\ delivery'[t].failed = delivery[t].failed
<1>1. /\ delivery \in Seq(DeliveryRec) /\ delivery \in [Tags -> DeliveryRec]
      /\ \A u \in Tags : delivery[u] \in DeliveryRec
  BY TagsFacts DEF TypeOK
<1>2. \A t \in Tags : [delivery[t] EXCEPT !.own = FALSE] \in DeliveryRec
  BY <1>1 DEF DeliveryRec
<1>3. delivery' \in [Tags -> DeliveryRec]
  BY <1>2
<1>6. \A t \in Tags :
        /\ delivery'[t].msg = delivery[t].msg /\ delivery'[t].at = delivery[t].at
        /\ delivery'[t].own = FALSE /\ delivery'[t].unacked = delivery[t].unacked
        /\ delivery'[t].ctx = delivery[t].ctx /\ delivery'[t].begun = delivery[t].begun
        /\ delivery'[t].failed = delivery[t].failed
  BY <1>1, <1>2 DEF DeliveryRec
<1> QED
  BY <1>6, <1>1, <1>3, Rewritten

LEMMA RequeuedEffect ==
  ASSUME TypeOK, Requeued
  PROVE  /\ delivery' \in Seq(DeliveryRec) /\ Tags' = Tags
         /\ \A t \in Tags :
              /\ delivery'[t].msg = delivery[t].msg /\ delivery'[t].at = (IF delivery[t].at = "buffered" THEN "ended" ELSE delivery[t].at)
              /\ delivery'[t].own = delivery[t].own /\ delivery'[t].unacked = FALSE
              /\ delivery'[t].ctx = delivery[t].ctx /\ delivery'[t].begun = delivery[t].begun
              /\ delivery'[t].failed = delivery[t].failed
<1>1. /\ delivery \in Seq(DeliveryRec) /\ delivery \in [Tags -> DeliveryRec]
      /\ \A u \in Tags : delivery[u] \in DeliveryRec
  BY TagsFacts DEF TypeOK
<1>2. \A t \in Tags :
        [delivery[t] EXCEPT !.unacked = FALSE,
           !.at = IF delivery[t].at = "buffered" THEN "ended" ELSE delivery[t].at]
          \in DeliveryRec
  BY <1>1 DEF DeliveryRec
<1>3. delivery' = [t \in Tags |-> [delivery[t] EXCEPT !.unacked = FALSE,
           !.at = IF delivery[t].at = "buffered" THEN "ended" ELSE delivery[t].at]]
  BY <1>1 DEF Requeued, DeliveryRec
<1>4. delivery' \in [Tags -> DeliveryRec]
  BY <1>2, <1>3
<1>6. \A t \in Tags :
        /\ delivery'[t].msg = delivery[t].msg /\ delivery'[t].at = (IF delivery[t].at = "buffered" THEN "ended" ELSE delivery[t].at)
        /\ delivery'[t].own = delivery[t].own /\ delivery'[t].unacked = FALSE
        /\ delivery'[t].ctx = delivery[t].ctx /\ delivery'[t].begun = delivery[t].begun
        /\ delivery'[t].failed = delivery[t].failed
  BY <1>1, <1>3 DEF DeliveryRec
<1> QED
  BY <1>6, <1>1, <1>3, <1>4, Rewritten

LEMMA ExitEffect ==
  ASSUME TypeOK, Exit
  PROVE  /\ delivery' \in Seq(DeliveryRec) /\ Tags' = Tags
         /\ \A t \in Tags :
              /\ delivery'[t].msg = delivery[t].msg /\ delivery'[t].at = "ended"
              /\ delivery'[t].own = delivery[t].own /\ delivery'[t].unacked = FALSE
              /\ delivery'[t].ctx = delivery[t].ctx /\ delivery'[t].begun = delivery[t].begun
              /\ delivery'[t].failed = delivery[t].failed
<1>1. /\ delivery \in Seq(DeliveryRec) /\ delivery \in [Tags -> DeliveryRec]
      /\ \A u \in Tags : delivery[u] \in DeliveryRec
  BY TagsFacts DEF TypeOK
<1>2. \A t \in Tags :
        [delivery[t] EXCEPT !.unacked = FALSE, !.at = "ended"] \in DeliveryRec
  BY <1>1 DEF DeliveryRec
<1>3. delivery' =
        [t \in Tags |-> [delivery[t] EXCEPT !.unacked = FALSE, !.at = "ended"]]
  BY DEF Exit
<1>4. delivery' \in [Tags -> DeliveryRec]
  BY <1>2, <1>3
<1>6. \A t \in Tags :
        /\ delivery'[t].msg = delivery[t].msg /\ delivery'[t].at = "ended"
        /\ delivery'[t].own = delivery[t].own /\ delivery'[t].unacked = FALSE
        /\ delivery'[t].ctx = delivery[t].ctx /\ delivery'[t].begun = delivery[t].begun
        /\ delivery'[t].failed = delivery[t].failed
  BY <1>1, <1>3 DEF DeliveryRec
<1> QED
  BY <1>6, <1>1, <1>3, <1>4, Rewritten

LEMMA FieldTypes ==
  ASSUME TypeOK
  PROVE  \A t \in Tags :
           /\ delivery[t].msg \in Message
           /\ delivery[t].at \in {"buffered", "held", "running", "ended"}
           /\ delivery[t].own \in BOOLEAN /\ delivery[t].unacked \in BOOLEAN
           /\ delivery[t].ctx \in {"none", "root", "drain"}
           /\ delivery[t].begun \in {"none", "live", "cancelled"}
           /\ delivery[t].failed \in BOOLEAN
BY TagsFacts DEF TypeOK, DeliveryRec

\* There are finitely many deliveries, so that sets of them can be compared by
\* their sizes.
LEMMA TagsFinite ==
  ASSUME TypeOK
  PROVE  \A S \in SUBSET Tags : IsFiniteSet(S) /\ Cardinality(S) \in Nat
<1>1. Tags = 1..Len(delivery) /\ Len(delivery) \in Nat
  BY TagsFacts DEF TypeOK
<1>2. IsFiniteSet(Tags)
  BY <1>1, FS_Interval
<1> QED
  BY <1>2, FS_Subset, FS_CardinalityType

LEMMA NoMore ==
  ASSUME TypeOK, NEW S \in SUBSET Tags, NEW T, T \subseteq S
  PROVE  IsFiniteSet(T) /\ Cardinality(T) \in Nat /\ Cardinality(S) \in Nat
         /\ Cardinality(T) <= Cardinality(S)
BY TagsFinite, FS_Subset

-----------------------------------------------------------------------------
(* The invariant holds at first                                            *)

LEMMA InitIInv ==
  ASSUME Init
  PROVE  IInv
<1>1. /\ Tags = {} /\ Unacked = {} /\ DrainTags = {} /\ OwnUnacked = {} /\ Slots = {}
      /\ \A p : Place(p) = {}
  BY DEF Init, Tags, Unacked, DrainTags, OwnUnacked, Slots, Place
<1>2. Cardinality({}) = 0
  BY FS_EmptySet
<1>3. TypeOK
  <2>1. <<>> \in Seq(DeliveryRec)
    OBVIOUS
  <2> QED
    BY <2>1, ConsumerAssumption DEF TypeOK, Init, Loop
<1>4. TagsWellFormed /\ LoopWellFormed /\ DrainWellFormed
  BY <1>1 DEF TagsWellFormed, LoopWellFormed, DrainWellFormed, Init, DrainPhase
<1>5. OnePlace
  BY <1>1 DEF OnePlace, Init
<1>6. DrainedSettledOnce /\ DrainedNotDropped
  BY <1>1 DEF DrainedSettledOnce, DrainedNotDropped
<1>7. PrefetchInv /\ SlotsInv
  BY <1>1, <1>2, ConsumerAssumption DEF PrefetchInv, SlotsInv
<1> QED
  BY <1>3, <1>4, <1>5, <1>6, <1>7 DEF IInv

-----------------------------------------------------------------------------
(* Steps that move the loop, a context or the stream, and no delivery      *)

LoopOnly ==
  \/ StreamClosed \/ StartDrain \/ EndDrain \/ Return \/ ExpireDrain
  \/ Supervise \/ EndBackoff \/ Shutdown \/ CancelStream

LEMMA LoopOnlyStep ==
  ASSUME IInv, LoopOnly
  PROVE  IInv'
<1> USE DEF LoopOnly
<1>1. UNCHANGED <<channel, ready, delivery, held, acked, dropped>>
  BY DEF StreamClosed, StartDrain, EndDrain, Return, ExpireDrain, Supervise,
         EndBackoff, Shutdown, CancelStream, Fault
<1>2. /\ Tags' = Tags /\ Unacked' = Unacked /\ DrainTags' = DrainTags
      /\ OwnUnacked' = OwnUnacked /\ Slots' = Slots
      /\ \A p : Place(p)' = Place(p)
  BY <1>1 DEF Tags, Unacked, DrainTags, OwnUnacked, Slots, Place
<1>3. TypeOK'
  BY <1>1, <1>2, ConsumerAssumption
  DEF IInv, TypeOK, Loop, StreamClosed, StartDrain, EndDrain, Return, ExpireDrain,
      Supervise, EndBackoff, Shutdown, CancelStream, Fault
<1>4. TagsWellFormed'
  BY <1>1, <1>2 DEF IInv, TagsWellFormed
<1>5. LoopWellFormed'
  BY <1>1, <1>2
  DEF IInv, TypeOK, Loop, LoopWellFormed, StreamClosed, StartDrain, EndDrain, Return,
      ExpireDrain, Supervise, EndBackoff, Shutdown, CancelStream, Fault
<1>6. DrainWellFormed'
  BY <1>1, <1>2
  DEF IInv, DrainWellFormed, DrainPhase, StreamClosed, StartDrain, EndDrain, Return,
      ExpireDrain, Supervise, EndBackoff, Shutdown, CancelStream, Fault
<1>7. OnePlace'
  BY <1>1, <1>2 DEF IInv, OnePlace
<1>8. DrainedSettledOnce'
  BY <1>1, <1>2 DEF IInv, DrainedSettledOnce
<1>9. DrainedNotDropped'
  <2>1. DrainTags = {} \/ (drainCtx = "expired" => drainCtx' = "expired")
    BY DEF IInv, DrainPhase, LoopWellFormed, DrainWellFormed, StreamClosed, StartDrain, EndDrain,
           Return, ExpireDrain, Supervise, EndBackoff, Shutdown, CancelStream, Fault
  <2> QED
    BY <1>1, <1>2, <2>1 DEF IInv, DrainedNotDropped, DrainTags
<1>10. PrefetchInv'
  <2>1. loop \notin DrainPhase /\ loop' \in DrainPhase =>
          DrainTags \cup Place("buffered") \subseteq OwnUnacked
    BY DEF IInv, TagsWellFormed, LoopWellFormed, DrainWellFormed, DrainPhase, Place,
           OwnUnacked, Unacked, StreamClosed, StartDrain, EndDrain, Return,
           ExpireDrain, Supervise, EndBackoff, Shutdown, CancelStream, Fault
  <2>2. OwnUnacked \subseteq Tags
    BY DEF OwnUnacked, Unacked
  <2>3. loop' \in DrainPhase => Cardinality(DrainTags \cup Place("buffered")) <= PrefetchCount
    <3>1. CASE loop \in DrainPhase
      BY <3>1 DEF IInv, PrefetchInv
    <3>2. CASE loop \notin DrainPhase
      BY <3>2, <2>1, <2>2, NoMore, ConsumerAssumption DEF IInv, PrefetchInv
    <3> QED
      BY <3>1, <3>2
  <2> QED
    BY <1>2, <2>3 DEF IInv, PrefetchInv, DrainPhase
<1>11. SlotsInv'
  BY <1>2 DEF IInv, SlotsInv
<1> QED
  BY <1>3, <1>4, <1>5, <1>6, <1>7, <1>8, <1>9, <1>10, <1>11 DEF IInv

-----------------------------------------------------------------------------
(* Push: a new delivery in the buffer of the running consumer              *)

LEMMA PushStep ==
  ASSUME IInv, NEW m \in Message, Push(m)
  PROVE  IInv'
<1> DEFINE n == Len(delivery) + 1
<1>1. /\ delivery' \in Seq(DeliveryRec)
      /\ n \notin Tags /\ Tags' = Tags \cup {n}
      /\ \A t \in Tags : delivery'[t] = delivery[t]
      /\ delivery'[n].msg = m /\ delivery'[n].at = "buffered" /\ delivery'[n].own
      /\ delivery'[n].unacked /\ delivery'[n].ctx = "none"
      /\ delivery'[n].begun = "none" /\ ~delivery'[n].failed
  <2>1. TypeOK
    BY DEF IInv
  <2> QED
    BY <2>1, PushEffect
<1> HIDE DEF n
<1>2. /\ channel = "open" /\ stream = "open" /\ m \in ready /\ ready' = ready \ {m}
      /\ Cardinality(OwnUnacked) < PrefetchCount
      /\ UNCHANGED <<loop, root, drainCtx, channel, stream, held, acked, dropped, faults>>
  BY DEF Push, OwnUnacked
<1>3. /\ Unacked' = Unacked \cup {n} /\ OwnUnacked' = OwnUnacked \cup {n}
      /\ DrainTags' = DrainTags /\ Slots' = Slots
      /\ Place("held")' = Place("held") /\ Place("buffered")' = Place("buffered") \cup {n}
  BY <1>1 DEF Unacked, OwnUnacked, DrainTags, Slots, Place
<1>4. Unacked \subseteq Tags /\ OwnUnacked \subseteq Tags
  BY DEF Unacked, OwnUnacked
<1>5. loop \in {"select", "acquire"}
  BY <1>2 DEF IInv, LoopWellFormed
<1>6. TypeOK'
  BY <1>1, <1>2 DEF IInv, TypeOK
<1>7. TagsWellFormed'
  BY <1>1 DEF IInv, TagsWellFormed
<1>8. LoopWellFormed'
  BY <1>2, <1>3, <1>5 DEF IInv, LoopWellFormed
<1>9. DrainWellFormed'
  BY <1>1, <1>2, <1>3, <1>5 DEF IInv, DrainWellFormed, DrainPhase
<1>10. OnePlace'
  <2>1. {delivery[t].msg : t \in Unacked}' = {delivery[t].msg : t \in Unacked} \cup {m}
    BY <1>1, <1>3, <1>4
  <2>2. m \notin acked \cup dropped /\ \A t \in Unacked : delivery[t].msg # m
    BY <1>2 DEF IInv, OnePlace
  <2> QED
    BY <1>1, <1>2, <1>3, <1>4, <2>1, <2>2 DEF IInv, OnePlace
<1>11. DrainedSettledOnce'
  BY <1>2, <1>3, <1>5 DEF IInv, DrainedSettledOnce, DrainWellFormed, DrainPhase
<1>12. DrainedNotDropped'
  BY <1>1, <1>2, <1>5 DEF IInv, DrainedNotDropped, DrainWellFormed, DrainPhase, DrainTags
<1>13. PrefetchInv'
  <2>1. IsFiniteSet(OwnUnacked) /\ Cardinality(OwnUnacked) \in Nat /\ n \notin OwnUnacked
    BY <1>1, <1>4, TagsFinite DEF IInv
  <2>2. Cardinality(OwnUnacked') = Cardinality(OwnUnacked) + 1
    BY <1>3, <2>1, FS_AddElement
  <2> QED
    BY <1>2, <1>5, <2>1, <2>2, ConsumerAssumption DEF PrefetchInv, DrainPhase
<1>14. SlotsInv'
  BY <1>3 DEF IInv, SlotsInv
<1> QED
  BY <1>6, <1>7, <1>8, <1>9, <1>10, <1>11, <1>12, <1>13, <1>14 DEF IInv

-----------------------------------------------------------------------------
(* Run takes a delivery and begins a handler for it                        *)

LEMMA TakeStep ==
  ASSUME IInv, NEW t \in Tags, TakeDelivery(t)
  PROVE  IInv'
<1>1. /\ delivery' \in Seq(DeliveryRec) /\ Tags' = Tags
      /\ \A u \in Tags : u # t => delivery'[u] = delivery[u]
      /\ delivery'[t].msg = delivery[t].msg /\ delivery'[t].at = "held"
      /\ delivery'[t].own = delivery[t].own /\ delivery'[t].unacked = delivery[t].unacked
      /\ delivery'[t].ctx = delivery[t].ctx /\ delivery'[t].begun = delivery[t].begun
      /\ delivery'[t].failed = delivery[t].failed
  BY TakeEffect DEF IInv
<1>2. /\ loop = "select" /\ loop' = "acquire" /\ held' = t /\ delivery[t].at = "buffered"
      /\ UNCHANGED <<root, drainCtx, channel, stream, ready, acked, dropped, faults>>
  BY DEF TakeDelivery, NextBuffered, Place
<1>3. /\ Unacked' = Unacked /\ OwnUnacked' = OwnUnacked
      /\ DrainTags' = DrainTags /\ Slots' = Slots /\ t \in Place("held")'
  BY <1>1, <1>2 DEF Unacked, OwnUnacked, DrainTags, Slots, Place
<1>4. \A u \in Tags : delivery'[u].msg = delivery[u].msg
  BY <1>1
<1>5. TypeOK'
  BY <1>1, <1>2 DEF IInv, TypeOK, Loop
<1>6. TagsWellFormed'
  BY <1>1, <1>2 DEF IInv, TagsWellFormed
<1>7. LoopWellFormed'
  BY <1>2, <1>3 DEF IInv, LoopWellFormed
<1>8. DrainWellFormed'
  BY <1>2, <1>3 DEF IInv, DrainWellFormed, DrainPhase
<1>9. OnePlace'
  <2>1. {delivery[u].msg : u \in Unacked}' = {delivery[u].msg : u \in Unacked}
    BY <1>3, <1>4 DEF Unacked
  <2> QED
    BY <1>2, <1>3, <1>4, <2>1 DEF IInv, OnePlace, Unacked
<1>10. DrainedSettledOnce' /\ DrainedNotDropped'
  <2>1. DrainTags' = {}
    BY <1>2, <1>3 DEF IInv, DrainWellFormed, DrainPhase
  <2> QED
    BY <2>1 DEF DrainedSettledOnce, DrainedNotDropped, DrainTags
<1>11. PrefetchInv' /\ SlotsInv'
  BY <1>2, <1>3 DEF IInv, PrefetchInv, SlotsInv, DrainPhase
<1> QED
  BY <1>5, <1>6, <1>7, <1>8, <1>9, <1>10, <1>11 DEF IInv

LEMMA ProcessStep ==
  ASSUME IInv, Process
  PROVE  IInv'
<1>1. /\ loop = "acquire" /\ loop' = "select" /\ held' = NoDelivery /\ SlotFree
      /\ held \in Tags /\ delivery[held].at = "held"
      /\ Begun(held, "root", root)
      /\ UNCHANGED <<root, drainCtx, channel, stream, ready, acked, dropped, faults>>
  BY DEF Process, IInv, LoopWellFormed, Place
<1>2. PICK t \in Tags : t = held
  BY <1>1
<1>3. /\ delivery' \in Seq(DeliveryRec) /\ Tags' = Tags
      /\ \A u \in Tags : u # t => delivery'[u] = delivery[u]
      /\ delivery'[t].msg = delivery[t].msg /\ delivery'[t].at = "running"
      /\ delivery'[t].own = delivery[t].own /\ delivery'[t].unacked = delivery[t].unacked
      /\ delivery'[t].ctx = "root" /\ delivery'[t].failed = delivery[t].failed
  BY <1>1, <1>2, BegunEffect DEF IInv, TypeOK
<1>4. /\ Unacked' = Unacked /\ OwnUnacked' = OwnUnacked
      /\ Slots' = Slots \cup {t} /\ Place("buffered")' = Place("buffered")
  BY <1>1, <1>2, <1>3 DEF Unacked, OwnUnacked, Slots, Place
<1>5. DrainTags = {} /\ DrainTags' = {}
  BY <1>1, <1>3 DEF IInv, DrainWellFormed, DrainPhase, DrainTags
<1>6. \A u \in Tags : delivery'[u].msg = delivery[u].msg
  BY <1>3
<1>7. TypeOK'
  BY <1>1, <1>3 DEF IInv, TypeOK, Loop
<1>8. TagsWellFormed'
  BY <1>1, <1>2, <1>3 DEF IInv, TagsWellFormed
<1>9. LoopWellFormed'
  BY <1>1, <1>4 DEF IInv, LoopWellFormed
<1>10. DrainWellFormed'
  BY <1>1, <1>5 DEF IInv, DrainWellFormed
<1>11. OnePlace'
  <2>1. {delivery[u].msg : u \in Unacked}' = {delivery[u].msg : u \in Unacked}
    BY <1>4, <1>6 DEF Unacked
  <2> QED
    BY <1>1, <1>4, <1>6, <2>1 DEF IInv, OnePlace, Unacked
<1>12. DrainedSettledOnce' /\ DrainedNotDropped'
  BY <1>5 DEF DrainedSettledOnce, DrainedNotDropped, DrainTags
<1>13. PrefetchInv'
  BY <1>1, <1>4 DEF IInv, PrefetchInv, DrainPhase
<1>14. SlotsInv'
  <2>1. t \notin Slots /\ Slots \subseteq Tags
    BY <1>1, <1>2 DEF Slots, Place
  <2>2. IsFiniteSet(Slots) /\ Cardinality(Slots) \in Nat
    BY <2>1, TagsFinite DEF IInv
  <2>3. Cardinality(Slots') = Cardinality(Slots) + 1
    BY <1>4, <2>1, <2>2, FS_AddElement
  <2> QED
    BY <1>1, <2>2, <2>3, ConsumerAssumption DEF SlotFree, SlotsInv
<1> QED
  BY <1>7, <1>8, <1>9, <1>10, <1>11, <1>12, <1>13, <1>14 DEF IInv

LEMMA DrainDeliveryStep ==
  ASSUME IInv, NEW t \in Tags, DrainDelivery(t)
  PROVE  IInv'
<1> DEFINE s == IF drainCtx = "live" THEN "live" ELSE "cancelled"
<1>1. /\ loop = "drain" /\ delivery[t].at = "buffered" /\ Begun(t, "drain", s)
      /\ UNCHANGED <<loop, root, drainCtx, channel, stream, ready, held, acked,
                     dropped, faults>>
  BY DEF DrainDelivery, NextBuffered, Place
<1>2. /\ delivery' \in Seq(DeliveryRec) /\ Tags' = Tags
      /\ \A u \in Tags : u # t => delivery'[u] = delivery[u]
      /\ delivery'[t].msg = delivery[t].msg /\ delivery'[t].at = "running"
      /\ delivery'[t].own = delivery[t].own /\ delivery'[t].unacked = delivery[t].unacked
      /\ delivery'[t].ctx = "drain" /\ delivery'[t].begun = s
      /\ delivery'[t].failed = delivery[t].failed
  BY <1>1, BegunEffect DEF IInv
<1>3. drainCtx # "none" /\ (s = "cancelled" => drainCtx = "expired")
  BY <1>1 DEF IInv, TypeOK, DrainWellFormed
<1> HIDE DEF s
<1>4. delivery[t].unacked /\ delivery[t].ctx = "none"
  BY <1>1 DEF IInv, TagsWellFormed
<1>5. /\ Unacked' = Unacked /\ OwnUnacked' = OwnUnacked /\ Slots' = Slots
      /\ DrainTags' = DrainTags \cup {t} /\ Place("buffered")' = Place("buffered") \ {t}
      /\ t \in Place("buffered")
  BY <1>1, <1>2, <1>4 DEF Unacked, OwnUnacked, Slots, Place, DrainTags
<1>6. \A u \in Tags : delivery'[u].msg = delivery[u].msg
  BY <1>2
<1>7. TypeOK'
  BY <1>1, <1>2 DEF IInv, TypeOK
<1>8. TagsWellFormed'
  BY <1>1, <1>2 DEF IInv, TagsWellFormed
<1>9. LoopWellFormed'
  BY <1>1, <1>5 DEF IInv, LoopWellFormed
<1>10. DrainWellFormed'
  BY <1>1, <1>2, <1>3, <1>5 DEF IInv, DrainWellFormed, DrainPhase, DrainTags
<1>11. OnePlace'
  <2>1. {delivery[u].msg : u \in Unacked}' = {delivery[u].msg : u \in Unacked}
    BY <1>5, <1>6 DEF Unacked
  <2> QED
    BY <1>1, <1>5, <1>6, <2>1 DEF IInv, OnePlace, Unacked
<1>12. DrainedSettledOnce'
  BY <1>1, <1>2, <1>4, <1>5 DEF IInv, DrainedSettledOnce, DrainTags
<1>13. DrainedNotDropped'
  <2>1. delivery[t].msg \notin dropped
    BY <1>4 DEF IInv, OnePlace, Unacked
  <2> QED
    BY <1>1, <1>2, <2>1 DEF IInv, DrainedNotDropped
<1>14. PrefetchInv' /\ SlotsInv'
  <2>1. DrainTags' \cup Place("buffered")' = DrainTags \cup Place("buffered")
    BY <1>5
  <2> QED
    BY <1>1, <1>5, <2>1 DEF IInv, PrefetchInv, SlotsInv
<1> QED
  BY <1>7, <1>8, <1>9, <1>10, <1>11, <1>12, <1>13, <1>14 DEF IInv

-----------------------------------------------------------------------------
(* A handler returns, and its delivery is acked or nacked                  *)

LEMMA HandlerStep ==
  ASSUME IInv, NEW t \in Tags, Handler(t)
  PROVE  IInv'
<1>1. delivery[t].at = "running" /\ UNCHANGED <<loop, root, drainCtx, channel, stream, ready, held>>
  BY DEF Handler, HandlerSucceeds, HandlerFails, HandlerFaults, Place
<1>2. faults' \in 0..MaxFaults
  <2>1. faults' = faults \/ (faults < MaxFaults /\ faults' = faults + 1)
    <3>1. CASE HandlerSucceeds(t) \/ HandlerFails(t)
      BY <3>1 DEF HandlerSucceeds, HandlerFails
    <3>2. CASE HandlerFaults(t)
      BY <3>2 DEF HandlerFaults, Fault
    <3> QED
      BY <3>1, <3>2 DEF Handler
  <2> QED
    BY <2>1, ConsumerAssumption DEF IInv, TypeOK
<1>3. delivery[t].ctx \in {"root", "drain"} /\ ~delivery[t].failed
  BY <1>1, FieldTypes DEF IInv, TagsWellFormed
<1>4. PICK v \in {"ack", "nack"}, f \in BOOLEAN :
        /\ Settle(t, v, f)
        /\ v = "nack" /\ ~f /\ delivery[t].ctx = "drain" => drainCtx = "expired"
  <2>1. CASE HandlerSucceeds(t)
    BY <2>1 DEF HandlerSucceeds
  <2>2. CASE HandlerFails(t)
    <3>1. Settle(t, "nack", FALSE)
      BY <2>2 DEF HandlerFails
    <3>2. delivery[t].ctx = "drain" => drainCtx = "expired"
      BY <2>2 DEF HandlerFails, Cancelled, IInv, DrainWellFormed, DrainTags
    <3> QED
      BY <3>1, <3>2
  <2>3. CASE HandlerFaults(t)
    BY <2>3 DEF HandlerFaults
  <2> QED
    BY <2>1, <2>2, <2>3 DEF Handler
<1>5. /\ delivery' \in Seq(DeliveryRec) /\ Tags' = Tags
      /\ \A u \in Tags : u # t => delivery'[u] = delivery[u]
      /\ delivery'[t].msg = delivery[t].msg /\ delivery'[t].at = "ended"
      /\ delivery'[t].own = delivery[t].own /\ ~delivery'[t].unacked
      /\ delivery'[t].ctx = delivery[t].ctx /\ delivery'[t].begun = delivery[t].begun
      /\ delivery'[t].failed = f
      /\ acked' = IF delivery[t].unacked /\ v = "ack"
                  THEN acked \cup {delivery[t].msg} ELSE acked
      /\ dropped' = IF delivery[t].unacked /\ v = "nack"
                    THEN dropped \cup {delivery[t].msg} ELSE dropped
  BY <1>4, SettleEffect DEF IInv
<1>6. /\ Unacked' = Unacked \ {t} /\ OwnUnacked' \subseteq OwnUnacked
      /\ DrainTags' = DrainTags /\ Slots' \subseteq Slots
      /\ Place("buffered")' = Place("buffered") /\ Place("held")' = Place("held")
  BY <1>1, <1>5 DEF Unacked, OwnUnacked, DrainTags, Slots, Place
<1>7. \A u \in Tags : delivery'[u].msg = delivery[u].msg
  BY <1>5
<1>8. TypeOK'
  <2>1. acked' \in SUBSET Message /\ dropped' \in SUBSET Message
    BY <1>5, FieldTypes DEF IInv, TypeOK
  <2> QED
    BY <1>1, <1>2, <1>5, <2>1 DEF IInv, TypeOK
<1>9. TagsWellFormed'
  BY <1>1, <1>5 DEF IInv, TagsWellFormed
<1>10. LoopWellFormed'
  BY <1>1, <1>6 DEF IInv, LoopWellFormed
<1>11. DrainWellFormed'
  BY <1>1, <1>5, <1>6 DEF IInv, DrainWellFormed, DrainPhase, DrainTags
<1>12. OnePlace'
  <2>1. CASE delivery[t].unacked
    <3>1. t \in Unacked /\ acked' \cup dropped' = acked \cup dropped \cup {delivery[t].msg}
      BY <2>1, <1>5 DEF Unacked
    <3>2. {delivery[u].msg : u \in Unacked} =
            {delivery[u].msg : u \in Unacked}' \cup {delivery[t].msg}
      BY <3>1, <1>6, <1>7 DEF Unacked
    <3>3. Message' = ready' \cup acked' \cup dropped' \cup {delivery[u].msg : u \in Unacked}'
      BY <1>1, <3>1, <3>2 DEF IInv, OnePlace
    <3>4. delivery[t].msg \notin ready \cup acked \cup dropped
      BY <3>1 DEF IInv, OnePlace
    <3>5. ready' \cap (acked' \cup dropped') = {} /\ acked' \cap dropped' = {}
      BY <1>1, <1>5, <3>1, <3>4 DEF IInv, OnePlace
    <3>6. \A u \in Unacked' : delivery'[u].msg \notin ready' \cup acked' \cup dropped'
      BY <1>1, <1>6, <1>7, <3>1 DEF IInv, OnePlace, Unacked
    <3>7. (\A s, u \in Unacked : delivery[s].msg = delivery[u].msg => s = u)'
      BY <1>6, <1>7 DEF IInv, OnePlace, Unacked
    <3> QED
      BY <3>3, <3>5, <3>6, <3>7 DEF OnePlace
  <2>2. CASE ~delivery[t].unacked
    <3>1. Unacked' = Unacked /\ acked' = acked /\ dropped' = dropped
      BY <2>2, <1>5, <1>6 DEF Unacked
    <3>2. {delivery[u].msg : u \in Unacked}' = {delivery[u].msg : u \in Unacked}
      BY <3>1, <1>7 DEF Unacked
    <3> QED
      BY <1>1, <1>7, <3>1, <3>2 DEF IInv, OnePlace, Unacked
  <2> QED
    BY <2>1, <2>2
<1>13. DrainedSettledOnce'
  BY <1>1, <1>4, <1>5, <1>6 DEF IInv, DrainedSettledOnce, DrainTags
<1>14. DrainedNotDropped'
  <2> SUFFICES ASSUME NEW u \in Tags, delivery[u].ctx = "drain",
                      delivery[u].msg \in dropped', ~delivery'[u].failed
               PROVE  drainCtx = "expired"
    BY <1>1, <1>5 DEF DrainedNotDropped
  <2>1. CASE delivery[u].msg \in dropped
    BY <2>1, <1>3, <1>5 DEF IInv, DrainedNotDropped
  <2>2. CASE delivery[u].msg \notin dropped
    <3>1. delivery[u].msg = delivery[t].msg /\ delivery[t].unacked /\ v = "nack"
      BY <2>2, <1>5
    <3>2. delivery[u].unacked
      BY <3>1 DEF IInv, DrainedSettledOnce, DrainTags, OnePlace, LoopWellFormed, Unacked
    <3>3. u = t
      BY <3>1, <3>2 DEF IInv, OnePlace, Unacked
    <3> QED
      BY <3>1, <3>3, <1>4, <1>5
  <2> QED
    BY <2>1, <2>2
<1>15. PrefetchInv'
  <2>1. Cardinality(OwnUnacked') <= Cardinality(OwnUnacked)
        /\ Cardinality(OwnUnacked) \in Nat /\ Cardinality(OwnUnacked') \in Nat
    BY <1>6, NoMore, FS_CardinalityType DEF IInv, OwnUnacked, Unacked
  <2>2. Cardinality(OwnUnacked') <= PrefetchCount
    BY <2>1, ConsumerAssumption DEF IInv, PrefetchInv
  <2>3. (DrainTags \cup Place("buffered"))' = DrainTags \cup Place("buffered")
    BY <1>6
  <2> QED
    BY <1>1, <2>2, <2>3 DEF IInv, PrefetchInv
<1>16. SlotsInv'
  <2>1. Cardinality(Slots') <= Cardinality(Slots)
        /\ Cardinality(Slots) \in Nat /\ Cardinality(Slots') \in Nat
    BY <1>6, NoMore DEF IInv, Slots, Place
  <2> QED
    BY <2>1, ConsumerAssumption DEF IInv, SlotsInv
<1> QED
  BY <1>8, <1>9, <1>10, <1>11, <1>12, <1>13, <1>14, <1>15, <1>16 DEF IInv

-----------------------------------------------------------------------------
(* Run begins again, the channel closes, the process exits                 *)

LEMMA ConsumeStep ==
  ASSUME IInv, Consume
  PROVE  IInv'
<1>1. /\ loop = "start" /\ loop' \in {"select", "failed"}
      /\ UNCHANGED <<root, drainCtx, channel, ready, held, acked, dropped, faults>>
  BY DEF Consume
<1>2. Place("buffered") = {} /\ DrainTags = {} /\ stream # "open"
  BY <1>1 DEF IInv, LoopWellFormed, DrainWellFormed, DrainPhase
<1>3. CASE loop' = "failed" /\ UNCHANGED <<stream, delivery>>
  <2>1. /\ Tags' = Tags /\ Unacked' = Unacked /\ DrainTags' = DrainTags
        /\ OwnUnacked' = OwnUnacked /\ Slots' = Slots
        /\ \A p : Place(p)' = Place(p)
    BY <1>3 DEF Tags, Unacked, DrainTags, OwnUnacked, Slots, Place
  <2>2. TypeOK' /\ TagsWellFormed' /\ LoopWellFormed' /\ DrainWellFormed'
    BY <1>1, <1>2, <1>3, <2>1
    DEF IInv, TypeOK, Loop, TagsWellFormed, LoopWellFormed, DrainWellFormed
  <2>3. OnePlace' /\ DrainedSettledOnce' /\ DrainedNotDropped'
    BY <1>1, <1>3, <2>1 DEF IInv, OnePlace, DrainedSettledOnce, DrainedNotDropped
  <2>4. PrefetchInv' /\ SlotsInv'
    BY <1>1, <1>3, <2>1 DEF IInv, PrefetchInv, SlotsInv, DrainPhase
  <2> QED
    BY <2>2, <2>3, <2>4 DEF IInv
<1>4. CASE /\ channel = "open" /\ stream' = "open" /\ loop' = "select"
           /\ delivery' = [t \in Tags |-> [delivery[t] EXCEPT !.own = FALSE]]
  <2>1. /\ delivery' \in Seq(DeliveryRec) /\ Tags' = Tags
        /\ \A t \in Tags :
             /\ delivery'[t].msg = delivery[t].msg /\ delivery'[t].at = delivery[t].at
             /\ ~delivery'[t].own /\ delivery'[t].unacked = delivery[t].unacked
             /\ delivery'[t].ctx = delivery[t].ctx /\ delivery'[t].begun = delivery[t].begun
             /\ delivery'[t].failed = delivery[t].failed
    BY <1>4, ConsumeEffect DEF IInv
  <2>2. /\ Unacked' = Unacked /\ DrainTags' = {} /\ OwnUnacked' = {}
        /\ Slots' = Slots /\ Place("buffered")' = {} /\ Place("held")' = Place("held")
    BY <1>2, <2>1 DEF Unacked, DrainTags, OwnUnacked, Slots, Place
  <2>3. TypeOK'
    BY <1>1, <1>4, <2>1 DEF IInv, TypeOK, Loop
  <2>4. TagsWellFormed'
    BY <1>2, <2>1 DEF IInv, TagsWellFormed, Place
  <2>5. LoopWellFormed' /\ DrainWellFormed'
    BY <1>1, <1>4, <2>2 DEF LoopWellFormed, DrainWellFormed
  <2>6. OnePlace'
    <3>1. {delivery[u].msg : u \in Unacked}' = {delivery[u].msg : u \in Unacked}
      BY <2>1, <2>2 DEF Unacked
    <3> QED
      BY <1>1, <2>1, <2>2, <3>1 DEF IInv, OnePlace, Unacked
  <2>7. DrainedSettledOnce' /\ DrainedNotDropped'
    BY <2>2 DEF DrainedSettledOnce, DrainedNotDropped, DrainTags
  <2>8. PrefetchInv' /\ SlotsInv'
    <3>1. Cardinality({}) = 0
      BY FS_EmptySet
    <3> QED
      BY <1>4, <2>2, <3>1, ConsumerAssumption DEF IInv, PrefetchInv, SlotsInv, DrainPhase
  <2> QED
    BY <2>3, <2>4, <2>5, <2>6, <2>7, <2>8 DEF IInv
<1> QED
  BY <1>3, <1>4 DEF Consume

\* Another worker serves a message that is ready: no delivery of this consumer
\* that is still unacked has it.
LEMMA ServedElsewhereStep ==
  ASSUME IInv, NEW m \in Message, ServedElsewhere(m)
  PROVE  IInv'
<1>1. /\ m \in ready /\ ready' = ready \ {m} /\ acked' = acked \cup {m}
      /\ UNCHANGED <<loop, root, drainCtx, channel, stream, delivery, held, dropped,
                     faults>>
  BY DEF ServedElsewhere
<1>2. /\ Tags' = Tags /\ Unacked' = Unacked /\ DrainTags' = DrainTags
      /\ OwnUnacked' = OwnUnacked /\ Slots' = Slots
      /\ \A p : Place(p)' = Place(p)
  BY <1>1 DEF Tags, Unacked, DrainTags, OwnUnacked, Slots, Place
<1>3. TypeOK' /\ TagsWellFormed' /\ LoopWellFormed' /\ DrainWellFormed'
  BY <1>1, <1>2
  DEF IInv, TypeOK, TagsWellFormed, LoopWellFormed, DrainWellFormed
<1>4. OnePlace'
  <2>1. {delivery[t].msg : t \in Unacked}' = {delivery[t].msg : t \in Unacked}
    BY <1>1, <1>2
  <2>2. m \notin acked \cup dropped /\ \A t \in Unacked : delivery[t].msg # m
    BY <1>1 DEF IInv, OnePlace
  <2> QED
    BY <1>1, <1>2, <2>1, <2>2 DEF IInv, OnePlace
<1>5. DrainedSettledOnce' /\ DrainedNotDropped'
  BY <1>1, <1>2 DEF IInv, DrainedSettledOnce, DrainedNotDropped
<1>6. PrefetchInv' /\ SlotsInv'
  BY <1>1, <1>2 DEF IInv, PrefetchInv, SlotsInv
<1> QED
  BY <1>3, <1>4, <1>5, <1>6 DEF IInv

LEMMA CloseChannelStep ==
  ASSUME IInv, CloseChannel
  PROVE  IInv'
<1>1. /\ channel' = "closed" /\ Requeued
      /\ stream' \in {"none", "cancelled"}
      /\ faults < MaxFaults /\ faults' = faults + 1
      /\ UNCHANGED <<loop, root, drainCtx, held, acked, dropped>>
  BY DEF CloseChannel, Fault
<1>2. /\ delivery' \in Seq(DeliveryRec) /\ Tags' = Tags
      /\ \A t \in Tags :
           /\ delivery'[t].msg = delivery[t].msg
           /\ delivery'[t].at = (IF delivery[t].at = "buffered" THEN "ended"
                                 ELSE delivery[t].at)
           /\ delivery'[t].own = delivery[t].own /\ ~delivery'[t].unacked
           /\ delivery'[t].ctx = delivery[t].ctx /\ delivery'[t].begun = delivery[t].begun
           /\ delivery'[t].failed = delivery[t].failed
  BY <1>1, RequeuedEffect DEF IInv
<1>3. ready' = ready \cup {delivery[t].msg : t \in Unacked}
  BY <1>1 DEF Requeued
<1>4. /\ Unacked' = {} /\ OwnUnacked' = {} /\ DrainTags' = DrainTags /\ Slots' = Slots
      /\ Place("buffered")' = {} /\ Place("held")' = Place("held")
  BY <1>2 DEF Unacked, OwnUnacked, DrainTags, Slots, Place
<1>5. Cardinality({}) = 0
  BY FS_EmptySet
<1>6. TypeOK'
  <2>1. ready' \in SUBSET Message
    BY <1>3, FieldTypes DEF IInv, TypeOK, Unacked
  <2>2. faults' \in 0..MaxFaults
    BY <1>1, ConsumerAssumption DEF IInv, TypeOK
  <2> QED
    BY <1>1, <1>2, <2>1, <2>2 DEF IInv, TypeOK
<1>7. TagsWellFormed'
  BY <1>2 DEF IInv, TagsWellFormed
<1>8. LoopWellFormed'
  BY <1>1, <1>4 DEF IInv, LoopWellFormed
<1>9. DrainWellFormed'
  BY <1>1, <1>2, <1>4 DEF IInv, DrainWellFormed, DrainPhase, DrainTags
<1>10. OnePlace'
  BY <1>1, <1>3, <1>4 DEF IInv, OnePlace
<1>11. DrainedSettledOnce'
  BY <1>1 DEF DrainedSettledOnce
<1>12. DrainedNotDropped'
  BY <1>1, <1>2 DEF IInv, DrainedNotDropped
<1>13. PrefetchInv'
  <2>1. loop \in DrainPhase =>
          Cardinality(DrainTags) <= Cardinality(DrainTags \cup Place("buffered"))
          /\ Cardinality(DrainTags) \in Nat
          /\ Cardinality(DrainTags \cup Place("buffered")) \in Nat
    BY NoMore DEF IInv, DrainTags, Place
  <2>2. (DrainTags \cup Place("buffered"))' = DrainTags
    BY <1>4
  <2>3. loop \in DrainPhase => Cardinality(DrainTags) <= PrefetchCount
    BY <2>1, ConsumerAssumption DEF IInv, PrefetchInv
  <2> QED
    BY <1>1, <1>4, <1>5, <2>2, <2>3, ConsumerAssumption DEF PrefetchInv, DrainPhase
<1>14. SlotsInv'
  BY <1>4 DEF IInv, SlotsInv
<1> QED
  BY <1>6, <1>7, <1>8, <1>9, <1>10, <1>11, <1>12, <1>13, <1>14 DEF IInv

LEMMA ExitStep ==
  ASSUME IInv, Exit
  PROVE  IInv'
<1>1. /\ loop = "returned" /\ loop' = "exited" /\ channel' = "closed"
      /\ ready' = ready \cup {delivery[t].msg : t \in Unacked} /\ held' = NoDelivery
      /\ UNCHANGED <<root, drainCtx, stream, acked, dropped, faults>>
  BY DEF Exit
<1>2. /\ delivery' \in Seq(DeliveryRec) /\ Tags' = Tags
      /\ \A t \in Tags :
           /\ delivery'[t].msg = delivery[t].msg /\ delivery'[t].at = "ended"
           /\ delivery'[t].own = delivery[t].own /\ ~delivery'[t].unacked
           /\ delivery'[t].ctx = delivery[t].ctx /\ delivery'[t].begun = delivery[t].begun
           /\ delivery'[t].failed = delivery[t].failed
  BY ExitEffect DEF IInv
<1>3. /\ Unacked' = {} /\ OwnUnacked' = {} /\ DrainTags' = DrainTags /\ Slots' = {}
      /\ Place("buffered")' = {}
  BY <1>2 DEF Unacked, OwnUnacked, DrainTags, Slots, Place
<1>4. Cardinality({}) = 0
  BY FS_EmptySet
<1>5. TypeOK'
  <2>1. ready' \in SUBSET Message
    BY <1>1, FieldTypes DEF IInv, TypeOK, Unacked
  <2> QED
    BY <1>1, <1>2, <2>1 DEF IInv, TypeOK, Loop
<1>6. TagsWellFormed'
  BY <1>2 DEF TagsWellFormed
<1>7. LoopWellFormed' /\ DrainWellFormed'
  BY <1>1, <1>2, <1>3 DEF IInv, LoopWellFormed, DrainWellFormed, DrainPhase, DrainTags
<1>8. OnePlace'
  BY <1>1, <1>3 DEF IInv, OnePlace
<1>9. DrainedSettledOnce'
  BY <1>1 DEF DrainedSettledOnce
<1>10. DrainedNotDropped'
  BY <1>1, <1>2 DEF IInv, DrainedNotDropped
<1>11. PrefetchInv' /\ SlotsInv'
  <2>1. /\ Cardinality(DrainTags) <= Cardinality(DrainTags \cup Place("buffered"))
        /\ Cardinality(DrainTags) \in Nat
        /\ Cardinality(DrainTags \cup Place("buffered")) \in Nat
    BY NoMore DEF IInv, DrainTags, Place
  <2>2. (DrainTags \cup Place("buffered"))' = DrainTags
    BY <1>3
  <2>3. Cardinality(DrainTags) <= PrefetchCount
    BY <1>1, <2>1, ConsumerAssumption DEF IInv, PrefetchInv, DrainPhase
  <2>4. 0 <= PrefetchCount /\ 0 <= Concurrency
    BY ConsumerAssumption
  <2>5. PrefetchInv'
    BY <1>3, <1>4, <2>2, <2>3, <2>4 DEF PrefetchInv
  <2>6. SlotsInv'
    BY <1>3, <1>4, <2>4 DEF SlotsInv
  <2> QED
    BY <2>5, <2>6
<1> QED
  BY <1>5, <1>6, <1>7, <1>8, <1>9, <1>10, <1>11 DEF IInv

-----------------------------------------------------------------------------
(* The invariant always holds                                              *)

LEMMA StutterStep ==
  ASSUME IInv, UNCHANGED vars
  PROVE  IInv'
BY DEF vars, IInv, TypeOK, TagsWellFormed, LoopWellFormed, DrainWellFormed, OnePlace,
       DrainedSettledOnce, DrainedNotDropped, PrefetchInv, SlotsInv, Tags, Unacked,
       OwnUnacked, DrainTags, Slots, Place, DrainPhase

LEMMA NextIInv ==
  ASSUME IInv, [Next]_vars
  PROVE  IInv'
<1>1. CASE LoopOnly
  BY <1>1, LoopOnlyStep
<1>2. CASE Consume
  BY <1>2, ConsumeStep
<1>3. CASE Process
  BY <1>3, ProcessStep
<1>4. CASE \E t \in Tags : TakeDelivery(t)
  BY <1>4, TakeStep
<1>5. CASE \E t \in Tags : DrainDelivery(t)
  BY <1>5, DrainDeliveryStep
<1>6. CASE \E t \in Tags : Handler(t)
  BY <1>6, HandlerStep
<1>7. CASE \E m \in Message : Push(m)
  BY <1>7, PushStep
<1>8. CASE CloseChannel
  BY <1>8, CloseChannelStep
<1>9. CASE Exit
  BY <1>9, ExitStep
<1>10. CASE UNCHANGED vars
  BY <1>10, StutterStep
<1>11. CASE \E m \in Message : ServedElsewhere(m)
  BY <1>11, ServedElsewhereStep
<1> QED
  BY <1>1, <1>2, <1>3, <1>4, <1>5, <1>6, <1>7, <1>8, <1>9, <1>10, <1>11
  DEF Next, Run, LoopOnly

THEOREM InvariantHolds == Spec => []IInv
<1>1. Init => IInv
  BY InitIInv
<1>2. IInv /\ [Next]_vars => IInv'
  BY NextIInv
<1> QED
  BY <1>1, <1>2, PTL DEF Spec

-----------------------------------------------------------------------------
(* What the consumer promises                                              *)

\* A delivery the loop holds, a context, the fault count and every set of
\* messages keep their range in every behaviour.
THEOREM ConsumerTypeCorrect == Spec => []TypeOK
<1>1. IInv => TypeOK
  BY DEF IInv
<1> QED
  BY <1>1, InvariantHolds, PTL

\* Every message is ready, in exactly one unacked delivery, acked, or dropped,
\* whatever the order of pushes, acks, a channel that closes under running
\* handlers, restarts of Run and the exit of the process (consumer.go:165-183).
THEOREM EachMessageInOnePlaceHolds == Spec => []EachMessageInOnePlace
<1>1. IInv => EachMessageInOnePlace
  <2> SUFFICES ASSUME IInv, NEW m \in Message,
                      NEW U, U = {t \in Unacked : delivery[t].msg = m}
               PROVE  \/ U = {} /\ m \in ready /\ m \notin acked \cup dropped
                      \/ U = {} /\ m \notin ready /\ m \in acked /\ m \notin dropped
                      \/ U = {} /\ m \notin ready /\ m \notin acked /\ m \in dropped
                      \/ Cardinality(U) = 1 /\ m \notin ready \cup acked \cup dropped
    BY DEF EachMessageInOnePlace
  <2>1. CASE \E t \in Unacked : delivery[t].msg = m
    <3>1. PICK t \in Unacked : delivery[t].msg = m
      BY <2>1
    <3>2. U = {t}
      BY <3>1 DEF IInv, OnePlace
    <3> QED
      BY <3>1, <3>2, FS_Singleton DEF IInv, OnePlace
  <2>2. CASE ~\E t \in Unacked : delivery[t].msg = m
    BY <2>2 DEF IInv, OnePlace
  <2> QED
    BY <2>1, <2>2
<1> QED
  BY <1>1, InvariantHolds, PTL

\* The handlers that run outside a drain never exceed the semaphore's
\* capacity, nor those of a drain one prefetch (consumer.go:39, 123, 144-161),
\* for every capacity and every prefetch count at least as large.
THEOREM HandlersBoundedHolds == Spec => []HandlersBounded
<1>1. IInv => HandlersBounded
  <2> SUFFICES ASSUME IInv
               PROVE  HandlersBounded
    OBVIOUS
  <2>1. {t \in Running : delivery[t].ctx # "drain"} = Slots
    BY FieldTypes DEF IInv, TagsWellFormed, Running, Slots, Place
  <2>2. Cardinality(DrainTags) <= PrefetchCount
    <3>1. CASE loop \in DrainPhase
      <4>1. /\ Cardinality(DrainTags) <= Cardinality(DrainTags \cup Place("buffered"))
            /\ Cardinality(DrainTags) \in Nat
            /\ Cardinality(DrainTags \cup Place("buffered")) \in Nat
        BY NoMore DEF IInv, DrainTags, Place
      <4> QED
        BY <3>1, <4>1, ConsumerAssumption DEF IInv, PrefetchInv
    <3>2. CASE loop \notin DrainPhase
      BY <3>2, FS_EmptySet, ConsumerAssumption DEF IInv, DrainWellFormed
    <3> QED
      BY <3>1, <3>2
  <2> QED
    BY <2>1, <2>2 DEF IInv, SlotsInv, HandlersBounded, DrainTags
<1> QED
  BY <1>1, InvariantHolds, PTL

\* What a drain hands out is dropped only by a failing handler or after the
\* drain's deadline, however shutdown, timers and handlers interleave
\* (consumer.go:126, 146).
THEOREM DrainedNotDroppedHolds == Spec => []DrainedNotDropped
<1>1. IInv => DrainedNotDropped
  BY DEF IInv
<1> QED
  BY <1>1, InvariantHolds, PTL
=============================================================================
