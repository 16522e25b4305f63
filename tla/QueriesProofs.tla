--------------------------- MODULE QueriesProofs ----------------------------
(***************************************************************************)
(* Machine-checked proofs about Queries, for every number of notifications,*)
(* batches, readers and clients.                                           *)
(***************************************************************************)
EXTENDS QueriesInvariant, FiniteSetTheorems, TLAPS

-----------------------------------------------------------------------------
(* Counting                                                                *)

\* The rows of a batch, counted status by status, add up.
LEMMA CountsAddUp ==
  ASSUME NEW S \in SUBSET Notification, status \in [Notification -> Status],
         NEW n, n = [s \in Status |-> Cardinality({m \in S : status[m] = s})]
  PROVE  /\ n \in [Status -> Nat]
         /\ Cardinality(S) = n["pending"] + n["delivered"] + n["failed"] + n["cancelled"]
         /\ n["pending"] = 0 => \A m \in S : status[m] # "pending"
<1> DEFINE Of(s) == {m \in S : status[m] = s}
<1>1. IsFiniteSet(S)
  BY FS_Subset, QueriesAssumption
<1>2. \A s \in Status : IsFiniteSet(Of(s)) /\ Cardinality(Of(s)) \in Nat
  <2> TAKE s \in Status
  <2>1. Of(s) \in SUBSET S
    OBVIOUS
  <2>2. IsFiniteSet(Of(s))
    BY <1>1, <2>1, FS_Subset
  <2> QED
    BY <2>2, FS_CardinalityType
<1>3. /\ n["pending"] = Cardinality(Of("pending"))
      /\ n["delivered"] = Cardinality(Of("delivered"))
      /\ n["failed"] = Cardinality(Of("failed"))
      /\ n["cancelled"] = Cardinality(Of("cancelled"))
  BY DEF Status
<1>4. ASSUME NEW A, NEW B, IsFiniteSet(A), IsFiniteSet(B), A \cap B = {}
      PROVE  IsFiniteSet(A \cup B)
               /\ Cardinality(A \cup B) = Cardinality(A) + Cardinality(B)
  <2>1. Cardinality(A) \in Nat /\ Cardinality(B) \in Nat
    BY <1>4, FS_CardinalityType
  <2>2. Cardinality(A \cap B) = 0
    BY <1>4, FS_EmptySet
  <2>3. /\ IsFiniteSet(A \cup B)
        /\ Cardinality(A \cup B) = Cardinality(A) + Cardinality(B) - Cardinality(A \cap B)
    BY <1>4, FS_Union
  <2> QED
    BY <2>1, <2>2, <2>3
<1> DEFINE PD == Of("pending") \cup Of("delivered")
           PDF == PD \cup Of("failed")
<1>5. IsFiniteSet(PD)
        /\ Cardinality(PD) = Cardinality(Of("pending")) + Cardinality(Of("delivered"))
  <2>1. Of("pending") \cap Of("delivered") = {}
    OBVIOUS
  <2> QED
    BY <1>2, <1>4, <2>1 DEF Status
<1>6. IsFiniteSet(PDF) /\ Cardinality(PDF) = Cardinality(PD) + Cardinality(Of("failed"))
  <2>1. PD \cap Of("failed") = {}
    OBVIOUS
  <2> QED
    BY <1>2, <1>4, <1>5, <2>1 DEF Status
<1>7. Cardinality(S) = Cardinality(PDF) + Cardinality(Of("cancelled"))
  <2>1. PDF \cap Of("cancelled") = {}
    OBVIOUS
  <2>2. S = PDF \cup Of("cancelled")
    BY DEF Status
  <2> QED
    BY <1>2, <1>4, <1>6, <2>1, <2>2 DEF Status
<1>8. n["pending"] = 0 => Of("pending") = {}
  BY <1>2, <1>3, FS_EmptySet DEF Status
<1>9. n \in [Status -> Nat]
  BY <1>2
<1> QED
  BY <1>2, <1>3, <1>5, <1>6, <1>7, <1>8, <1>9 DEF Status

-----------------------------------------------------------------------------
(* What is stored or settled stays so                                      *)

Grows ==
  /\ rows \subseteq rows' /\ batches \subseteq batches'
  /\ \A m \in Notification : Settled(m) => Settled(m)'

\* Where neither rows nor status nor batches change, nothing is lost.
LEMMA GrowsUnchanged ==
  ASSUME UNCHANGED <<rows, status, batches>>
  PROVE  Grows
BY DEF Grows, Settled

\* What was true of a client's request stays true while others write.
LEMMA CallKept ==
  ASSUME NEW c \in Client, StoreTypeOK, CallInv(call[c]), call'[c] = call[c], Grows
  PROVE  CallInv(call[c])'
<1>1. call[c].op = "cancel" => CallInv(call[c])'
  <2>1. \A m : Settled(m) => Settled(m)'
    BY DEF Grows, Settled, StoreTypeOK
  <2> QED
    BY <2>1 DEF CallInv
<1>2. call[c].op = "summary" => CallInv(call[c])'
  <2>1. \A b : RowsOf(b)' = RowsOf(b) /\ \A m \in RowsOf(b) : m \in Notification
    BY DEF RowsOf
  <2>2. \A b : (\A m \in RowsOf(b) : Settled(m)) => \A m \in RowsOf(b) : Settled(m)'
    BY <2>1 DEF Grows
  <2>3. batches \subseteq batches'
    BY DEF Grows
  <2> QED
    BY <2>1, <2>2, <2>3 DEF CallInv, AddsUp
<1> QED
  BY <1>1, <1>2 DEF StoreTypeOK, CallRec

\* So do all requests, in a step that moves none of them.
LEMMA CallsKept ==
  ASSUME StoreTypeOK, \A d \in Client : CallInv(call[d]), Grows, UNCHANGED call
  PROVE  \A d \in Client : CallInv(call[d])'
BY CallKept

\* A step that moves one client need only show the invariant of that client.
LEMMA OneCallMoves ==
  ASSUME NEW c \in Client, StoreTypeOK, \A d \in Client : CallInv(call[d]), Grows,
         \A d \in Client : d # c => call'[d] = call[d], CallInv(call[c])'
  PROVE  \A d \in Client : CallInv(call[d])'
<1> SUFFICES ASSUME NEW d \in Client PROVE CallInv(call[d])'
  OBVIOUS
<1>1. CASE d = c
  BY <1>1
<1>2. CASE d # c
  BY <1>2, CallKept
<1> QED
  BY <1>1, <1>2

-----------------------------------------------------------------------------
(* The inductive invariant                                                 *)

\* It holds of the empty tables.
LEMMA InitIInv == Init => IInv
<1> SUFFICES ASSUME Init PROVE IInv
  OBVIOUS
<1>1. NoCall \in CallRec
  BY DEF NoCall, CallRec, Status
<1>2. StoreTypeOK
  BY <1>1 DEF Init, StoreTypeOK, Status
<1>3. RowsInv
  BY DEF Init, RowsInv, Settled
<1>4. \A c \in Client : CallInv(call[c])
  BY DEF Init, CallInv, NoCall
<1> QED
  BY <1>2, <1>3, <1>4 DEF IInv

\* One row is stored.
LEMMA InsertIInv ==
  ASSUME IInv, NEW m \in Notification, Insert(m)
  PROVE  IInv'
<1>1. StoreTypeOK'
  BY DEF IInv, StoreTypeOK, Insert
<1>2. RowsInv'
  BY DEF IInv, StoreTypeOK, RowsInv, Settled, Insert, RowsOf
<1>3. Grows
  BY DEF Insert, Grows, Settled
<1>4. \A c \in Client : CallInv(call[c])'
  BY <1>3, CallsKept DEF IInv, Insert
<1> QED
  BY <1>1, <1>2, <1>4 DEF IInv

\* A batch is stored with its rows.
LEMMA InsertBatchIInv ==
  ASSUME IInv, NEW b \in Batch, InsertBatch(b)
  PROVE  IInv'
<1>1. StoreTypeOK'
  BY DEF IInv, StoreTypeOK, InsertBatch, RowsOf
<1>2. RowsInv'
  BY DEF IInv, StoreTypeOK, RowsInv, Settled, InsertBatch, RowsOf
<1>3. Grows
  BY DEF InsertBatch, Grows, Settled
<1>4. \A c \in Client : CallInv(call[c])'
  BY <1>3, CallsKept DEF IInv, InsertBatch
<1> QED
  BY <1>1, <1>2, <1>4 DEF IInv

\* A worker's verdict settles the notification, whatever its status was.
LEMMA UpdateStatusIInv ==
  ASSUME IInv, NEW m \in Notification, NEW s \in {"delivered", "failed"},
         UpdateStatus(m, s)
  PROVE  IInv'
<1>1. StoreTypeOK'
  BY DEF IInv, StoreTypeOK, UpdateStatus, Status
<1>2. RowsInv'
  BY DEF IInv, StoreTypeOK, RowsInv, Settled, UpdateStatus, RowsOf
<1>3. Grows
  BY DEF IInv, StoreTypeOK, UpdateStatus, Grows, Settled
<1>4. \A c \in Client : CallInv(call[c])'
  BY <1>3, CallsKept DEF IInv, UpdateStatus
<1> QED
  BY <1>1, <1>2, <1>4 DEF IInv

\* Lists only read.
LEMMA ListIInv ==
  ASSUME IInv, NEW r \in Reader, List(r)
  PROVE  IInv'
<1>1. UNCHANGED <<rows, status, batches, call, cancels>>
  BY DEF List, ParseListParams, CountMatching, SelectPage, NextPage, ListFails, db
<1>2. StoreTypeOK'
  BY <1>1 DEF IInv, StoreTypeOK
<1>3. RowsInv'
  BY <1>1 DEF IInv, RowsInv, Settled
<1>4. \A c \in Client : CallInv(call[c])'
  BY <1>1, GrowsUnchanged, CallsKept DEF IInv
<1> QED
  BY <1>2, <1>3, <1>4 DEF IInv

\* A step of a client that leaves the database alone.
LEMMA ReadOnlyIInv ==
  ASSUME IInv, NEW c \in Client, NEW k \in CallRec,
         call' = [call EXCEPT ![c] = k], UNCHANGED <<db, cancels>>,
         CallInv(call[c])'
  PROVE  IInv'
<1>1. StoreTypeOK'
  BY DEF IInv, StoreTypeOK, db
<1>2. RowsInv'
  BY DEF IInv, RowsInv, Settled, db
<1>3. \A d \in Client : d # c => call'[d] = call[d]
  BY DEF IInv, StoreTypeOK
<1>4. Grows
  BY GrowsUnchanged DEF db
<1>5. \A d \in Client : CallInv(call[d])'
  BY <1>3, <1>4, OneCallMoves DEF IInv
<1> QED
  BY <1>1, <1>2, <1>5 DEF IInv

\* An error tells the client nothing.
LEMMA FailsIInv ==
  ASSUME IInv, NEW c \in Client, Fails(c)
  PROVE  NoCall \in CallRec /\ call' = [call EXCEPT ![c] = NoCall] /\ CallInv(call[c])'
<1>1. NoCall \in CallRec
  BY DEF NoCall, CallRec, Status
<1>2. call' = [call EXCEPT ![c] = NoCall]
  BY DEF Fails
<1>3. call'[c] = NoCall
  BY <1>2 DEF IInv, StoreTypeOK
<1>4. CallInv(call[c])'
  BY <1>3 DEF CallInv, NoCall
<1> QED
  BY <1>1, <1>2, <1>4

\* The header is read: the batch is stored, so all of its rows are.
LEMMA ReadHeaderIInv ==
  ASSUME IInv, NEW c \in Client, NEW b \in Batch \cup {NoId}, ReadHeader(c, b)
  PROVE  IInv'
<1> DEFINE found == [NoCall EXCEPT !.op = "summary", !.pc = "second", !.id = b,
                                   !.total = Cardinality(RowsOf(b))]
           absent == [NoCall EXCEPT !.op = "summary", !.pc = "done", !.id = b,
                                    !.code = "404"]
<1>1. UNCHANGED <<db, cancels>>
  BY DEF ReadHeader
<1>2. CASE b \in batches /\ call' = [call EXCEPT ![c] = found]
  <2>1. Cardinality(RowsOf(b)) \in Nat
    BY QueriesAssumption, FS_Subset, FS_CardinalityType DEF RowsOf
  <2>2. found \in CallRec
    BY <2>1 DEF NoCall, CallRec, Status
  <2>3. call'[c] = found
    BY <1>2 DEF IInv, StoreTypeOK
  <2>4. CallInv(call[c])'
    <3>1. /\ call'[c].op = "summary" /\ call'[c].code = "none"
          /\ call'[c].id = b /\ call'[c].total = Cardinality(RowsOf(b))
      BY <2>3 DEF NoCall
    <3>2. RowsOf(b)' = RowsOf(b)
      BY DEF RowsOf
    <3> QED
      BY <1>1, <1>2, <3>1, <3>2 DEF CallInv, db
  <2> QED
    BY <1>1, <1>2, <2>2, <2>4, ReadOnlyIInv
<1>3. CASE Respond(c, "summary", b, "404")
  <2>1. absent \in CallRec
    BY DEF NoCall, CallRec, Status
  <2>2. call' = [call EXCEPT ![c] = absent]
    BY <1>3 DEF Respond
  <2>3. call'[c] = absent
    BY <2>2 DEF IInv, StoreTypeOK
  <2>4. CallInv(call[c])'
    BY <2>3 DEF CallInv, NoCall
  <2> QED
    BY <1>1, <2>1, <2>2, <2>4, ReadOnlyIInv
<1>4. CASE Fails(c)
  BY <1>1, <1>4, FailsIInv, ReadOnlyIInv
<1> QED
  BY <1>2, <1>3, <1>4 DEF ReadHeader

\* The rows are counted: they are the ones that the header counts.
LEMMA CountByStatusIInv ==
  ASSUME IInv, NEW c \in Client, CountByStatus(c)
  PROVE  IInv'
<1> DEFINE stored == RowsOf(call[c].id) \cap rows
           counts == [s \in Status |-> Cardinality({m \in stored : status[m] = s})]
           answer == [call[c] EXCEPT !.pc = "done", !.code = "200", !.counts = counts]
<1>1. UNCHANGED <<db, cancels>>
  BY DEF CountByStatus
<1>2. call[c].pc = "second" /\ call[c].op = "summary" /\ call[c] \in CallRec
  BY DEF CountByStatus, IInv, StoreTypeOK
<1>3. CASE call' = [call EXCEPT ![c].pc = "done", ![c].code = "200", ![c].counts = counts]
  <2>1. call[c].id \in batches /\ call[c].total = Cardinality(RowsOf(call[c].id))
    BY <1>2 DEF IInv, CallInv
  <2>2. stored = RowsOf(call[c].id) /\ stored \in SUBSET Notification
    BY <2>1 DEF IInv, RowsInv, RowsOf
  <2>3. /\ counts \in [Status -> Nat]
        /\ Cardinality(stored) = counts["pending"] + counts["delivered"]
                                   + counts["failed"] + counts["cancelled"]
        /\ counts["pending"] = 0 => \A m \in stored : status[m] # "pending"
    <3>1. stored \in SUBSET Notification /\ status \in [Notification -> Status]
      BY <2>2 DEF IInv, StoreTypeOK
    <3> HIDE DEF stored
    <3> QED
      BY <3>1, CountsAddUp
  <2>4. counts["pending"] = 0 => \A m \in RowsOf(call[c].id) : Settled(m)
    BY <2>2, <2>3 DEF Settled
  <2> HIDE DEF stored, counts
  <2>5. answer \in CallRec
    BY <1>2, <2>3 DEF CallRec
  <2>6. call' = [call EXCEPT ![c] = answer]
    BY <1>2, <1>3 DEF IInv, StoreTypeOK, CallRec
  <2>7. call'[c] = answer
    BY <2>6 DEF IInv, StoreTypeOK
  <2>8. /\ call'[c].op = "summary" /\ call'[c].id = call[c].id
        /\ call'[c].total = call[c].total /\ call'[c].counts = counts
    BY <1>2, <2>7 DEF CallRec
  <2>9. CallInv(call[c])'
    <3>1. \A b : RowsOf(b)' = RowsOf(b)
      BY DEF RowsOf
    <3>2. \A m : Settled(m)' <=> Settled(m)
      BY <1>1 DEF Settled, db
    <3>3. AddsUp(call[c])'
      BY <2>1, <2>2, <2>3, <2>8 DEF AddsUp
    <3> QED
      BY <1>1, <2>1, <2>4, <2>8, <3>1, <3>2, <3>3 DEF CallInv, db
  <2> QED
    BY <1>1, <2>5, <2>6, <2>9, ReadOnlyIInv
<1>4. CASE Fails(c)
  BY <1>1, <1>4, FailsIInv, ReadOnlyIInv
<1> QED
  BY <1>3, <1>4 DEF CountByStatus

\* The UPDATE did not find it pending: a row that is there is settled.
LEMMA CheckExistsIInv ==
  ASSUME IInv, NEW c \in Client, CheckExists(c)
  PROVE  IInv'
<1> DEFINE id == call[c].id
           code == IF id \in rows THEN "409" ELSE "404"
           answer == [NoCall EXCEPT !.op = "cancel", !.pc = "done", !.id = id,
                                    !.code = code]
<1>1. UNCHANGED <<db, cancels>>
  BY DEF CheckExists
<1>2. call[c] \in CallRec /\ (id = NoId \/ Settled(id))
  BY DEF CheckExists, IInv, StoreTypeOK, CallInv
<1>3. CASE Respond(c, "cancel", id, code)
  <2>1. answer \in CallRec
    BY <1>2 DEF NoCall, CallRec, Status
  <2>2. call' = [call EXCEPT ![c] = answer]
    BY <1>3 DEF Respond
  <2>3. call'[c] = answer
    BY <2>2 DEF IInv, StoreTypeOK
  <2>4. /\ call'[c].op = "cancel" /\ call'[c].pc = "done"
        /\ call'[c].id = id /\ call'[c].code = code
    BY <2>3 DEF NoCall
  <2>5. NoId \notin rows
    BY QueriesAssumption DEF IInv, StoreTypeOK
  <2>6. (code = "409" => Settled(id)) /\ (code = "404" => id = NoId) /\ code # "200"
    BY <1>2, <2>5 DEF Settled
  <2>7. \A m : Settled(m)' <=> Settled(m)
    BY <1>1 DEF Settled, db
  <2>8. CallInv(call[c])'
    BY <2>4, <2>6, <2>7 DEF CallInv
  <2> QED
    BY <1>1, <2>1, <2>2, <2>8, ReadOnlyIInv
<1>4. CASE Fails(c)
  BY <1>1, <1>4, FailsIInv, ReadOnlyIInv
<1> QED
  BY <1>3, <1>4 DEF CheckExists

\* The UPDATE settles a pending notification, once.
LEMMA CancelPendingIInv ==
  ASSUME IInv, NEW c \in Client, NEW id \in rows, status[id] = "pending",
         NEW k \in CallRec, call' = [call EXCEPT ![c] = k],
         status' = [status EXCEPT ![id] = "cancelled"],
         cancels' = [cancels EXCEPT ![id] = @ + 1] \/ UNCHANGED cancels,
         UNCHANGED <<rows, batches>>,
         Settled(id)' => CallInv(call[c])'
  PROVE  IInv'
<1>1. id \in Notification
  BY DEF IInv, StoreTypeOK
<1>2. StoreTypeOK'
  BY <1>1 DEF IInv, StoreTypeOK, Status
<1>3. Settled(id)'
  BY <1>1 DEF IInv, StoreTypeOK, Settled
<1>4. \A m \in Notification : Settled(m) => Settled(m)'
  BY DEF IInv, StoreTypeOK, Settled
<1>5. RowsInv'
  <2>1. \A m \in Notification : m # id => status'[m] = status[m] /\ cancels'[m] = cancels[m]
    BY DEF IInv, StoreTypeOK
  <2>2. cancels[id] = 0
    BY <1>1 DEF IInv, StoreTypeOK, RowsInv, Settled
  <2>3. cancels'[id] \in {0, 1}
    BY <1>1, <2>2 DEF IInv, StoreTypeOK
  <2>4. \A m \in Notification :
          m \notin rows' => status'[m] = "pending" /\ cancels'[m] = 0
    BY <2>1 DEF IInv, RowsInv
  <2>5. \A m \in Notification : cancels'[m] <= 1 /\ (cancels'[m] = 1 => Settled(m)')
    BY <1>3, <1>4, <2>1, <2>3 DEF IInv, RowsInv
  <2>6. \A b \in batches' : RowsOf(b)' \subseteq rows'
    BY DEF IInv, RowsInv, RowsOf
  <2> QED
    BY <2>4, <2>5, <2>6 DEF RowsInv
<1>6. Grows
  BY <1>4 DEF Grows
<1>7. \A d \in Client : d # c => call'[d] = call[d]
  BY DEF IInv, StoreTypeOK
<1>8. \A d \in Client : CallInv(call[d])'
  BY <1>3, <1>6, <1>7, OneCallMoves DEF IInv
<1> QED
  BY <1>2, <1>5, <1>8 DEF IInv

\* What the UPDATE does not find pending is settled or not there; an UPDATE
\* that returned an error may have been applied.
LEMMA CancelIfPendingIInv ==
  ASSUME IInv, NEW c \in Client, NEW id \in Notification \cup {NoId},
         CancelIfPending(c, id)
  PROVE  IInv'
<1> DEFINE pending == id \in rows /\ status[id] = "pending"
           cancelled == status' = [status EXCEPT ![id] = "cancelled"]
           ok == [NoCall EXCEPT !.op = "cancel", !.pc = "done", !.id = id, !.code = "200"]
           look == [NoCall EXCEPT !.pc = "second", !.id = id]
<1>1. UNCHANGED <<rows, created, batches>>
  BY DEF CancelIfPending
<1>2. CASE /\ pending /\ cancelled /\ Respond(c, "cancel", id, "200")
           /\ cancels' = [cancels EXCEPT ![id] = @ + 1]
  <2>1. ok \in CallRec
    BY DEF NoCall, CallRec, Status
  <2>2. call' = [call EXCEPT ![c] = ok]
    BY <1>2 DEF Respond
  <2>3. call'[c] = ok
    BY <2>2 DEF IInv, StoreTypeOK
  <2>4. Settled(id)' => CallInv(call[c])'
    BY <2>3 DEF CallInv, NoCall
  <2> QED
    BY <1>1, <1>2, <2>1, <2>2, <2>4, CancelPendingIInv
<1>3. CASE /\ ~pending /\ call' = [call EXCEPT ![c] = look]
           /\ UNCHANGED <<status, cancels>>
  <2>1. look \in CallRec
    BY DEF NoCall, CallRec, Status
  <2>2. call'[c] = look
    BY <1>3 DEF IInv, StoreTypeOK
  <2>3. id = NoId \/ Settled(id)'
    BY <1>1, <1>3 DEF CancelIfPending, Settled
  <2>4. CallInv(call[c])'
    BY <2>2, <2>3 DEF CallInv, NoCall
  <2> QED
    BY <1>1, <1>3, <2>1, <2>4, ReadOnlyIInv DEF db
<1>4. CASE pending /\ cancelled /\ Fails(c) /\ UNCHANGED cancels
  BY <1>1, <1>4, FailsIInv, CancelPendingIInv
<1>5. CASE UNCHANGED status /\ Fails(c) /\ UNCHANGED cancels
  BY <1>1, <1>5, FailsIInv, ReadOnlyIInv DEF db
<1> QED
  BY <1>2, <1>3, <1>4, <1>5 DEF CancelIfPending

\* Every step preserves the invariant.
LEMMA NextIInv == IInv /\ [Next]_vars => IInv'
<1> SUFFICES ASSUME IInv, [Next]_vars PROVE IInv'
  OBVIOUS
<1>1. CASE Write
  BY <1>1, InsertIInv, InsertBatchIInv, UpdateStatusIInv DEF Write
<1>2. CASE \E r \in Reader : List(r)
  BY <1>2, ListIInv
<1>3. CASE \E c \in Client : GetBatchSummary(c)
  BY <1>3, ReadHeaderIInv, CountByStatusIInv DEF GetBatchSummary
<1>4. CASE \E c \in Client : Cancel(c)
  BY <1>4, CancelIfPendingIInv, CheckExistsIInv DEF Cancel
<1>5. CASE UNCHANGED vars
  <2>1. UNCHANGED <<rows, status, batches, call, cancels>>
    BY <1>5 DEF vars
  <2>2. StoreTypeOK'
    BY <2>1 DEF IInv, StoreTypeOK
  <2>3. RowsInv'
    BY <2>1 DEF IInv, RowsInv, Settled
  <2>4. \A c \in Client : CallInv(call[c])'
    BY <2>1, GrowsUnchanged, CallsKept DEF IInv
  <2> QED
    BY <2>2, <2>3, <2>4 DEF IInv
<1> QED
  BY <1>1, <1>2, <1>3, <1>4, <1>5 DEF Next

\* The inductive invariant holds for any number of notifications and clients.
THEOREM QueriesIInv == Spec => []IInv
BY InitIInv, NextIInv, PTL DEF Spec

-----------------------------------------------------------------------------
(* The properties                                                          *)

\* Of all concurrent DELETEs of a notification at most one is answered 200,
\* and 409 and 404 stay true (CancelIfPending,
\* notification_repository.go:269-291).
THEOREM CancelAnswersAreTrueHolds == Spec => []CancelAnswersAreTrue
<1>1. IInv => CancelAnswersAreTrue
  <2> SUFFICES ASSUME IInv PROVE CancelAnswersAreTrue
    OBVIOUS
  <2>1. NoId \notin rows
    BY QueriesAssumption DEF IInv, StoreTypeOK
  <2> QED
    BY <2>1 DEF IInv, RowsInv, CallInv, Settled, CancelAnswersAreTrue
<1> QED
  BY <1>1, QueriesIInv, PTL

\* A batch summary adds up to the total read by the statement before it, and
\* one that shows nothing pending stays true (GetBatchSummary,
\* notification_repository.go:137-150).
THEOREM SummaryIsTrueHolds == Spec => []SummaryIsTrue
<1>1. IInv => SummaryIsTrue
  <2> SUFFICES ASSUME IInv, NEW c \in Client, Summarised(c)
               PROVE  /\ AddsUp(call[c])
                      /\ call[c].counts["pending"] = 0
                           => \A m \in RowsOf(call[c].id) : m \in rows /\ status[m] # "pending"
    BY DEF SummaryIsTrue, AddsUp
  <2> QED
    BY DEF IInv, CallInv, Summarised, Settled
<1> QED
  BY <1>1, QueriesIInv, PTL

-----------------------------------------------------------------------------
(* Integers that wrap                                                      *)

\* A number below twice the modulus.
LEMMA ModOnce ==
  ASSUME NEW n \in Nat, n > 0, NEW x \in Nat, x < 2 * n
  PROVE  x % n = IF x < n THEN x ELSE x - n
<1> DEFINE q == x \div n
           r == x % n
<1>1. q \in Int /\ r \in 0..(n - 1) /\ x = n * q + r
  OBVIOUS
<1> HIDE DEF q, r
<1>2. q >= 0
  <2>1. q <= -1 => n * q <= -n
    BY <1>1
  <2> QED
    BY <1>1, <2>1
<1>3. q < 2
  <2>1. q >= 2 => n * q >= 2 * n
    BY <1>1
  <2> QED
    BY <1>1, <2>1
<1>4. q = 0 => r = x
  BY <1>1
<1>5. q = 1 => r = x - n
  BY <1>1
<1>6. r = IF x < n THEN x ELSE x - n
  BY <1>1, <1>2, <1>3, <1>4, <1>5
<1> QED
  BY <1>6 DEF r

\* An offset that an int cannot hold is negative.
LEMMA WrapFacts ==
  ASSUME NEW i \in Nat, i <= 2 * MaxInt
  PROVE  Wrap(i) = IF i <= MaxInt THEN i ELSE i - 2 * (MaxInt + 1)
<1> DEFINE h == MaxInt + 1
<1>1. h \in Nat /\ h > 0 /\ MaxInt \in Nat
  BY QueriesAssumption
<1>2. (i + MaxInt + 1) % (2 * h)
        = IF i + MaxInt + 1 < 2 * h THEN i + MaxInt + 1 ELSE i + MaxInt + 1 - 2 * h
  BY <1>1, ModOnce
<1> QED
  BY <1>1, <1>2 DEF Wrap

-----------------------------------------------------------------------------
(* Ranks and pages                                                         *)

\* ORDER BY created_at DESC, id DESC is a total order.
LEMMA BeforeOrder ==
  ASSUME created \in [Notification -> Stamp],
         NEW k \in Notification, NEW m \in Notification, NEW n \in Notification
  PROVE  /\ ~Before(m, m)
         /\ Before(k, m) /\ Before(m, n) => Before(k, n)
         /\ k # m => Before(k, m) \/ Before(m, k)
<1>1. /\ created[k] \in Nat /\ created[m] \in Nat /\ created[n] \in Nat
      /\ k \in Nat /\ m \in Nat /\ n \in Nat
  BY QueriesAssumption
<1> QED
  BY <1>1 DEF Before

Below(S, m) == {k \in S : Before(k, m)}

LEMMA RankType ==
  ASSUME NEW S \in SUBSET Notification, NEW m
  PROVE  IsFiniteSet(S) /\ IsFiniteSet(Below(S, m)) /\ Cardinality(Below(S, m)) \in Nat
<1>1. IsFiniteSet(S)
  BY FS_Subset, QueriesAssumption
<1>2. Below(S, m) \in SUBSET S
  BY DEF Below
<1> QED
  BY <1>1, <1>2, FS_Subset, FS_CardinalityType

\* A row that is stored puts others back, never forward.
LEMMA RankGrows ==
  ASSUME NEW S, NEW T \in SUBSET Notification, S \subseteq T, NEW m
  PROVE  Cardinality(Below(S, m)) <= Cardinality(Below(T, m))
<1>1. Below(S, m) \in SUBSET Below(T, m)
  BY DEF Below
<1> QED
  BY <1>1, RankType, FS_Subset

\* Ranks follow the order, so no two rows have the same.
LEMMA RankStrict ==
  ASSUME created \in [Notification -> Stamp], NEW S \in SUBSET Notification,
         NEW k \in S, NEW m \in S, Before(k, m)
  PROVE  Cardinality(Below(S, k)) < Cardinality(Below(S, m))
<1>1. Below(S, k) \in SUBSET Below(S, m)
  BY BeforeOrder DEF Below
<1>2. k \in Below(S, m) /\ k \notin Below(S, k)
  BY BeforeOrder DEF Below
<1>3. /\ Cardinality(Below(S, k)) <= Cardinality(Below(S, m))
      /\ Cardinality(Below(S, k)) # Cardinality(Below(S, m))
  BY <1>1, <1>2, RankType, FS_Subset
<1>4. Cardinality(Below(S, k)) \in Nat /\ Cardinality(Below(S, m)) \in Nat
  BY RankType
<1> QED
  BY <1>3, <1>4

\* If a row lies behind a page, the page is full: the rows before it have all
\* the ranks below its own.
LEMMA FullWindow ==
  ASSUME created \in [Notification -> Stamp], NEW S \in SUBSET Notification,
         NEW o \in Nat, NEW l \in Nat, NEW m \in S,
         Cardinality(Below(S, m)) >= o + l
  PROVE  Cardinality(Window(S, o, l)) >= l
<1> DEFINE D == Below(S, m)
           N == Cardinality(D)
           rank(k) == Cardinality(Below(S, k))
           W == Window(S, o, l)
<1>1. /\ IsFiniteSet(D) /\ N \in Nat /\ D \subseteq S /\ N >= o + l
      /\ \A k : rank(k) \in Nat
  BY RankType DEF Below
<1>2. \A k \in D : rank(k) < N
  BY RankStrict DEF Below
<1>3. \A j, k \in D : rank(j) = rank(k) => j = k
  <2> TAKE j, k \in D
  <2>1. j # k => Before(j, k) \/ Before(k, j)
    BY <1>1, BeforeOrder
  <2>2. Before(j, k) => rank(j) < rank(k)
    BY <1>1, RankStrict
  <2>3. Before(k, j) => rank(k) < rank(j)
    BY <1>1, RankStrict
  <2>4. rank(j) \in Nat /\ rank(k) \in Nat
    BY <1>1
  <2> HIDE DEF rank, D
  <2> QED
    BY <2>1, <2>2, <2>3, <2>4
<1>4. W = {k \in S : rank(k) \in o..(o + l - 1)}
  BY DEF Window, Below
<1> DEFINE f == [k \in D |-> rank(k)]
<1>5. \A j \in 0..(N - 1) : \E k \in D : rank(k) = j
  <2>1. IsFiniteSet(0..(N - 1)) /\ Cardinality(0..(N - 1)) = N
    <3>1. N - 1 \in Int /\ 0 \in Int /\ N \in Nat
      BY <1>1
    <3> HIDE DEF N
    <3>2. /\ IsFiniteSet(0..(N - 1))
          /\ Cardinality(0..(N - 1)) = IF 0 > N - 1 THEN 0 ELSE N - 1 - 0 + 1
      BY <3>1, FS_Interval
    <3> QED
      BY <3>1, <3>2
  <2> HIDE DEF rank, N, D
  <2>2. f \in Injection(D, 0..(N - 1))
    <3>1. \A k \in D : rank(k) \in 0..(N - 1)
      BY <1>1, <1>2
    <3> QED
      BY <1>3, <3>1 DEF Injection, IsInjective
  <2>3. Cardinality(D) = Cardinality(0..(N - 1))
    BY <2>1 DEF N
  <2>4. f \in Surjection(D, 0..(N - 1))
    <3> HIDE DEF f
    <3> QED
      BY <2>1, <2>2, <2>3, FS_Injection
  <2> QED
    BY <2>4 DEF Surjection
<1> DEFINE g == [k \in W |-> rank(k)]
           I == o..(o + l - 1)
<1>6. g \in Surjection(W, I)
  <2> HIDE DEF rank, N, D
  <2>1. \A k \in W : rank(k) \in I
    BY <1>4
  <2>2. \A j \in I : \E k \in W : rank(k) = j
    <3> TAKE j \in I
    <3>1. j \in 0..(N - 1)
      BY <1>1
    <3> QED
      BY <1>1, <1>4, <1>5, <3>1
  <2> HIDE DEF W, I
  <2> QED
    BY <2>1, <2>2 DEF Surjection
<1>7. IsFiniteSet(W)
  <2>1. W \in SUBSET S
    BY DEF Window
  <2> QED
    BY <2>1, RankType, FS_Subset
<1>8. Cardinality(I) = l
  BY FS_Interval
<1>9. Cardinality(I) <= Cardinality(W)
  <2> HIDE DEF g, I, W
  <2> QED
    BY <1>6, <1>7, FS_Surjection
<1> QED
  BY <1>8, <1>9

-----------------------------------------------------------------------------
(* Walks over the pages                                                    *)

LEMMA MatchingType ==
  ASSUME StoreTypeOK, NEW q
  PROVE  Matching(q) \in SUBSET Notification
  BY DEF StoreTypeOK, Matching

\* Rows that are stored behind or before what the client has not seen, and
\* verdicts, leave it ahead.
LEMMA AheadKept ==
  ASSUME StoreTypeOK, NEW l, NEW p \in Nat, l.limit \in Nat, Walks(l.query),
         Ahead(l, p), rows \subseteq rows', rows' \in SUBSET Notification,
         UNCHANGED created
  PROVE  Ahead(l, p)'
<1> SUFFICES ASSUME NEW m \in l.unseen
             PROVE  /\ m \in Matching(l.query)'
                    /\ Rank(l.query, m)' >= (p - 1) * l.limit
  BY DEF Ahead
<1>1. PICK S : S = Matching(l.query)
  OBVIOUS
<1>2. PICK T : T = Matching(l.query)'
  OBVIOUS
<1>3. S \subseteq T /\ T \in SUBSET Notification
  BY <1>1, <1>2 DEF Matching, Walks
<1>4. \A k : Before(k, m)' <=> Before(k, m)
  BY DEF Before
<1>5. Rank(l.query, m) = Cardinality(Below(S, m))
  BY <1>1 DEF Rank, Below
<1>6. Rank(l.query, m)' = Cardinality(Below(T, m))
  <2>1. {k \in Matching(l.query)' : Before(k, m)'} = Below(T, m)
    BY <1>2, <1>4 DEF Below
  <2> QED
    BY <2>1 DEF Rank
<1>7. Cardinality(Below(S, m)) <= Cardinality(Below(T, m))
  BY <1>3, RankGrows
<1>8. Cardinality(Below(S, m)) \in Nat /\ Cardinality(Below(T, m)) \in Nat
  BY <1>3, RankType
<1>9. m \in S /\ Cardinality(Below(S, m)) >= (p - 1) * l.limit
  BY <1>1, <1>5 DEF Ahead
<1>10. (p - 1) * l.limit \in Int
  OBVIOUS
<1> QED
  BY <1>2, <1>3, <1>6, <1>7, <1>8, <1>9, <1>10

\* So a walk goes on undisturbed while others act.
LEMMA WalkKept ==
  ASSUME StoreTypeOK, NEW l, WalkInv(l), rows \subseteq rows',
         rows' \in SUBSET Notification, UNCHANGED created
  PROVE  WalkInv(l)'
<1>1. ASSUME l.pc \in {"count", "page", "answered"}
      PROVE  l.page \in Nat /\ l.page + 1 \in Nat /\ l.limit \in Nat
  BY <1>1, QueriesAssumption DEF WalkInv
<1>2. l.pc \in {"count", "page"} /\ Walks(l.query) => Ahead(l, l.page)'
  <2> SUFFICES ASSUME l.pc \in {"count", "page"}, Walks(l.query)
               PROVE  Ahead(l, l.page)'
    OBVIOUS
  <2>1. l.page \in Nat /\ l.limit \in Nat /\ Ahead(l, l.page)
    BY <1>1 DEF WalkInv
  <2> QED
    BY <2>1, AheadKept
<1>3. l.pc = "answered" /\ Walks(l.query) => Ahead(l, l.page + 1)'
  <2> SUFFICES ASSUME l.pc = "answered", Walks(l.query)
               PROVE  Ahead(l, l.page + 1)'
    OBVIOUS
  <2>1. l.page + 1 \in Nat /\ l.limit \in Nat /\ Ahead(l, l.page + 1)
    BY <1>1 DEF WalkInv
  <2> QED
    BY <2>1, AheadKept
<1> QED
  BY <1>2, <1>3 DEF WalkInv, Walks

\* The first page, or another that a client asks for first.
LEMMA ParsedWalk ==
  ASSUME NEW q \in Query, NEW r, ParseListParams(r, q)
  PROVE  \E k \in ListRec : WalkInv(k) /\ list' = [list EXCEPT ![r] = k]
<1> DEFINE page == OrDefault(q.page, 1)
           limit == OrDefault(q.limit, DefaultLimit)
           good == /\ q.status \in Status \cup {NoParam}
                   /\ q.channel \in Channel \cup {NoParam}
                   /\ page >= 1 /\ LimitOK(limit)
           ok == [NewList EXCEPT !.pc = "count", !.query = q, !.page = page,
                                 !.limit = limit]
           bad == [NewList EXCEPT !.pc = "done", !.query = q, !.code = "400"]
<1>1. list' = [list EXCEPT ![r] = IF good THEN ok ELSE bad]
  BY DEF ParseListParams
<1>2. 0 \in 0..MaxInt /\ 0 \in 0..MaxLimit
  BY QueriesAssumption
<1>3. CASE good
  <2>1. page \in 1..MaxInt
    BY <1>3, QueriesAssumption DEF OrDefault
  <2>2. limit \in 1..MaxLimit
    BY <1>3 DEF LimitOK
  <2>3. page \in 0..MaxInt /\ limit \in 0..MaxLimit /\ limit \in Nat
    BY <2>1, <2>2, QueriesAssumption
  <2>4. Walks(q) => page = 1
    BY DEF Walks, OrDefault
  <2>5. (1 - 1) * limit <= 2 * MaxInt
    BY <2>3, QueriesAssumption
  <2> HIDE DEF page, limit
  <2>6. ok \in ListRec
    BY <2>3 DEF NewList, ListRec
  <2>7. WalkInv(ok)
    <3>1. /\ ok.pc = "count" /\ ok.query = q /\ ok.page = page /\ ok.limit = limit
          /\ ok.unseen = {}
      BY DEF NewList
    <3> HIDE DEF ok
    <3> QED
      BY <2>1, <2>2, <2>4, <2>5, <3>1 DEF WalkInv, Ahead
  <2> QED
    BY <1>1, <1>3, <2>6, <2>7
<1>4. CASE ~good
  <2>1. bad \in ListRec
    BY <1>2 DEF NewList, ListRec
  <2>2. WalkInv(bad)
    BY DEF NewList, WalkInv
  <2> QED
    BY <1>1, <1>4, <2>1, <2>2
<1> QED
  BY <1>3, <1>4

\* The count: on the first page, all that matches is ahead.
LEMMA CountedWalk ==
  ASSUME StoreTypeOK, ListTypeOK, NEW r \in Reader, WalkInv(list[r]), CountMatching(r)
  PROVE  \E k \in ListRec : WalkInv(k) /\ list' = [list EXCEPT ![r] = k]
<1>1. PICK l : l = list[r]
  OBVIOUS
<1> DEFINE match == Matching(l.query)
           seen == IF FirstPage(l) THEN match ELSE l.unseen
           total == Cardinality(match)
           k == [l EXCEPT !.pc = "page", !.total = total, !.unseen = seen]
<1>2. l \in ListRec /\ l.pc = "count" /\ WalkInv(l) /\ list' = [list EXCEPT ![r] = k]
  <2>1. l \in ListRec /\ l.pc = "count" /\ WalkInv(l)
    BY <1>1 DEF CountMatching, ListTypeOK
  <2>2. list' = [list EXCEPT ![r] =
          [list[r] EXCEPT !.pc = "page", !.total = Cardinality(Matching(list[r].query)),
                    !.unseen = IF FirstPage(list[r]) THEN Matching(list[r].query)
                               ELSE list[r].unseen]]
    BY DEF CountMatching
  <2> QED
    BY <1>1, <2>1, <2>2
<1>3. l.page \in 1..MaxInt /\ l.limit \in 1..MaxLimit /\ l.query \in Query
  BY <1>2 DEF WalkInv
<1>4. match \in SUBSET Notification /\ total \in Nat
  <2>1. match \in SUBSET Notification
    BY MatchingType
  <2> QED
    BY <2>1, FS_Subset, FS_CardinalityType, QueriesAssumption
<1>5. seen \in SUBSET Notification
  BY <1>2, <1>4 DEF ListRec
<1>6. ASSUME Walks(l.query)
      PROVE  \A m \in seen : m \in match /\ Rank(l.query, m) >= (l.page - 1) * l.limit
  <2>1. CASE FirstPage(l)
    <3>1. l.page = 1
      BY <1>6, <2>1 DEF FirstPage, OrDefault, Walks
    <3>2. l.limit \in Nat
      BY <1>3, QueriesAssumption
    <3>3. \A m : Rank(l.query, m) = Cardinality(Below(match, m))
      BY DEF Rank, Below
    <3>4. \A m : Rank(l.query, m) \in Nat
      BY <1>4, <3>3, RankType
    <3>5. (l.page - 1) * l.limit = 0
      BY <3>1, <3>2
    <3> QED
      BY <2>1, <3>4, <3>5
  <2>2. CASE ~FirstPage(l)
    BY <1>2, <1>6, <2>2 DEF WalkInv, Ahead
  <2> QED
    BY <2>1, <2>2
<1> HIDE DEF seen, total
<1>7. k \in ListRec
  BY <1>2, <1>4, <1>5 DEF ListRec
<1>8. /\ k.pc = "page" /\ k.query = l.query /\ k.page = l.page
      /\ k.limit = l.limit /\ k.unseen = seen
  BY <1>2 DEF ListRec
<1>9. WalkInv(k)
  <2> HIDE DEF k
  <2> QED
    BY <1>2, <1>3, <1>6, <1>8 DEF WalkInv, Ahead
<1> QED
  BY <1>2, <1>7, <1>9

\* The page: what it does not show lies behind it, and a page that is not
\* full has nothing behind it.
LEMMA SelectedWalk ==
  ASSUME StoreTypeOK, ListTypeOK, NEW r \in Reader, WalkInv(list[r]), SelectPage(r)
  PROVE  \E k \in ListRec : WalkInv(k) /\ list' = [list EXCEPT ![r] = k]
<1>1. PICK l : l = list[r]
  OBVIOUS
<1> DEFINE S == Matching(l.query)
           offset == Offset(l.page, l.limit)
           items == Window(S, offset, l.limit)
           n == Cardinality(items)
           refused == [l EXCEPT !.pc = "done", !.code = "500"]
           k == [l EXCEPT !.items = n, !.unseen = l.unseen \ items, !.code = "200",
                          !.pc = IF n < l.limit THEN "done" ELSE "answered"]
<1>2. /\ l \in ListRec /\ l.pc = "page" /\ WalkInv(l)
      /\ list' = [list EXCEPT ![r] = IF offset < 0 THEN refused ELSE k]
  BY <1>1 DEF SelectPage, ListTypeOK
<1>3. /\ l.page \in 1..MaxInt /\ l.limit \in 1..MaxLimit /\ l.query \in Query
      /\ l.page \in Nat /\ l.limit \in Nat /\ l.page >= 1 /\ l.limit >= 1
  BY <1>2, QueriesAssumption DEF WalkInv
<1>4. S \in SUBSET Notification /\ items \in SUBSET S
  BY MatchingType DEF Window
<1>5. n \in Nat
  <2>1. items \in SUBSET Notification
    BY <1>4
  <2> HIDE DEF items
  <2> QED
    BY <2>1, FS_Subset, FS_CardinalityType, QueriesAssumption
<1>6. CASE offset < 0
  <2>1. refused \in ListRec
    BY <1>2 DEF ListRec
  <2>2. refused.pc = "done" /\ refused.code = "500"
    BY <1>2 DEF ListRec
  <2>3. WalkInv(refused)
    BY <2>2 DEF WalkInv
  <2> QED
    BY <1>2, <1>6, <2>1, <2>3
<1>7. CASE ~(offset < 0)
  <2>1. k \in ListRec
    <3> HIDE DEF n, items
    <3> QED
      BY <1>2, <1>5 DEF ListRec
  <2>2. /\ k.pc = IF n < l.limit THEN "done" ELSE "answered"
        /\ k.query = l.query /\ k.page = l.page /\ k.limit = l.limit
        /\ k.unseen = l.unseen \ items
    BY <1>2 DEF ListRec
  <2>3. ASSUME Walks(l.query)
        PROVE  /\ offset = (l.page - 1) * l.limit
               /\ offset \in Nat /\ offset <= MaxInt
    <3> DEFINE i == (l.page - 1) * l.limit
    <3>1. i \in Nat
      BY <1>3
    <3>2. i <= 2 * MaxInt
      BY <1>2, <2>3 DEF WalkInv
    <3> HIDE DEF i
    <3>3. Wrap(i) = IF i <= MaxInt THEN i ELSE i - 2 * (MaxInt + 1)
      BY <3>1, <3>2, WrapFacts
    <3>4. offset = Wrap(i)
      BY DEF Offset, i
    <3> QED
      BY <1>7, <3>1, <3>2, <3>3, <3>4, QueriesAssumption DEF i
  <2>4. ASSUME Walks(l.query), NEW m \in l.unseen \ items
        PROVE  m \in S /\ Rank(l.query, m) >= offset + l.limit
    <3>1. m \in S /\ Rank(l.query, m) >= offset /\ offset \in Nat
      BY <1>2, <2>3, <2>4 DEF WalkInv, Ahead
    <3>2. Rank(l.query, m) = Cardinality(Below(S, m)) /\ Rank(l.query, m) \in Nat
      <4>1. Rank(l.query, m) = Cardinality(Below(S, m))
        BY DEF Rank, Below
      <4> QED
        BY <1>4, <4>1, RankType
    <3>3. Rank(l.query, m) \notin offset..(offset + l.limit - 1)
      BY <2>4, <3>1 DEF Window, Rank
    <3> HIDE DEF offset, S
    <3> QED
      BY <1>3, <3>1, <3>2, <3>3
  <2>5. ASSUME Walks(l.query), n < l.limit
        PROVE  l.unseen \ items = {}
    <3> SUFFICES ASSUME NEW m \in l.unseen \ items PROVE FALSE
      OBVIOUS
    <3>1. m \in S /\ Cardinality(Below(S, m)) >= offset + l.limit
      BY <2>4, <2>5 DEF Rank, Below
    <3>2. offset \in Nat /\ created \in [Notification -> Stamp]
      BY <2>3, <2>5 DEF ListTypeOK
    <3>3. n >= l.limit
      <4> HIDE DEF offset, S
      <4> QED
        BY <1>3, <1>4, <3>1, <3>2, FullWindow
    <3> HIDE DEF n
    <3> QED
      BY <1>3, <1>5, <2>5, <3>3
  <2>6. ASSUME Walks(l.query), k.pc = "answered"
        PROVE  Ahead(k, k.page + 1)
    <3>1. ((k.page + 1) - 1) * k.limit = offset + l.limit
      <4>1. ((l.page + 1) - 1) * l.limit = (l.page - 1) * l.limit + l.limit
        BY <1>3
      <4> QED
        BY <2>2, <2>3, <2>6, <4>1
    <3>2. ASSUME NEW m \in k.unseen
          PROVE  m \in Matching(k.query) /\ Rank(k.query, m) >= offset + l.limit
      BY <2>2, <2>4, <2>6, <3>2
    <3> HIDE DEF k, offset, items
    <3> QED
      BY <3>1, <3>2 DEF Ahead
  <2>7. WalkInv(k)
    <3> HIDE DEF k, n, items
    <3> QED
      BY <1>3, <2>2, <2>3, <2>5, <2>6 DEF WalkInv
  <2> QED
    BY <1>2, <1>7, <2>1, <2>7
<1> QED
  BY <1>6, <1>7

\* The next page, or a failure.
LEMMA ContinuedWalk ==
  ASSUME ListTypeOK, NEW r \in Reader, WalkInv(list[r]), NextPage(r) \/ ListFails(r)
  PROVE  \E k \in ListRec : WalkInv(k) /\ list' = [list EXCEPT ![r] = k]
<1>1. PICK l : l = list[r]
  OBVIOUS
<1>2. l \in ListRec /\ WalkInv(l)
  BY <1>1 DEF ListTypeOK
<1>3. CASE NextPage(r)
  <2> DEFINE k == [l EXCEPT !.pc = "count", !.page = l.page + 1]
  <2>1. l.pc = "answered" /\ l.page < MaxInt /\ list' = [list EXCEPT ![r] = k]
    BY <1>1, <1>2, <1>3 DEF NextPage, ListTypeOK, ListRec
  <2>2. /\ l.page \in Nat /\ l.limit \in Nat /\ l.limit <= MaxInt /\ MaxInt \in Nat
        /\ l.page + 1 \in 1..MaxInt /\ l.limit \in 1..MaxLimit /\ l.query \in Query
    BY <1>2, <2>1, QueriesAssumption DEF WalkInv
  <2>3. k \in ListRec
    <3>1. l.page + 1 \in 0..MaxInt
      BY <2>2
    <3> DEFINE page == l.page + 1
    <3> HIDE DEF page
    <3>2. page \in 0..MaxInt
      BY <3>1 DEF page
    <3>3. [l EXCEPT !.pc = "count", !.page = page] \in ListRec
      BY <1>2, <3>2 DEF ListRec
    <3> QED
      BY <3>3 DEF page
  <2>4. /\ k.pc = "count" /\ k.query = l.query /\ k.page = l.page + 1
        /\ k.limit = l.limit /\ k.unseen = l.unseen
    BY <1>2 DEF ListRec
  <2>5. Walks(l.query) => ((l.page + 1) - 1) * l.limit <= 2 * MaxInt
    <3>1. ((l.page + 1) - 1) * l.limit = (l.page - 1) * l.limit + l.limit
      BY <2>2
    <3>2. Walks(l.query) => (l.page - 1) * l.limit <= MaxInt
      BY <1>2, <2>1 DEF WalkInv
    <3>3. (l.page - 1) * l.limit \in Int
      BY <2>2
    <3> QED
      BY <2>2, <3>1, <3>2, <3>3
  <2>6. Walks(l.query) => Ahead(k, l.page + 1)
    BY <1>2, <2>1, <2>4 DEF WalkInv, Ahead
  <2>7. WalkInv(k)
    <3> HIDE DEF k
    <3> QED
      BY <2>2, <2>4, <2>5, <2>6 DEF WalkInv
  <2> QED
    BY <2>1, <2>3, <2>7
<1>4. CASE ListFails(r)
  <2> DEFINE k == [l EXCEPT !.pc = "done", !.code = "500"]
  <2>1. list' = [list EXCEPT ![r] = k]
    BY <1>1, <1>2, <1>4 DEF ListFails, ListTypeOK
  <2>2. k \in ListRec /\ k.pc = "done" /\ k.code = "500"
    BY <1>2 DEF ListRec
  <2>3. WalkInv(k)
    BY <2>2 DEF WalkInv
  <2> QED
    BY <2>1, <2>2, <2>3
<1> QED
  BY <1>3, <1>4

\* Every step preserves the invariant of the walks.
LEMMA NextListInv == StoreTypeOK /\ StoreTypeOK' /\ ListInv /\ [Next]_vars => ListInv'
<1> SUFFICES ASSUME StoreTypeOK, StoreTypeOK', ListInv, [Next]_vars PROVE ListInv'
  OBVIOUS
<1>1. ListTypeOK /\ \A r \in Reader : WalkInv(list[r])
  BY DEF ListInv
<1>2. rows \subseteq rows' /\ rows' \in SUBSET Notification /\ UNCHANGED created
  <2>1. rows \subseteq rows' /\ UNCHANGED created
    BY DEF Next, Write, Insert, InsertBatch, UpdateStatus, List, ParseListParams,
           CountMatching, SelectPage, NextPage, ListFails, GetBatchSummary, Cancel,
           ReadHeader, CountByStatus, CancelIfPending, CheckExists, db, vars
  <2> QED
    BY <2>1 DEF StoreTypeOK
<1>3. ASSUME NEW r \in Reader, list'[r] = list[r] PROVE WalkInv(list[r])'
  <2>1. PICK l : l = list[r]
    OBVIOUS
  <2>2. WalkInv(l)'
    BY <1>1, <1>2, <2>1, WalkKept
  <2> QED
    BY <1>3, <2>1, <2>2
<1>4. ASSUME NEW r \in Reader, NEW k \in ListRec, WalkInv(k),
             list' = [list EXCEPT ![r] = k]
      PROVE  ListInv'
  <2>1. WalkInv(k)'
    BY <1>2, <1>4, WalkKept
  <2>2. list' \in [Reader -> ListRec] /\ list'[r] = k
    BY <1>1, <1>4 DEF ListTypeOK
  <2>3. \A s \in Reader : s # r => list'[s] = list[s]
    BY <1>1, <1>4 DEF ListTypeOK
  <2>4. ASSUME NEW s \in Reader PROVE WalkInv(list[s])'
    <3>1. CASE s = r
      BY <2>1, <2>2, <3>1
    <3>2. CASE s # r
      BY <1>3, <2>3, <3>2
    <3> QED
      BY <3>1, <3>2
  <2> QED
    BY <1>1, <1>2, <2>2, <2>4 DEF ListInv, ListTypeOK
<1>5. CASE UNCHANGED list
  <2>1. \A r \in Reader : WalkInv(list[r])'
    BY <1>3, <1>5
  <2> QED
    BY <1>1, <1>2, <1>5, <2>1 DEF ListInv, ListTypeOK
<1>6. ASSUME NEW r \in Reader, List(r)
      PROVE  \E k \in ListRec : WalkInv(k) /\ list' = [list EXCEPT ![r] = k]
  BY <1>1, <1>6, ParsedWalk, CountedWalk, SelectedWalk, ContinuedWalk DEF List
<1>7. UNCHANGED list \/ \E r \in Reader : List(r)
  BY DEF Next, Write, Insert, InsertBatch, UpdateStatus, GetBatchSummary, Cancel,
         ReadHeader, CountByStatus, CancelIfPending, CheckExists, vars
<1> QED
  BY <1>4, <1>5, <1>6, <1>7

LEMMA InitListInv == Init => ListInv
<1> SUFFICES ASSUME Init PROVE ListInv
  OBVIOUS
<1>1. 0 \in 0..MaxInt /\ 0 \in 0..MaxLimit
  BY QueriesAssumption
<1>2. NewList \in ListRec
  BY <1>1 DEF NewList, ListRec
<1>3. WalkInv(NewList)
  BY DEF NewList, WalkInv
<1> QED
  BY <1>2, <1>3 DEF Init, ListInv, ListTypeOK

\* A walk over the pages has seen or has ahead of it whatever matched when it
\* began, for any number of readers.
THEOREM QueriesListInv == Spec => []ListInv
<1>1. IInv => StoreTypeOK
  BY DEF IInv
<1> QED
  BY <1>1, QueriesIInv, InitListInv, NextListInv, PTL DEF Spec

\* Rows, statuses, and the requests of readers and clients keep their types
\* (notification_repository.go:108-297, handler_notification.go:365-429).
THEOREM QueriesTypeCorrect == Spec => []TypeOK
<1>1. IInv /\ ListInv => TypeOK
  BY DEF IInv, StoreTypeOK, ListInv, ListTypeOK, TypeOK
<1> QED
  BY <1>1, QueriesIInv, QueriesListInv, PTL

\* A client that walks the pages to the first that is not full has seen every
\* row that matched when it began, although OFFSET counts in a table that
\* grows (List, notification_repository.go:188-211).
THEOREM WalkSeesEveryRowHolds == Spec => []WalkSeesEveryRow
<1>1. ListInv => WalkSeesEveryRow
  BY DEF ListInv, WalkInv, Walks, Told, WalkSeesEveryRow
<1> QED
  BY <1>1, QueriesListInv, PTL
=============================================================================
