-------------------------- MODULE QueriesInvariant --------------------------
(***************************************************************************)
(* The inductive invariants behind what Queries tells its clients: IInv of *)
(* batch summaries and cancellations, ListInv of the walks over the pages. *)
(***************************************************************************)
EXTENDS QueriesProperties

\* The database and the clients of the two endpoints; the pages of lists are
\* left to ListInv.
StoreTypeOK ==
  /\ rows \in SUBSET Notification
  /\ status \in [Notification -> Status]
  /\ batches \in SUBSET Batch
  /\ call \in [Client -> CallRec]
  /\ cancels \in [Notification -> Nat]

\* A stored notification that is not pending, nor will be again.
Settled(m) == m \in rows /\ status[m] # "pending"

\* INV: a row that is not stored yet is pending, a cancelled one has been
\* settled, and a batch is stored with all of its rows.
RowsInv ==
  /\ \A m \in Notification : m \notin rows => status[m] = "pending" /\ cancels[m] = 0
  /\ \A m \in Notification : cancels[m] <= 1 /\ (cancels[m] = 1 => Settled(m))
  /\ \A b \in batches : RowsOf(b) \subseteq rows

AddsUp(k) ==
  k.total = k.counts["pending"] + k.counts["delivered"] + k.counts["failed"]
              + k.counts["cancelled"]

\* What a client may rely on between the two statements of its request, and
\* after the answer.
CallInv(k) ==
  /\ k.op = "cancel" =>
       /\ k.pc = "second" => k.id = NoId \/ Settled(k.id)
       /\ k.code \in {"200", "409"} => Settled(k.id)
       /\ k.code = "404" => k.id = NoId
  /\ k.op = "summary" /\ (k.pc = "second" \/ k.code = "200") =>
       k.id \in batches /\ k.total = Cardinality(RowsOf(k.id))
  /\ k.op = "summary" /\ k.code = "200" =>
       /\ AddsUp(k)
       /\ k.counts["pending"] = 0 => \A m \in RowsOf(k.id) : Settled(m)

IInv == StoreTypeOK /\ RowsInv /\ \A c \in Client : CallInv(call[c])

-----------------------------------------------------------------------------
(* The walks over the pages                                                *)

ListTypeOK ==
  /\ created \in [Notification -> Stamp]
  /\ list \in [Reader -> ListRec]

\* How many matching rows come before m: stored rows only add to it.
Rank(q, m) == Cardinality({k \in Matching(q) : Before(k, m)})

\* The client began with the first page, and its filter is one that no change
\* of status affects.
Walks(q) == q.page = NoParam /\ q.status = NoParam

\* What no page has shown yet still matches, and is not before page p.
Ahead(l, p) ==
  \A m \in l.unseen :
    m \in Matching(l.query) /\ Rank(l.query, m) >= (p - 1) * l.limit

\* A walk may come to a page whose offset wraps around: to a negative one,
\* which is refused and ends it.
WalkInv(l) ==
  /\ l.pc \in {"count", "page", "answered"} =>
       l.page \in 1..MaxInt /\ l.limit \in 1..MaxLimit /\ l.query \in Query
  /\ l.pc \in {"count", "page"} /\ Walks(l.query) =>
       Ahead(l, l.page) /\ (l.page - 1) * l.limit <= 2 * MaxInt
  /\ l.pc = "answered" /\ Walks(l.query) =>
       Ahead(l, l.page + 1) /\ (l.page - 1) * l.limit <= MaxInt
  /\ l.pc = "done" /\ l.code = "200" /\ Walks(l.query) => l.unseen = {}

\* INV: of every reader.
ListInv == ListTypeOK /\ \A r \in Reader : WalkInv(list[r])
=============================================================================
