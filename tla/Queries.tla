------------------------------ MODULE Queries -------------------------------
(***************************************************************************)
(* What the read side of the API sees: GET /notifications, which walks the *)
(* table page by page, GET /notifications/batch/{id}, and DELETE, each of  *)
(* them several statements, while the API stores rows and workers write    *)
(* their verdicts.                                                         *)
(*                                                                         *)
(* One SQL statement is one step: it sees what was committed before it.    *)
(* List's two statements run in one transaction, but at PostgreSQL's       *)
(* default level, READ COMMITTED, each takes a snapshot of its own.        *)
(***************************************************************************)
EXTENDS Integers, FiniteSets

CONSTANTS
  Notification,   \* ids; uuids are ordered, here as numbers
  Channel,
  ChannelOf,
  Batch,
  BatchOf,        \* the batch of a notification, or NoBatch
  Stamp,          \* values of created_at
  Reader,         \* clients of GET /notifications
  Query,          \* what they ask: the raw parameters of their first page
  Client,         \* clients of GET /notifications/batch/{id} and DELETE
  DefaultLimit,
  MaxLimit,
  MaxInt,         \* math.MaxInt: 2^63 - 1, or less
  NoParam,            \* a parameter that is left out
  NoBatch,
  NoId            \* a uuid that no notification has

Status == {"pending", "delivered", "failed", "cancelled"}

\* An int is one of -MaxInt-1..MaxInt, and arithmetic wraps.
Wrap(i) == ((i + MaxInt + 1) % (2 * (MaxInt + 1))) - (MaxInt + 1)

RowsOf(b) == {m \in Notification : BatchOf[m] = b}

ASSUME QueriesAssumption ==
  /\ Notification \subseteq Nat /\ IsFiniteSet(Notification)
  /\ Stamp \subseteq Nat
  /\ ChannelOf \in [Notification -> Channel]
  /\ BatchOf \in [Notification -> Batch \cup {NoBatch}]
  /\ NoBatch \notin Batch /\ NoId \notin Notification
  /\ MaxInt \in Nat /\ MaxLimit \in 1..MaxInt /\ DefaultLimit \in 1..MaxLimit
  /\ NoParam \notin Int
  /\ \A q \in Query : {q.page, q.limit} \subseteq (-MaxInt - 1)..MaxInt \cup {NoParam}

VARIABLES
  rows,      \* ids of the stored notifications
  created,   \* created_at of a row
  status,    \* status of a row
  batches,   \* ids of the stored batch headers
  list,      \* each reader's place in its walk over the pages
  call,      \* each client's place in GetBatchSummary or CancelIfPending,
             \* or the answer to its last call
  cancels    \* how often a DELETE of the notification answered 200 (history)

vars == <<rows, created, status, batches, list, call, cancels>>
db == <<rows, created, status, batches>>

\* unseen is history: what matched at the first count and no page has shown
\* yet.
ListRec == [pc : {"new", "count", "page", "answered", "done"},
            query : Query \cup {NoParam}, page : 0..MaxInt, limit : 0..MaxLimit,
            total : Nat, items : Nat,
            unseen : SUBSET Notification, code : {"none", "200", "400", "500"}]

\* counts is the body of a batch summary; another call has none.
CallRec == [op : {"summary", "cancel"}, pc : {"idle", "second", "done"},
            id : Notification \cup Batch \cup {NoId},
            code : {"none", "200", "404", "409"},
            total : Nat, counts : [Status -> Nat]]

TypeOK ==
  /\ rows \in SUBSET Notification
  /\ created \in [Notification -> Stamp]
  /\ status \in [Notification -> Status]
  /\ batches \in SUBSET Batch
  /\ list \in [Reader -> ListRec]
  /\ call \in [Client -> CallRec]
  /\ cancels \in [Notification -> Nat]

NewList == [pc |-> "new", query |-> NoParam, page |-> 0, limit |-> 0, total |-> 0,
            items |-> 0, unseen |-> {}, code |-> "none"]
NoCall == [op |-> "cancel", pc |-> "idle", id |-> NoId, code |-> "none",
           total |-> 0, counts |-> [s \in Status |-> 0]]

Init ==
  /\ rows = {}
  /\ created \in [Notification -> Stamp]
  /\ \A m, n \in Notification :
       BatchOf[m] = BatchOf[n] /\ BatchOf[m] # NoBatch => created[m] = created[n]
  /\ status = [m \in Notification |-> "pending"]
  /\ batches = {}
  /\ list = [r \in Reader |-> NewList]
  /\ call = [c \in Client |-> NoCall]
  /\ cancels = [m \in Notification |-> 0]

-----------------------------------------------------------------------------
(* The writers                                                             *)

\* Insert: one row.  The API stamps it before the insert, so that rows are
\* not committed in the order of created_at.
Insert(m) ==
  /\ m \notin rows /\ BatchOf[m] = NoBatch
  /\ rows' = rows \cup {m}
  /\ UNCHANGED <<created, status, batches, list, call, cancels>>

\* Wrong variant: no transaction, each row with the header on its own.
InsertBatchRowByRow(b) ==
  /\ \E m \in RowsOf(b) \ rows : rows' = rows \cup {m}
  /\ batches' = batches \cup {b}
  /\ UNCHANGED <<created, status, list, call, cancels>>

\* InsertBatch: the header, which counts the notifications, and the rows,
\* all stamped alike, in one transaction.
InsertBatch(b) ==
  /\ b \notin batches
  /\ batches' = batches \cup {b}
  /\ rows' = rows \cup RowsOf(b)
  /\ UNCHANGED <<created, status, list, call, cancels>>

\* A worker's verdict: UpdateStatus has no condition on the old status.
UpdateStatus(m, s) ==
  /\ m \in rows /\ status[m] # s
  /\ status' = [status EXCEPT ![m] = s]
  /\ UNCHANGED <<rows, created, batches, list, call, cancels>>

-----------------------------------------------------------------------------
(* GET /notifications                                                      *)

OrDefault(p, d) == IF p = NoParam THEN d ELSE p

\* Wrong variant: no upper bound.
LimitUncapped(limit) == limit >= 1

LimitOK(limit) == limit \in 1..MaxLimit

\* parseListParams: 400 for a bad parameter, defaults for missing ones.
ParseListParams(r, q) ==
  LET page == OrDefault(q.page, 1)
      limit == OrDefault(q.limit, DefaultLimit)
      good == /\ q.status \in Status \cup {NoParam}
              /\ q.channel \in Channel \cup {NoParam}
              /\ page >= 1 /\ LimitOK(limit)
  IN
  /\ list[r].pc = "new"
  /\ list' = [list EXCEPT ![r] =
       IF good
       THEN [NewList EXCEPT !.pc = "count", !.query = q, !.page = page,
                            !.limit = limit]
       ELSE [NewList EXCEPT !.pc = "done", !.query = q, !.code = "400"]]
  /\ UNCHANGED <<db, call, cancels>>

\* buildListWhere: the rows that match the filter.
Matching(q) ==
  {m \in rows :
     /\ q.status \in {NoParam, status[m]}
     /\ q.channel \in {NoParam, ChannelOf[m]}
     /\ q.from = NoParam \/ created[m] >= q.from
     /\ q.to = NoParam \/ created[m] <= q.to}

FirstPage(l) == l.page = OrDefault(l.query.page, 1)

\* The first statement.
CountMatching(r) ==
  LET match == Matching(list[r].query) IN
  /\ list[r].pc = "count"
  /\ list' = [list EXCEPT ![r] =
       [@ EXCEPT !.pc = "page", !.total = Cardinality(match),
                 !.unseen = IF FirstPage(list[r]) THEN match
                             ELSE list[r].unseen]]
  /\ UNCHANGED <<db, call, cancels>>

Offset(page, limit) == Wrap((page - 1) * limit)

\* ORDER BY created_at DESC, id DESC.
Before(k, m) ==
  created[k] > created[m] \/ (created[k] = created[m] /\ k > m)

\* Wrong variant: no order among rows of one created_at, so that a page may
\* order them otherwise than the page before it.
WindowOfUnorderedTies(S, offset, limit) ==
  LET before(k, m) ==
        \/ created[k] > created[m]
        \/ created[k] = created[m] /\ (IF offset % 2 = 0 THEN k > m ELSE k < m)
  IN {m \in S : Cardinality({k \in S : before(k, m)}) \in offset..offset + limit - 1}

\* LIMIT limit OFFSET offset.
Window(S, offset, limit) ==
  {m \in S : Cardinality({k \in S : Before(k, m)}) \in offset..offset + limit - 1}

\* The second statement, and the response.  PostgreSQL rejects a negative
\* OFFSET.  A page that is not full ends the client's walk.
SelectPage(r) ==
  LET l == list[r]
      offset == Offset(l.page, l.limit)
      items == Window(Matching(l.query), offset, l.limit)
  IN
  /\ l.pc = "page"
  /\ list' = [list EXCEPT ![r] =
       IF offset < 0
       THEN [l EXCEPT !.pc = "done", !.code = "500"]
       ELSE [l EXCEPT !.items = Cardinality(items), !.unseen = @ \ items, !.code = "200",
               !.pc = IF Cardinality(items) < l.limit THEN "done" ELSE "answered"]]
  /\ UNCHANGED <<db, call, cancels>>

\* The client asks for the next page.
NextPage(r) ==
  /\ list[r].pc = "answered" /\ list[r].page < MaxInt
  /\ list' = [list EXCEPT ![r].pc = "count", ![r].page = @ + 1]
  /\ UNCHANGED <<db, call, cancels>>

\* Either statement, or the commit, fails.
ListFails(r) ==
  /\ list[r].pc \in {"count", "page"}
  /\ list' = [list EXCEPT ![r].pc = "done", ![r].code = "500"]
  /\ UNCHANGED <<db, call, cancels>>

-----------------------------------------------------------------------------
(* GET /notifications/batch/{id}                                           *)

\* A client has one request at a time.
Free(c) == call[c].pc \in {"idle", "done"}

Respond(c, op, id, code) ==
  call' = [call EXCEPT ![c] =
             [NoCall EXCEPT !.op = op, !.pc = "done", !.id = id, !.code = code]]

\* A call to the database fails: 500 tells the client nothing.
Fails(c) == call' = [call EXCEPT ![c] = NoCall]

\* The header's total_count; without a header the answer is 404.
ReadHeader(c, b) ==
  /\ Free(c) /\ b \in batches \cup {NoId}
  /\ \/ /\ b \in batches
        /\ call' = [call EXCEPT ![c] =
             [NoCall EXCEPT !.op = "summary", !.pc = "second", !.id = b,
                            !.total = Cardinality(RowsOf(b))]]
     \/ b \notin batches /\ Respond(c, "summary", b, "404")
     \/ Fails(c)
  /\ UNCHANGED <<db, list, cancels>>

\* GROUP BY status, in a statement outside any transaction.
CountByStatus(c) ==
  LET stored == RowsOf(call[c].id) \cap rows
      counts == [s \in Status |-> Cardinality({m \in stored : status[m] = s})]
  IN
  /\ call[c].pc = "second" /\ call[c].op = "summary"
  /\ \/ call' = [call EXCEPT ![c].pc = "done", ![c].code = "200",
                             ![c].counts = counts]
     \/ Fails(c)
  /\ UNCHANGED <<db, list, cancels>>

-----------------------------------------------------------------------------
(* DELETE /notifications/{id}                                              *)

\* Wrong variant: the UPDATE has no condition on the status.
CancelAlways(c, id) ==
  /\ Free(c) /\ id \in rows
  /\ status' = [status EXCEPT ![id] = "cancelled"]
  /\ Respond(c, "cancel", id, "200")
  /\ cancels' = [cancels EXCEPT ![id] = @ + 1]
  /\ UNCHANGED <<rows, created, batches, list>>

\* CancelIfPending's UPDATE ... WHERE status = 'pending' RETURNING.  A client
\* names a notification that it has been told of, or one that never was.  A
\* call that returns an error may have been applied.
CancelIfPending(c, id) ==
  LET pending == id \in rows /\ status[id] = "pending"
      cancelled == status' = [status EXCEPT ![id] = "cancelled"]
  IN
  /\ Free(c) /\ id \in rows \cup {NoId}
  /\ \/ /\ pending /\ cancelled
        /\ Respond(c, "cancel", id, "200")
        /\ cancels' = [cancels EXCEPT ![id] = @ + 1]
     \/ /\ ~pending
        /\ call' = [call EXCEPT ![c] = [NoCall EXCEPT !.pc = "second", !.id = id]]
        /\ UNCHANGED <<status, cancels>>
     \/ /\ \/ pending /\ cancelled
           \/ UNCHANGED status
        /\ Fails(c) /\ UNCHANGED cancels
  /\ UNCHANGED <<rows, created, batches, list>>

\* SELECT EXISTS tells 409 from 404.
CheckExists(c) ==
  LET id == call[c].id IN
  /\ call[c].pc = "second" /\ call[c].op = "cancel"
  /\ \/ Respond(c, "cancel", id, IF id \in rows THEN "409" ELSE "404")
     \/ Fails(c)
  /\ UNCHANGED <<db, list, cancels>>

-----------------------------------------------------------------------------

Write ==
  \/ \E m \in Notification : Insert(m)
  \/ \E b \in Batch : InsertBatch(b)
  \/ \E m \in Notification, s \in {"delivered", "failed"} : UpdateStatus(m, s)

List(r) ==
  \/ \E q \in Query : ParseListParams(r, q)
  \/ CountMatching(r) \/ SelectPage(r) \/ NextPage(r) \/ ListFails(r)

GetBatchSummary(c) == (\E b \in Batch \cup {NoId} : ReadHeader(c, b)) \/ CountByStatus(c)

Cancel(c) ==
  (\E id \in Notification \cup {NoId} : CancelIfPending(c, id)) \/ CheckExists(c)

Next ==
  \/ Write
  \/ \E r \in Reader : List(r)
  \/ \E c \in Client : GetBatchSummary(c) \/ Cancel(c)

Spec == Init /\ [][Next]_vars
=============================================================================
