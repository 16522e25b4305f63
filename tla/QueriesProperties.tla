------------------------- MODULE QueriesProperties --------------------------
(***************************************************************************)
(* What the read side tells its clients while rows are written.            *)
(***************************************************************************)
EXTENDS Queries

Told(r) == list[r].code = "200" /\ list[r].pc \in {"answered", "done"}

\* The client holds a batch summary.
Summarised(c) == call[c].op = "summary" /\ call[c].code = "200"

-----------------------------------------------------------------------------

\* INV: a client that walks the pages from the first to the first that is not
\* full has seen every row that matched when it began, though rows are stored
\* meanwhile in any order of created_at (notification_repository.go:188-192).
\* Only a filter on status, which changes under the walk, may lose rows.
WalkSeesEveryRow ==
  \A r \in Reader :
    /\ Told(r) /\ list[r].pc = "done"
    /\ list[r].query.page = NoParam /\ list[r].query.status = NoParam
    => list[r].unseen = {}

\* INV: a batch summary adds up to its total, although the two are read by
\* separate statements (notification_repository.go:137-150), and a client may
\* stop polling when it shows nothing pending: no notification of that batch
\* is pending again or appears later.
SummaryIsTrue ==
  \A c \in Client :
    LET n == call[c].counts IN
    Summarised(c) =>
      /\ call[c].total
           = n["pending"] + n["delivered"] + n["failed"] + n["cancelled"]
      /\ n["pending"] = 0
           => \A m \in RowsOf(call[c].id) : m \in rows /\ status[m] # "pending"

\* INV: of all concurrent DELETEs of a notification at most one is told that
\* it cancelled it, and 409 and 404 are true for good, although the existence
\* check comes after the UPDATE (notification_repository.go:269-291).
CancelAnswersAreTrue ==
  /\ \A m \in Notification : cancels[m] <= 1
  /\ \A c \in Client :
       LET id == call[c].id IN
       call[c].op = "cancel" =>
         /\ call[c].code \in {"200", "409"} => id \in rows /\ status[id] # "pending"
         /\ call[c].code = "404" => id \notin rows
=============================================================================
