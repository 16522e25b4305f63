------------------------ MODULE SubmissionInvariant -------------------------
(***************************************************************************)
(* The inductive invariant behind the safety properties of Submission.     *)
(***************************************************************************)
EXTENDS SubmissionProperties

BeforeCreate == {"new", "charge", "giveBack", "lookup", "create"}

\* Neither a row nor a message of r exists.
NoTrace(r) == \A id \in IdsOf(r) : id \notin rows /\ sent[id] = 0

\* INV: where a request stands tells what it has left behind, whatever the
\* others do: nothing before its insert, all of its rows after it, and no
\* message for the notifications that it has still to publish.
Progress ==
  \A r \in Request :
    /\ answer[r].code = "none" <=> pc[r] # "done"
    /\ pc[r] = "giveBack" => held[r] \in Reservation
    /\ pc[r] \in BeforeCreate => NoTrace(r) /\ next[r] = 1
    /\ pc[r] = "publish" =>
         /\ IdsOf(r) \subseteq rows
         /\ next[r] \in DOMAIN Items[r]
         /\ \A i \in DOMAIN Items[r] : i >= next[r] => sent[<<r, i>>] = 0

\* INV: the unique index on idempotency_key.
OneRowPerKey ==
  \A id, jd \in rows :
    KeyOf[id[1]] = KeyOf[jd[1]] /\ KeyOf[id[1]] # NoKey => id = jd

\* INV: a keyed request is accepted with a notification that is stored.
AcceptedIsStored ==
  \A r \in Request :
    Answered(r, "202") /\ KeyOf[r] # NoKey
      => answer[r].id \in RowsWithKey(KeyOf[r])

\* INV: no bucket and no request has seen a time that is yet to come.
TimesArePast ==
  /\ \A c \in Channel : bucket[c].last <= clock
  /\ \A r \in Request : seen[r] <= clock

IInv ==
  /\ TypeOK
  /\ restarts <= faults
  /\ TimesArePast
  /\ Progress
  /\ OneRowPerKey
  /\ AcceptedIsStored
  /\ RejectedLeavesNoTrace
  /\ PublishedOnceAfterStored

-----------------------------------------------------------------------------
(* What the buckets have given out, and what was published of it           *)

\* The notifications of r for channel c: as many as it is charged for.
UnitsOf(r, c) == {id \in IdsOf(r) : Items[r][id[2]] = c}

\* Notifications that the bucket of c has admitted, and those for which it
\* holds a reservation that is still to be cancelled.
Granted(c) ==
  {id \in Id : Items[id[1]][id[2]] = c /\ c \notin todo[id[1]] /\ ~limited[id[1]]}
Pending(c) ==
  {id \in Id :
     /\ pc[id[1]] = "giveBack" /\ held[id[1]].channel = c
     /\ Items[id[1]][id[2]] = c}

\* What a bucket has been filled with up to the time of its latest call.
Filled(c) == Burst * (1 + restarts) + bucket[c].last

\* INV: no row is stored before every bucket of its request has admitted it.
ChargedFirst ==
  /\ \A r \in Request :
       /\ pc[r] \in {"lookup", "create", "publish"} => todo[r] = {} /\ ~limited[r]
       /\ pc[r] = "lookup" => KeyOf[r] # NoKey
  /\ \A id \in rows : todo[id[1]] = {} /\ ~limited[id[1]]

\* INV: tokens are neither made by a cancelled reservation nor given twice, as
\* long as no call goes back in time: of the tokens that a bucket ever held,
\* one went to each admitted notification, and the others are in the bucket,
\* pending, or lost.
WithinBudget(c) ==
  /\ IsFiniteSet(Granted(c)) /\ IsFiniteSet(Pending(c))
  /\ ~skewed[c] =>
       /\ Cardinality(Granted(c)) <= Budget(c)
       /\ Cardinality(Granted(c)) + bucket[c].tokens + Cardinality(Pending(c))
            <= Filled(c)

BudgetKept == \A c \in Channel : WithinBudget(c)

\* INV: without faults, the publish loop leaves no notification behind.
QueuedSoFar ==
  \A r \in Request :
    faults = 0 /\ pc[r] = "publish"
      => \A i \in DOMAIN Items[r] : i < next[r] => sent[<<r, i>>] = 1

\* INV: a stored notification that came alone has its message, unless its
\* request is still to publish it or was not accepted.
StoredIsAccounted ==
  \A r \in Request \ Batch : <<r, 1>> \in rows => sent[<<r, 1>>] = 1 \/ Unsettled(r)

\* INV: an accepted request that came alone names a stored notification, and
\* its own if it has no key; an accepted batch without a fault is queued.
AcceptedNamesARow ==
  \A r \in Request :
    Answered(r, "202") =>
      /\ r \notin Batch => answer[r].id \in rows /\ answer[r].id[1] \notin Batch
      /\ r \in Batch /\ faults = 0 => \A id \in IdsOf(r) : sent[id] = 1

Accounts ==
  ChargedFirst /\ BudgetKept /\ QueuedSoFar /\ StoredIsAccounted /\ AcceptedNamesARow
=============================================================================
