-------------------------- MODULE NotificationStore -------------------------
(***************************************************************************)
(* What POST /notifications and POST /notifications/batch promise, without *)
(* the limiter and the steps of a handler: an idempotent store with an     *)
(* outbox.  Submission implements this specification.                      *)
(***************************************************************************)
EXTENDS Naturals, Sequences

CONSTANTS Request, Items, KeyOf, NoKey, NoId

VARIABLES
  rows,     \* stored notifications
  sent,     \* how often a notification's message was published
  answer    \* the response to a request

store == <<rows, sent, answer>>

IdsOf(r) == {r} \X (DOMAIN Items[r])
Id == UNION {IdsOf(r) : r \in Request}
WithKey(k) == {id \in rows : KeyOf[id[1]] = k}
Open(r) == answer[r].code = "none"

Init ==
  /\ rows = {}
  /\ sent = [id \in Id |-> 0]
  /\ answer = [r \in Request |-> [code |-> "none", id |-> NoId]]

\* The notifications of an open request are stored together, once, and
\* under a key that nothing else is stored under.
Store(r) ==
  /\ Open(r)
  /\ IdsOf(r) \cap rows = {}
  /\ KeyOf[r] = NoKey \/ WithKey(KeyOf[r]) = {}
  /\ rows' = rows \cup IdsOf(r)

\* A stored notification of an open request is published, once.
Send(id) ==
  /\ id \in rows /\ Open(id[1]) /\ sent[id] = 0
  /\ sent' = [sent EXCEPT ![id] = 1]

\* An answer is given once, and it is true: 202 names the notification that
\* is stored under the key, or comes after the request's own were stored; 400
\* and 429 come with nothing stored, for ever.
Truthful(r) ==
  LET a == answer'[r] IN
  /\ a.code = "202" /\ KeyOf[r] # NoKey => WithKey(KeyOf[r])' = {a.id}
  /\ a.code = "202" /\ KeyOf[r] = NoKey => IdsOf(r) \subseteq rows'
  /\ a.code \in {"400", "429"} => IdsOf(r) \cap rows' = {}

Answer(r) == answer'[r] = answer[r] \/ (Open(r) /\ Truthful(r))

Next ==
  /\ rows' = rows \/ \E r \in Request : Store(r)
  /\ sent' = sent \/ \E id \in Id : Send(id)
  /\ \A r \in Request : Answer(r)

Spec == Init /\ [][Next]_store
=============================================================================
