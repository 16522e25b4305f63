------------------------- MODULE TopologyInvariant --------------------------
(***************************************************************************)
(* The inductive invariant behind the safety properties of Topology: the   *)
(* keys and headers of a copy agree with each other and with what the      *)
(* message has been through, and there is one copy of a message.           *)
(***************************************************************************)
EXTENDS TopologyProperties

AtHome(c) ==
  IF InDLQ(c)
  THEN c.queue[1] = ChannelOf[c.msg] /\ c.origin = Home(c.msg)
  ELSE MainKey(c.queue[1], c.queue[2]) = Home(c.msg)

WaitedInOrder(c) ==
  c.msg \notin Poison =>
    /\ InDLQ(c) => c.attempt = MaxAttempts
    /\ c.queue \in RetryKeys => c.queue[4] = c.attempt
    /\ waited[c.msg] =
         FirstLevels(IF c.queue \in RetryKeys THEN c.attempt - 1 ELSE c.attempt)

\* A worker reads the key of a delivery: it is that of the queue.
KeyKept(c) == c.queue \in MainKeys => c.key = c.queue

\* INV: every ready copy is where its headers say.
SoundCopies ==
  \A c \in copies : AtHome(c) /\ WaitedInOrder(c) /\ KeyKept(c)

\* INV: a replay request holds a dead letter that knows its way home.
SoundHeld ==
  \A r \in Admin : At(r, "publish") =>
    /\ replay[r].held \in Copy
    /\ InDLQ(replay[r].held) /\ AtHome(replay[r].held)

Ready(m) == {c \in copies : c.msg = m}
Held(m) == {r \in Admin : At(r, "publish") /\ replay[r].held.msg = m}
Gone(m) == m \in settled \/ \E d \in dropped : d[1] = m

\* A message is in one queue or with one request, from its publish until it
\* is gone.
OneCopy(m) ==
  /\ \A c, d \in Ready(m) : c = d
  /\ \A r, s \in Held(m) : r = s
  /\ Ready(m) = {} \/ Held(m) = {}
  /\ (Ready(m) # {} \/ Held(m) # {}) <=> (m \in api /\ ~Gone(m))
  /\ Gone(m) => m \in api
  /\ m \notin api => waited[m] = <<>>

\* INV: so it is for every message; and there are finitely many copies, which
\* QueueInspect counts.
OneCopyInv == IsFiniteSet(copies) /\ \A m \in Message : OneCopy(m)

\* INV: a replay counts what it puts back; who drops a letter answers 500.
ReplayCounts ==
  \A r \in Admin :
    /\ At(r, "new") => replay[r].replayed = 0
    /\ replay[r].replayed = replay[r].moved
    /\ replay[r].replayed <= replay[r].limit
    /\ At(r, "publish") => replay[r].replayed < replay[r].limit
    /\ \A d \in dropped : d[2] = r => At(r, "done") /\ replay[r].code = "500"

IInv ==
  /\ TypeOK
  /\ SoundCopies
  /\ SoundHeld
  /\ OneCopyInv
  /\ ReplayCounts
=============================================================================
