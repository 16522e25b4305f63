----------------------------- MODULE MCTopology -----------------------------
(* Instances of the topology for TLC.                                      *)
EXTENDS TopologyProperties

CONSTANTS n1, n2, p1

\* Two notifications, one without a priority, and an unparseable body that
\* shares a DLQ with the first.
MCChannelOf == [m \in Message |-> IF m = n2 THEN "sms" ELSE "email"]
MCPriorityOf ==
  [m \in Message |->
     IF m = n1 THEN "high" ELSE IF m = n2 THEN NoPriority ELSE "low"]
=============================================================================
