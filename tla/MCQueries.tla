----------------------------- MODULE MCQueries ------------------------------
(* Instances of the read side for TLC.                                     *)
EXTENDS QueriesProperties

CONSTANTS sms, email, b1

\* Rows 1 and 2 make up the batch; 3 is a single one on another channel.
MCNotification == 1..3
MCChannelOf == <<sms, email, email>>
MCBatchOf == <<b1, b1, NoBatch>>

Ask(s, c, to, page, limit) ==
  [status |-> s, channel |-> c, from |-> NoParam, to |-> to,
   page |-> page, limit |-> limit]

\* A walk of all, and one of what is pending, on one channel and old; a page
\* whose offset wraps to a negative number; a limit that is refused.
MCQuery ==
  {Ask(NoParam, NoParam, NoParam, NoParam, NoParam),
   Ask("pending", email, 1, NoParam, 2), Ask(NoParam, NoParam, NoParam, 5, 2),
   Ask(NoParam, NoParam, NoParam, 1, 5)}
=============================================================================
