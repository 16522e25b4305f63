---------------------------- MODULE MCSubmission ----------------------------
(* Instances of the submission path for TLC.                               *)
EXTENDS SubmissionInvariant, TLC

CONSTANTS k1, k2, k3, k4, batch, big, key, sms, email

\* Requests with one key, a batch on two channels, and one beyond the burst.
MCItems ==
  [r \in Request |-> IF r = batch THEN <<sms, sms, email>>
                     ELSE IF r = big THEN <<email, email, email>> ELSE <<sms>>]
MCKeyOf == [r \in Request |-> IF r \in {k1, k2, k3} THEN key ELSE NoKey]

\* Single requests and two batches on one channel, without keys.
MCOneChannel ==
  [r \in Request |-> IF r = big THEN <<sms, sms, sms>>
                     ELSE IF r = batch THEN <<sms, sms>> ELSE <<sms>>]
MCNoKeys == [r \in Request |-> NoKey]

\* Two valid requests with one key, or single ones without, are interchangeable.
MCSymmetry == Permutations({k1, k2})
MCSingles == Permutations({k1, k2, k3, k4})
=============================================================================
