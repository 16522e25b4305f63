----------------------------- MODULE MCConsumer -----------------------------
(* Instances of the consumer for TLC.                                      *)
EXTENDS ConsumerProperties, TLC

\* Messages are interchangeable.
MCSymmetry == Permutations(Message)
=============================================================================
