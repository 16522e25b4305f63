----------------------------- MODULE MCDelivery -----------------------------
(* Instances of the delivery path for TLC.                                 *)
EXTENDS DeliveryInvariant, TLC

\* Handlers and replay requests are interchangeable.
MCSymmetry == Permutations(Handler) \cup Permutations(Admin)
=============================================================================
