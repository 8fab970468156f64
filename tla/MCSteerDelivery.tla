-------------------------- MODULE MCSteerDelivery --------------------------
(* SteerDelivery for TLC: the steers are interchangeable.                   *)
EXTENDS SteerDelivery, TLC

Symmetry == Permutations(Steers)

=============================================================================
