--------------------------- MODULE MCSessionSlot ---------------------------
(* TLC instances of SessionSlot. *)
EXTENDS SessionSlot, TLC

Symmetry ==
  Permutations(Sessions) \cup Permutations(Callers) \cup Permutations(Turns)
    \cup Permutations(Convs)
=============================================================================
