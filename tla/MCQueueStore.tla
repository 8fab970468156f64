---------------------------- MODULE MCQueueStore ----------------------------
(* QueueStore for TLC: messages are interchangeable.                        *)
EXTENDS QueueStore, TLC

Symmetry == Permutations(Msgs)

=============================================================================
