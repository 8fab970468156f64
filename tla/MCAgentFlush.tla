---------------------------- MODULE MCAgentFlush ----------------------------
(* AgentFlush for TLC. *)
EXTENDS AgentFlush, TLC

Symmetry == Permutations(Items)
=============================================================================
