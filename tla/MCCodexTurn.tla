---------------------------- MODULE MCCodexTurn ----------------------------
(* The instance of CodexTurn that TLC checks.                              *)
EXTENDS CodexTurn
=============================================================================
