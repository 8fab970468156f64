---------------------------- MODULE MCOfficeFeed ----------------------------
(* The instance of OfficeFeed that TLC checks.                             *)
EXTENDS OfficeFeed

AgentSymmetry == Permutations(Agents)
=============================================================================
