--------------------------- MODULE MCBrowserGrant ---------------------------
EXTENDS BrowserGrant, TLC

AgentSymmetry == Permutations(Agents)
=============================================================================
