--------------------------- MODULE MCAgentAccess ----------------------------
(* AgentAccess for TLC: requests are interchangeable.                      *)
EXTENDS AgentAccess, TLC

HandlerSymmetry == Permutations(Handlers)
=============================================================================
