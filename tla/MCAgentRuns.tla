---------------------------- MODULE MCAgentRuns ----------------------------
(* Small instances of AgentRuns. *)
EXTENDS AgentRuns, TLC

RunSymmetry == Permutations(Runs)
=============================================================================
