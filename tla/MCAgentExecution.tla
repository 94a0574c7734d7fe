-------------------------- MODULE MCAgentExecution --------------------------
(* AgentExecution for TLC: executions are interchangeable.                 *)
EXTENDS AgentExecution, TLC

Symmetry == Permutations(Executions)
=============================================================================
