---------------------------- MODULE MCAgentRun ----------------------------
(* Small instances of AgentRun for TLC: a tool that asks to edit files of  *)
(* its own and of others, under a policy that allows its own only.         *)
EXTENDS AgentRun

EditsAnywhere == {"EditHere", "EditElsewhere"}
OwnFiles == {"EditHere"}
=============================================================================
