-------------------------- MODULE MCSessionEvents --------------------------
(* Small instances of SessionEvents for TLC.                               *)
EXTENDS SessionEvents

CONSTANTS e1, e2

OneExecution == {e1}
TwoExecutions == {e1, e2}
TheFirst == {e1}
TheSecond == {e2}
None == {}

EveryKind == {"Note", "Activity", "Usage", "Ended"}
TextAndEnd == {"Note", "Ended"}
TextCostAndEnd == {"Note", "Usage", "Ended"}
=============================================================================
