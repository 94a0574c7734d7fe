CONSTANTS
  e1 = e1
  e2 = e2
  Executions <- TwoExecutions
  Helpers <- TheSecond
  Stoppable <- None
  Kinds <- TextAndEnd
  ReadsMayFail = TRUE
  RoutesMayFail = FALSE
  MaxEvents = 2
  MaxInbox = 1
  MaxAppends = 1
SPECIFICATION Spec
INVARIANTS
  TranscriptIsFaithful
  WindowCatchesUp
PROPERTIES
  NothingDisappears
CHECK_DEADLOCK FALSE
