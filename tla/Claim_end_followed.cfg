CONSTANTS
  e1 = e1
  e2 = e2
  Executions <- OneExecution
  Helpers <- None
  Stoppable <- None
  Kinds <- EveryKind
  ReadsMayFail = FALSE
  RoutesMayFail = FALSE
  MaxEvents = 3
  MaxInbox = 1
  MaxAppends = 0
SPECIFICATION Spec
INVARIANTS
  EveryEndIsFollowedThrough
CHECK_DEADLOCK FALSE
