CONSTANTS
  e1 = e1
  e2 = e2
  Executions <- TwoExecutions
  Helpers <- None
  Stoppable <- TheFirst
  Kinds <- TextCostAndEnd
  ReadsMayFail = TRUE
  RoutesMayFail = TRUE
  MaxEvents = 2
  MaxInbox = 1
  MaxAppends = 0
SPECIFICATION FairSpec
INVARIANTS
  NumbersHaveNoHoles
PROPERTIES
  WindowSettles
CHECK_DEADLOCK FALSE
