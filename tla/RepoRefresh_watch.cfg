SPECIFICATION RefreshSpec
CONSTANTS
  MaxChanges = 2
  MaxOps = 2
INVARIANTS
  NoChangeForgotten
PROPERTIES
  CommitsReachTheGraph
CHECK_DEADLOCK FALSE
