SPECIFICATION Spec
CONSTANTS
  Upstream = 2
  MaxCommits = 4
  MaxCommands = 3
INVARIANTS
  UpdatedIsAtPin
PROPERTIES
  CommitsAreKept
  BranchesOnlyAdvance
CHECK_DEADLOCK FALSE
