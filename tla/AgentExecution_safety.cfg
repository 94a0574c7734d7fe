SPECIFICATION Spec
CONSTANTS
  Executions = {e1, e2}
  None = None
  CanWrite = TRUE
  WritesMayFail = FALSE
SYMMETRY Symmetry
INVARIANT OnlyActiveRecordIsLive
INVARIANT RefusedStartLeavesNothing
INVARIANT ConfirmedStopIsGone
PROPERTY ImplementsLedger
CHECK_DEADLOCK FALSE
