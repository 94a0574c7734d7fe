SPECIFICATION FairSpec
CONSTANTS
  Executions = {e1}
  None = None
  CanWrite = FALSE
  WritesMayFail = TRUE
INVARIANT LiveRecordHasProcess
PROPERTY StopReturns
PROPERTY CancelledRunEnds
CHECK_DEADLOCK FALSE
