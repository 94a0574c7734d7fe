SPECIFICATION FairSpec
CONSTANTS
  Capabilities <- EditsAnywhere
  Permitted <- OwnFiles
  Audited = TRUE
  MaxTurns = 2
  HasTimeLimit = TRUE
  MaxCorrections = 2
  MaxGates = 2
  MaxQueued = 2
INVARIANT EveryGrantWasApproved
INVARIANT FinishedIsNotHollow
PROPERTY ImplementsContract
PROPERTY CancelEndsThePhase
PROPERTY EveryRunEnds
CHECK_DEADLOCK FALSE
