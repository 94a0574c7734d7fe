SPECIFICATION Spec
CONSTANTS
  NumCommits = 5
  NumStashes = 2
  Sizes <- MCSizes
INVARIANTS
  TracksAreExclusive
  HeadLineIsStraight
  NoDeadLanes
  OverlaysAreClear
CHECK_DEADLOCK FALSE
