SPECIFICATION Spec
CONSTANTS
  NumHelpers = 3
  MaxConcurrent = 2
  Files = {"f", "g"}
  Settings <- MCSettings
  MaxLaunches = 2
INVARIANTS OneReview OneRunEach
PROPERTIES  FinishedWasReviewed EndStands GraphEnds GivenUp
CHECK_DEADLOCK FALSE
