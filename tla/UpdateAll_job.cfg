SPECIFICATION Spec
CONSTANTS
  r1 = r1
  r2 = r2
  Repos = {r1, r2}
  OpenRepos = {r1}
  NumWorkers = 2
  MaxEdits = 2
  MaxJobs = 1
INVARIANTS
  NothingIsLost
  LeftAloneIsUntouched
PROPERTIES
  JobEnds
CHECK_DEADLOCK FALSE
