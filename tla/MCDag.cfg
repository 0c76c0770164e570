SPECIFICATION Spec
CONSTANTS
  MaxCommits = 5
  Limit = 3
INVARIANTS
  FindIsCommon
  FindIsLowest
  WalkIsComplete
CHECK_DEADLOCK FALSE
