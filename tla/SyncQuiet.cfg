SPECIFICATION Spec
CONSTANTS
  n1 = n1
  n2 = n2
  Repos = {n1, n2}
  Links <- BothWays
  Files = {p, q}
  WalkLimit = 500
  MaxRounds = 12
  EditsDuringSync = FALSE
  MaxSessions = 1
  MaxEdits = 2
  MaxDials = 2
  MaxDrops = 0
INVARIANTS
  TipsComplete
  MergeLosesNothing
PROPERTIES
  RoundSharesWork
  NewsEndsSession
CHECK_DEADLOCK FALSE
