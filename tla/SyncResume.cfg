SPECIFICATION Spec
CONSTANTS
  n1 = n1
  n2 = n2
  Repos = {n1, n2}
  Links <- OneWay
  Files = {p, q}
  WalkLimit = 500
  MaxRounds = 12
  EditsDuringSync = FALSE
  MaxSessions = 1
  MaxEdits = 1
  MaxDials = 2
  MaxDrops = 1
INVARIANTS
  TipsComplete
CHECK_DEADLOCK FALSE
