SPECIFICATION Spec
CONSTANTS
  n1 = n1
  n2 = n2
  Repos = {n1, n2}
  Links <- OneWay
  Files = {p, q}
  WalkLimit = 500
  MaxRounds = 12
  EditsDuringSync = TRUE
  MaxSessions = 2
  MaxEdits = 2
  MaxDials = 3
  MaxDrops = 1
INVARIANTS
  RefsHeld
  RespondersComplete
  PushOkMeansHeld
PROPERTIES
  SessionSettles
  
  MergeTakesNews
CHECK_DEADLOCK FALSE
