SPECIFICATION Spec
CONSTANTS
  Low = 1
  High = 2
  Conns = {1, 2, 3}
  Configs = {{}, {2}}
  MaxDisruptions = 1
INVARIANTS
  LowStands
PROPERTIES
  Reconnects
CHECK_DEADLOCK FALSE
