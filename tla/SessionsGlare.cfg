SPECIFICATION Spec
CONSTANTS
  Low = 1
  High = 2
  Conns = {1, 2, 3}
  Configs = {{}}
  MaxDisruptions = 0
PROPERTIES
  Converges
CHECK_DEADLOCK FALSE
