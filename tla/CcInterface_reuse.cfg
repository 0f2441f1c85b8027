SPECIFICATION Spec
CONSTANTS
  Pids = {p1, p2}
  MaxStarts = 2
  MaxConnections = 2
  MaxRates = 2
INVARIANT
  OneInstance
CHECK_DEADLOCK FALSE
