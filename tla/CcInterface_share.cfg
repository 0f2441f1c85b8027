SPECIFICATION Spec
CONSTANTS
  Pids = {p1, p2}
  MaxStarts = 3
  MaxConnections = 2
  MaxRates = 2
INVARIANTS
  UsersMeet
  RatesOnce
CHECK_DEADLOCK FALSE
