SPECIFICATION FairSpec
CONSTANTS
  Ports = {p1, p2, p3}
  Failures = TRUE
INVARIANTS
  StartTogether
  StopTogether
  NetworkWithAll
  FinalizeLast
PROPERTIES
  AllDestroyed
CHECK_DEADLOCK FALSE
