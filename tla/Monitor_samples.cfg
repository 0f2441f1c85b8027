SPECIFICATION Spec
CONSTANTS
  N = 4
  Qualities = {0, 1}
  MaxTime = 5
INVARIANTS
  IndexNeverAhead
  SamplesExact
  PreviousIsLast
CHECK_DEADLOCK FALSE
