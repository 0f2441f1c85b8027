SPECIFICATION Spec
CONSTANTS
  N = 1
  Qualities = {0}
  MaxTime = 0
  Total = 5
  None = None
  Loaded = {3, 4}
  Streams = {1, 2}
  MaxReports = 0
  MaxRepolls = 0
  Closing = TRUE
INVARIANTS
  NoAnswerAfterClose
CHECK_DEADLOCK FALSE
