SPECIFICATION Spec
CONSTANTS
  Segments = {1, 2}
  MaxLevel = 2
  MaxTime = 2
  MaxRequests = 2
  Failures = TRUE
INVARIANTS
  DownloadsOnce
  MeasuresFresh
PROPERTIES
  ImplementsChannel
CHECK_DEADLOCK FALSE
