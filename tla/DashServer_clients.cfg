SPECIFICATION FairSpec
CONSTANTS
  N = 1
  Qualities = {0}
  MaxTime = 1
  Total = 5
  None = None
  Loaded = {3, 4}
  Streams = {1, 2, 3}
  MaxReports = 2
  MaxRepolls = 1
  Closing = TRUE
INVARIANTS
  TypeOK
  AnsweredOnce
  NewestKnown
PROPERTIES
  EveryPathAnswered
CHECK_DEADLOCK FALSE
