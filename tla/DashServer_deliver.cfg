SPECIFICATION FairSpec
CONSTANTS
  N = 2
  Qualities = {0, 1}
  MaxTime = 0
  Total = 5
  None = None
  Loaded = {3, 4}
  Streams = {1, 2, 3, 4}
  MaxReports = 1
  MaxRepolls = 0
  Closing = FALSE
INVARIANTS
  AnswersInOrder
  QualityAgreement
  NoReportLost
  DecisionJustified
  TaskInFrame
  NoDecisionPastTheEnd
PROPERTIES
  DecisionsFinal
  ImplementsDelivery
  AllServed
CHECK_DEADLOCK FALSE
