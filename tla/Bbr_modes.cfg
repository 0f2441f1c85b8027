SPECIFICATION FairSpec
CONSTANTS
  Algorithms = {"gap", "target", "adapter"}
  OptionSets = {{"2RTT", "LRTT", "BBS1", "BBR3"}}
  NumStartupRtts = 3
  MinWindow = 1
  MaxSpan = 2
INVARIANTS
  TypeOK
  AssertionsHold
  WindowOpen
  GainsMatchMode
PROPERTIES
  DownFollowsUp
  ProbeRttEnds
  RecoveryEnds
