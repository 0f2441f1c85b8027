SPECIFICATION Spec
CONSTANTS
  N = 4
  Qualities = {0, 1}
  None = None
  Pool = 2
  MinIndex = 0
  Cooldown = 0
  Levels = {"loading"}
  MaxRetries = 1
  Removals = FALSE
INVARIANTS
  TypeOK
  RequestedQuality
  SlotsAccounted
  NoLostWakeup
CHECK_DEADLOCK FALSE
