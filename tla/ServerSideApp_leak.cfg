SPECIFICATION Spec
CONSTANTS
  N = 4
  Qualities = {0, 1}
  None = None
  Pool = 2
  MinIndex = 0
  Cooldown = 0
  Levels = {"loading", "almost"}
  MaxRetries = 0
  Removals = FALSE
INVARIANTS
  PoolKept
CHECK_DEADLOCK FALSE
