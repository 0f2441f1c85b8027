SPECIFICATION FairSpec
CONSTANTS
  N = 3
  Qualities = {0, 1}
  None = None
  Pool = 1
  MinIndex = 0
  Cooldown = 0
  Levels = {"loading"}
  MaxRetries = 0
  Removals = TRUE
INVARIANTS
  NeverAnothersQuality
PROPERTIES
  AllPlayed
CHECK_DEADLOCK FALSE
