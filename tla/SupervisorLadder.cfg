SPECIFICATION Spec
CONSTANTS
  MaxAttempts = 12
  SilentLimit = 2
  Memories = {65536}
  MaxBoots = 0
  None = None
INVARIANT LadderFits
CHECK_DEADLOCK FALSE
