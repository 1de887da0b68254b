SPECIFICATION FairSpec
CONSTANTS
  MaxAttempts = 2
  SilentLimit = 3
  Memories = {3000}
  MaxBoots = 1
  None = None
INVARIANTS TypeOK NoOrphan
PROPERTIES CommitOnlyWhenReady RebootIsUnderstood LadderDescends HungIsReaped EveryStopEnds
CHECK_DEADLOCK FALSE
