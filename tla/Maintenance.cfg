SPECIFICATION FairSpec
CONSTANTS
  Default = "default"
  Others = {"other"}
  HelperFirst = TRUE
  BesidePointer = FALSE
  None = None
  MaxWrites = 1
  MaxUpdates = 1
  MaxFaults = 1
INVARIANTS ArchivesAreWhole UntriedIsPending AskedBackupExists HomeIsFound
PROPERTY ResetGetsThrough
