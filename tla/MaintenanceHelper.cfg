SPECIFICATION Spec
CONSTANTS
  Default = "default"
  Others = {"other"}
  HelperFirst = FALSE
  BesidePointer = FALSE
  None = None
  MaxWrites = 1
  MaxUpdates = 0
  MaxFaults = 0
INVARIANT AskedBackupExists
