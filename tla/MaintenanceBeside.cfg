SPECIFICATION Spec
CONSTANTS
  Default = "default"
  Others = {"other"}
  HelperFirst = TRUE
  BesidePointer = TRUE
  None = None
  MaxWrites = 1
  MaxUpdates = 0
  MaxFaults = 0
INVARIANT HomeIsFound
