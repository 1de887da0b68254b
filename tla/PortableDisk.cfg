SPECIFICATION FairSpec
CONSTANTS
  Images = {f1, f2, f3}
  Large = {f3}
  MaxDisks = 3
  None = None
  MaxFaults = 3
INVARIANTS PairedIdentity BootsOnItsFactory
PROPERTIES Promise FreshAlwaysBoots
CHECK_DEADLOCK FALSE
