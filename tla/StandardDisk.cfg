SPECIFICATION Spec
CONSTANTS
  Sizes = {2, 3}
  FactorySize = 2
  MaxDisks = 3
  None = None
  MaxFaults = 3
INVARIANT BootsWholeDisk
PROPERTY Promise
CHECK_DEADLOCK FALSE
