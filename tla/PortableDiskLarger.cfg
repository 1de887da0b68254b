SPECIFICATION Spec
CONSTANTS
  Images = {f1, f2}
  Large = {f2}
  MaxDisks = 2
  None = None
  MaxFaults = 0
PROPERTY ReplacedPayloadIsRefused
CHECK_DEADLOCK FALSE
