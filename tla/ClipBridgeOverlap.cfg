\* Three copies and no failure at all.
CONSTANTS
    Items = {a, b}
    None = None
    MaxCopies = 3
    MaxFaults = 0
SPECIFICATION Spec
INVARIANT LaterCopyCrosses
CHECK_DEADLOCK FALSE
