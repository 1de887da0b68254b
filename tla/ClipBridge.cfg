\* Three copies and one failure, over two items.
CONSTANTS
    Items = {a, b}
    None = None
    MaxCopies = 3
    MaxFaults = 1
SPECIFICATION Spec
INVARIANT AgreeAtRest
PROPERTIES NothingEchoed ComesToRest
CHECK_DEADLOCK FALSE
