\* One click on the window's close button.
CONSTANTS
    QueueCap = 2
    NBlocks = 3
    Setups = {"window"}
    MaxBoots = 2
    MaxInputs = 1
    MaxEvents = 2
SPECIFICATION Spec
INVARIANT NeverDialsEarly
CHECK_DEADLOCK FALSE
