\* Three boots; six inputs to the window, or two events of the agent's channel.
CONSTANTS
    QueueCap = 2
    NBlocks = 3
    Setups = {"window", "agent"}
    MaxBoots = 3
    MaxInputs = 6
    MaxEvents = 2
SPECIFICATION Spec
INVARIANTS KeyReleased ForwarderWedgesOne HolesWereZeros
PROPERTIES ClockIsCorrected
CHECK_DEADLOCK FALSE
