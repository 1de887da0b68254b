\* A reboot of the guest, and no other input.
CONSTANTS
    QueueCap = 2
    NBlocks = 3
    Setups = {"window"}
    MaxBoots = 2
    MaxInputs = 0
    MaxEvents = 2
SPECIFICATION Spec
INVARIANT ForwarderWaits
CHECK_DEADLOCK FALSE
