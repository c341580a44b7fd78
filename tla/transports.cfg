SPECIFICATION FairSpec
CONSTANTS
    Depth = 2
    Kinds = {"fifo", "shm", "list", "npipe", "tap"}
    Asynchronous = {"list", "tap"}
    MaxHeld = 2
    FrameLens = {1, 2}
    Mtu = 2
    MaxFrames = 4
    MaxFaults = 1
INVARIANTS FrontIsStable
PROPERTIES ImplementsLink EverythingIsTaken
CHECK_DEADLOCK FALSE
