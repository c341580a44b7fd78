SPECIFICATION FairSpec
CONSTANTS
    Entries = 2
    Modulus = 2
    MaxAge = 1
    MaxTicks = 2
    Macs = {"h1", "h2", "router", "broadcast"}
    Locals = {"h1", "h2"}
    Remotes = {"x"}
    Conns = {"c"}
    Requests = {"r1"}
    MaxEchoes = 2
    NSlots = 2
    Rto = 2
    WaitTimeout = 5
    MaxRtx = 2
    Rtos = {2, 3}
    FinBehindData = FALSE
    MaxRtt = 31
    Parts = {"network", "timers", "estimation"}
INVARIANTS TableIsSound FramesReachTheirHost AnswerIsItsOwn RttIsSound
PROPERTIES TimersExpire
CHECK_DEADLOCK FALSE
