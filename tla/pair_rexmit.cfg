\* One frame is lost: what is sent again is not what was sent.
SPECIFICATION Spec
CONSTANTS
    SegmentCount = 2
    SeqSpace = 11
    MSS = 2
    HeaderLen = 1
    MaxRtx = 2
    StaleFlags = {{}, {"ACK"}}
    ClientSeqs = {8}
    ServerSeqs = {3}
    ClientBytes = 3
    ServerBytes = 0
    ClientReactions = {"Continue"}
    ServerReactions = {"Continue"}
    ClientReplies = {}
    ServerReplies = {}
    ClientCalls = {"Connect", "Send", "Close"}
    ServerCalls = {}
    NoDelay = FALSE
    DelayedAck = FALSE
    Windows = {2}
    MaxConnects = 1
    MaxQueue = 2
    Impatient = FALSE
    Faults = {"Lose"}
    MaxFaults = 1
CHECK_DEADLOCK FALSE
INVARIANTS RexmitSendsTheSame
