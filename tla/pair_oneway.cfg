\* A client that sends five bytes in segments of two and closes, over a network
\* that loses nothing; it connects twice.
SPECIFICATION FairSpec
CONSTANTS
    SegmentCount = 2
    SeqSpace = 11
    MSS = 2
    HeaderLen = 1
    MaxRtx = 2
    StaleFlags = {{}, {"ACK"}}
    ClientSeqs = {8}
    ServerSeqs = {3}
    ClientBytes = 5
    ServerBytes = 0
    ClientReactions = {"Continue"}
    ServerReactions = {"Continue"}
    ClientReplies = {1, 2}
    ServerReplies = {}
    ClientCalls = {"Connect", "Send", "Close"}
    ServerCalls = {}
    NoDelay = FALSE
    DelayedAck = FALSE
    Windows = {3, 4}
    MaxConnects = 2
    MaxQueue = 2
    Impatient = FALSE
    Faults = {}
    MaxFaults = 0
CHECK_DEADLOCK FALSE
INVARIANTS StreamIntact
PROPERTIES SentArrives
