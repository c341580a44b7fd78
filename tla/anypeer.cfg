\* A host that connects or is called, answers with a byte, sends two segments and
\* closes or aborts, with delayed ACKs, against any peer.
SPECIFICATION Spec
CONSTANTS
    SegmentCount = 2
    SeqSpace = 7
    MSS = 1
    HeaderLen = 1
    MaxRtx = 1
    StaleFlags = {{}, {"ACK"}}
    Listening = TRUE
    InitialSeqs = {6}
    NoDelay = FALSE
    DelayedAck = TRUE
    MaxBytes = 2
    Reactions = {"Continue", "Close", "Abort"}
    Replies = {1}
    Calls = {"Connect", "Send", "Close", "Abort"}
    Windows = {2}
    MaxConnects = 1
    MaxQueue = 1
    Impatient = TRUE
    PeerFlags = {{"SYN"}, {"SYN", "ACK"}, {"FIN"}, {"ACK"}, {"FIN", "ACK"}, {"RST"}}
    PeerOffsets = {0, 6}
    PeerBytes = 1
    PeerSeq = 3
CHECK_DEADLOCK FALSE
INVARIANTS ContiguousInFlight DataIsGiven EventOrder
PROPERTIES NothingAfterFin
