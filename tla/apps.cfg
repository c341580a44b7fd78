\* Two connections of the client tool, two messages of the latency test.
SPECIFICATION AppsFairSpec
CONSTANTS
    NConn = 2
    MaxConns = 2
    MaxRefused = 0
    MaxLen = 2
    Spurious = FALSE
    Lengths = {2, 3}
    Count = 2
    MSS = 2
    MaxQueue = 2
    Programs = {"poller", "latency"}
INVARIANTS AnswersAreTrue MessagesInOrder
PROPERTIES CommandsReturn ClientStops
CHECK_DEADLOCK FALSE
