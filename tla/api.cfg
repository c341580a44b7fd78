SPECIFICATION FairSpec
CONSTANTS
    NConn = 2
    MaxConns = 3
    MaxRefused = 1
    Ports = {1}
    Roles = {"client", "server"}
INVARIANTS TablesAgree EventsReachTheirHandle UndisturbedCallsReachTheirConnection
    CookiesAreIntact
PROPERTIES ConnectIsAnswered
CHECK_DEADLOCK FALSE
