\* Two ports, two connections, two descriptors.
SPECIFICATION FairSpec
CONSTANTS
    Ports = {1, 2}
    MaxConns = 2
    MaxFd = 2
    MaxWrites = 2
    Preys = {0, 1, 2}
INVARIANTS ClientsAreTheirOwn KillIsTrue
PROPERTIES KillsReturn
CHECK_DEADLOCK FALSE
