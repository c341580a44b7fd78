\* poll() or wait() at any time, so that one of them only is among the behaviours.
SPECIFICATION FairSpec
CONSTANTS
    NBuf = 3
    PostThreshold = 1
    EventThreshold = 1
    Calls = {"poll", "wait"}
    MaxFrames = 4
    MaxSends = 2
INVARIANTS BuffersAreWhole SentAsCommitted DestroyReturns
PROPERTIES ImplementsLink 
CHECK_DEADLOCK FALSE
