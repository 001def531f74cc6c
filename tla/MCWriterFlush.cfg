SPECIFICATION FairSpec
CONSTANTS
    Threads = {p1, p2}
    NULL = NULL
    MaxBacklog = 1
    MaxPayloads = 2
    MaxRequests = 0
    MaxFlushes = 2
    Forks = {"pcntl"}
    MayShutDown = FALSE
    FlushAfter = 1
INVARIANT ChildSendsOnlyItsOwn
PROPERTY SyncFlushReturns
PROPERTY AcceptedIsUploaded
CHECK_DEADLOCK FALSE
