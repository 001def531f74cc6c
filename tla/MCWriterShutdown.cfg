SPECIFICATION HangingAgentSpec
CONSTANTS
    Threads = {p1}
    NULL = NULL
    MaxBacklog = 1
    MaxPayloads = 3
    MaxRequests = 2
    MaxFlushes = 1
    Forks = {"pcntl", "plain"}
    MayShutDown = TRUE
    FlushAfter = 1
INVARIANT WriterInStep
PROPERTY ShutdownSends
 
CHECK_DEADLOCK FALSE
