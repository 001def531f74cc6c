CONSTANTS
    Threads = {w1, w2, w3}
    Conns = {c1, c2, c3}
    None = None
SPECIFICATION FairSpec
CHECK_DEADLOCK FALSE
INVARIANTS NoLostWakeup 
PROPERTIES  StopReturns
