CONSTANTS
    Procs = {p1, p2}
    Limit = 1
    Second = 2
    Width = 256
    Start = 1
    MaxTicks = 4
    MaxCalls = 4
SPECIFICATION LimiterSpec
SYMMETRY Symmetry
CHECK_DEADLOCK FALSE
INVARIANTS
    AloneIsExact
    LongTermRate
