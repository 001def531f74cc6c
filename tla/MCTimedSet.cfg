CONSTANTS
    Readers = {t1, t2}
    Numbers = {1, 5, 2}
    Capacity = 4
    MaxItems = 2
    Threshold = 2
    MaxCalls = 3
    MaxClock = 4
SPECIFICATION StartSpec
SYMMETRY Symmetry
CHECK_DEADLOCK FALSE
INVARIANTS
    HeldIsAlive
    TableConsistent
    RebuildReadsAlive
PROPERTY AccessMovesOn
