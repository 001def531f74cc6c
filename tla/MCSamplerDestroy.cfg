CONSTANTS
    Readers = {t1, t2}
    Numbers = {1, 2}
    Capacity = 2
    MaxItems = 1
    Threshold = 1
    MaxCalls = 2
    MaxClock = 1
SPECIFICATION DestroySpec
CHECK_DEADLOCK FALSE
INVARIANT DestructorWaits
