CONSTANTS
    Producers = {p1, p2}
    Writer = writer
    Stacks = {s1, s2, s3}
    NULL = NULL
    MaxBacklog = 1
    InitialSize = 32
    MaxPayload = 64
    PayloadSizes = {20, 40}
    MaxCalls = 3
SPECIFICATION Spec
SYMMETRY Symmetry
CONSTRAINT UntilRaced
CHECK_DEADLOCK FALSE
INVARIANTS
    PinnedStackAlive
    SingleOwner
    EntriesTiled
PROPERTY SendingIsFrozen ImplementsBuffer
