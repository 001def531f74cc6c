CONSTANTS
    Producers = {p1}
    Writer = writer
    Stacks = {s1, s2, s3}
    NULL = NULL
    MaxBacklog = 1
    InitialSize = 32
    MaxPayload = 64
    PayloadSizes = {20, 40}
    MaxCalls = 2
SPECIFICATION FairSpec
CHECK_DEADLOCK FALSE
PROPERTY EventuallySent
