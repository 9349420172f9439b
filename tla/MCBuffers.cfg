\* Messages that fit, fit exactly, take several parts, and are too large; 8-bit
\* sizes: odd, fitting, exactly filling, doubling once and many times.
SPECIFICATION MCSpec
CONSTANTS
    InitSize = 2
    MaxFails = 2
    Sizes = {1, 2, 5, 9}
    MaxMsgs = 5
    SizeMod = 256
    MallocMax = 127
    InitSizes = {0, 7, 16}
    Requests = {0, 1, 4, 5, 12, 33, 120}
    MaxBlocks = 5
INVARIANTS
    Reassembled NeverGivesUpEarly
    BlocksSound
PROPERTIES
    KeptBytesStay 
CHECK_DEADLOCK FALSE
