\* Messages of the payload and of others, packed and unpacked.
SPECIFICATION WireSpec
CONSTANTS
    Null = Null
    StackSize = 32
    Datamap <- MCDatamap
    Rank <- MCRank
    Sessions <- MCSessions
INVARIANTS
    WhatIsSentArrives NothingUnchecked
CHECK_DEADLOCK FALSE
