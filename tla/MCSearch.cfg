SPECIFICATION Spec
CONSTANTS
    Null = Null
    Memories <- MCMemories
    MaxDepth = 4
    MaxInstrs = 6
INVARIANTS
    
    LinkedToOwnClass

    
CHECK_DEADLOCK FALSE
