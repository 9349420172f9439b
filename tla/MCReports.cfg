\* What is in memory, and what the text says; two games, and what the script says.
SPECIFICATION MCSpec
CONSTANTS
    NoMap = "no map"
    DataMap <- MCDataMap
    BaseOf <- MCBaseOf
    FieldsOf <- MCFieldsOf
    SizeOf <- MCSizeOf
    Object <- MCObject
    Dumps <- MCDumps
    Null = "null"
    Pairs <- MCPairs
    Name = {1, 2, 3, 4}
INVARIANTS
    
    LinesNest
    DifferencesOnce
CHECK_DEADLOCK FALSE
