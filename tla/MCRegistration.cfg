SPECIFICATION Spec
CONSTANTS
    Key <- MCKeys
    Value <- MCValue
    NoItem = NoItem
    NoOps = "none"
    Cap = 4
    Examples <- MCExamples
    Collections <- MCCollections
    Hashes <- MCHashes
INVARIANTS
    RobinHood
    
PROPERTIES
    IsDictionary
CHECK_DEADLOCK FALSE
