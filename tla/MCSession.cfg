\* Everything may fail and both processes may die, with a finite timeout.
SPECIFICATION FairSpec
CONSTANTS
    ent = ent player = player vec = vec evec = evec sound = sound
    server = server engine = engine
    nEnt = nEnt nPlayer = nPlayer nVec = nVec nSound = nSound nLink = nLink
    NoMap = NoMap
    DataMap <- MCDataMap
    Name <- MCName
    ModSeq <- MCModSeq
    ModOf <- MCModOf
    NameOf <- MCNameOf
    BaseOf <- MCBaseOf
    EmbeddedOf <- MCEmbeddedOf
    LinkMaps <- MCLinkMaps
    Searches <- MCSearches
    QueueMax = 2
    MAX_SELECT_GAMES = 3
    MaxProcs = 3
    Numbers <- MCNumbers
    FiniteTimeout = TRUE
    Faults = {"exe", "game"}
INVARIANTS
    NothingLost  HandlesClosed
PROPERTIES
    FileIsReplacedWhole  PayloadLeaves
CHECK_DEADLOCK FALSE
