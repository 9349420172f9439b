\* An array of embedded classes, each larger packed than in the game.
SPECIFICATION Spec
CONSTANTS
    ent = ent player = player vec = vec tag = tag sound = sound timer = timer
    server = server engine = engine
    nEnt = nEnt nPlayer = nPlayer nVec = nVec nTag = nTag nSound = nSound
    nTimer = nTimer nLink = nLink
    NoMap = NoMap
    TimerSize = 4
    NumTimers = 3
    DataMap <- MCDataMap
    Name <- MCName
    ModSeq <- MCModSeq
    ModOf <- MCModOf
    NameOf <- MCNameOf
    BaseOf <- MCBaseOf
    EmbeddedOf <- MCEmbeddedOf
    FieldsOf <- MCFieldsOf
    ModRank <- MCModRank
    NameRank <- MCNameRank
    Inputs <- MCInputs
INVARIANTS
    ClassInItsSize
CHECK_DEADLOCK FALSE
