\* Embedded classes that fit in what the game reserves for them.
SPECIFICATION Spec
CONSTANTS
    ent = ent player = player vec = vec tag = tag sound = sound timer = timer
    server = server engine = engine
    nEnt = nEnt nPlayer = nPlayer nVec = nVec nTag = nTag nSound = nSound
    nTimer = nTimer nLink = nLink
    NoMap = NoMap
    TimerSize = 8
    NumTimers = 1
    DataMap <- MCDataMap
    Name <- MCName
    ModSeq <- MCModSeq
    ModOf <- MCModOf
    NameOf <- MCNameOf
    BaseOf <- MCBaseOf
    EmbeddedOf <- MCEmbeddedOf
    FieldsOf <- MCFieldsOf
    ModRank <- MCModRank
    NameRank <- MCNameRank
    Inputs <- MCInputs
INVARIANTS
    DependenciesFirst FieldsApart ClassInItsSize AcceptedIfWhole
    MeansTheSame
CHECK_DEADLOCK FALSE
