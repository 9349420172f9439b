\* Any client: every message in any order, every allocation or write may fail.
SPECIFICATION RSpec
CONSTANTS
    ent = ent player = player vec = vec evec = evec sound = sound
    server = server engine = engine
    nEnt = nEnt nPlayer = nPlayer nVec = nVec nSound = nSound nLink = nLink
    NoMap = NoMap
    DataMap <- MCDataMap
    Name <- MCName
    ModSeq <- MCModSeq
    ModOf <- MCModOf
    NameOf <- MCNameOf
    BaseOf <- MCBaseOf
    EmbeddedOf <- MCEmbeddedOf
    LinkMaps <- MCLinkMaps
INVARIANTS
    NoDangling PartsStored NamesUnique LinksResolve FileIsWhatWasKept
CHECK_DEADLOCK FALSE
