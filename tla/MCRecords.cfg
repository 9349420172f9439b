\* Every entity, whole and cut short anywhere.
SPECIFICATION Spec
CONSTANTS
    NoMap = "no map"
    Npc = "npc"
    NpcHeader = "header"
    Version = 29
    Waypoint = "waypoint"
    Garbage = 99
    MaxList = 1
    DataMap <- MCDataMap
    NameOf <- MCNameOf
    BaseOf <- MCBaseOf
    FieldsOf <- MCFieldsOf
    Uv <- MCUv
    Elems <- MCElems
    BaseOutput = "output"
    EventAction = "action"
    OutputValue <- MCOutputValue
    EntityOutput <- MCEntityOutput
    ActivityTag <- MCActivityTag
    Saves <- MCSaves
INVARIANTS
     RecordsNest  NothingInvented
CHECK_DEADLOCK FALSE
