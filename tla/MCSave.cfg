\* Saves with something wrong in any of their blocks, entities and state files.
SPECIFICATION Spec
CONSTANTS
    Nothing = Nothing
    Partial = Partial
    Headless = Headless
    Outputless = Outputless
    Npc <- MCNpc
    Saves <- MCSaves
INVARIANTS
    SoundIsRestored LossIsLogged  SoundIsDumped
CHECK_DEADLOCK FALSE
