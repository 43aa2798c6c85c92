SPECIFICATION Spec
CONSTANTS
    Sessions = {s1}
    MaxGeneration = 2
    MaxGrants = 2
    None = None
    Tasks = {t1}
    Commands <- AcceptTwice
    Sharer = 1
    MaxCommands = 3
    MaxReceipts = 1
    MaxTimeouts = 1
    MaxCrashes = 0
INVARIANTS
    SavedIsUsable
CHECK_DEADLOCK FALSE
