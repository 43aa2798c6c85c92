SPECIFICATION Spec
CONSTANTS
    Sessions = {s1, s2}
    MaxGeneration = 4
    MaxGrants = 3
    None = None
    Tasks = {t1, t2, t3}
    Commands <- AllCommands
    Sharer = 1
    MaxCommands = 3
    MaxReceipts = 1
    MaxTimeouts = 1
    MaxCrashes = 1
SYMMETRY Symmetry
INVARIANTS
    TypeOK
    AuthorityNeedsConsent
    SavedGrantsMatch
    NoStandstill
PROPERTIES
    RevokedStaysRevoked
CHECK_DEADLOCK FALSE
