SPECIFICATION Spec
CONSTANTS
    Transfers = {t1}
    Handles = {h1}
    None = None
    Commands <- ReceiverCommands
    MaxCrashes = 0
SYMMETRY HandleSymmetry
INVARIANTS
    ConsentBeforeAuthority
    CompletedTruthfully
PROPERTIES
    ImplementsLifecycle
CHECK_DEADLOCK FALSE
