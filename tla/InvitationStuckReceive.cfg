SPECIFICATION Spec
CONSTANTS
    Commands = {}
    ModeCallers = {}
    Attempts = {a1, a2}
    None = None
    MaxPending = 1
    MaxCrashes = 0
SYMMETRY AttemptSymmetry
INVARIANT
    ReceivingIsLive
CHECK_DEADLOCK FALSE
