SPECIFICATION Spec
CONSTANTS
    Transfers = {t1}
    Handles = {h1, h2}
    None = None
    Commands <- SenderCommands
    MaxCrashes = 0
SYMMETRY HandleSymmetry
INVARIANTS
    TypeOK
    ReceiverFollowsApproval
    LiveAuthorizationUsable
    AccessOnlyWhileLive
CHECK_DEADLOCK FALSE
