SPECIFICATION Spec
CONSTANTS
    Transfers = {t1}
    Handles = {h1}
    None = None
    Commands <- ForgetCommands
    MaxCrashes = 1
SYMMETRY HandleSymmetry
INVARIANTS
    ForgottenReceiverIsDenied
    InductiveInv
CHECK_DEADLOCK FALSE
