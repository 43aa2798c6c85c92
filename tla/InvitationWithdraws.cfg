SPECIFICATION AttemptSpec
CONSTANTS
    Commands = {"delete", "cancel_receive"}
    ModeCallers = {}
    Attempts = {a1}
    None = None
    MaxPending = 1
    MaxCrashes = 0
INVARIANTS
    ContentNeedsConsent
    ReceiptIsGenuine
PROPERTY
    RequestIsSettled
CHECK_DEADLOCK FALSE
