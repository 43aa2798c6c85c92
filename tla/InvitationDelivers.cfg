SPECIFICATION DeliverySpec
CONSTANTS
    Commands = {"delete_receive", "clear_history"}
    ModeCallers = {}
    Attempts = {a1}
    None = None
    MaxPending = 1
    MaxCrashes = 1
INVARIANTS
    TypeOK
    CompletedTruthfully
    ReceiptIsGenuine
PROPERTY
    ReceiptIsSettled
CHECK_DEADLOCK FALSE
