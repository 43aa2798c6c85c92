SPECIFICATION FairShareSpec
CONSTANTS
    Commands = {"stop", "mode", "approve", "delete"}
    ModeCallers = {c1}
INVARIANTS
    ServedOnlyWhileShared
    SharingKeepsPayload
PROPERTY
    EndedShareIsReleased
CHECK_DEADLOCK FALSE
