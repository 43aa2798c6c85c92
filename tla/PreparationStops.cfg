SPECIFICATION FairSpec
CONSTANTS
    Sends = {send1, send2}
    Stops = {stop1, stop2, stop3}
INVARIANTS
    AssertionsHold
    StopsAgree
    StopIsFinal
    GateInv
PROPERTIES
    StopReturns
    StoppedPayloadGoes
CHECK_DEADLOCK FALSE
