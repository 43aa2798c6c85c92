CONSTANTS
    h1 = h1  h2 = h2  h3 = h3
    k1 = k1  k2 = k2
    Handles = {h1, h2, h3}
    Keys = {k1, k2}
    Absent = Absent
    LegacyFiles <- FirstStarts
    Arrivals <- AfterStart
    MaxRequests = 4
    MaxLost = 1
    MaxResets = 1
    MaxCrashes = 2

SPECIFICATION Spec
INVARIANTS TypeOK IdentityNeverReplaced KeyRecoverable
PROPERTIES StartBacksRows StartCompletes
CHECK_DEADLOCK FALSE
