SPECIFICATION FairSpec
CONSTANTS
    Transfers = {t1}
    Handles = {h1}
    None = None
    Commands <- SenderStops
    MaxCrashes = 1
INVARIANTS
    CompletionStillOwed
PROPERTIES
    PayloadIsReleased
    NegotiationEnds
    AuthorizationIsDelivered
    CompletionIsAcknowledged
CHECK_DEADLOCK FALSE
