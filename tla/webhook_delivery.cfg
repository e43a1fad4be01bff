SPECIFICATION FairSpec
CONSTANTS
    Event = {e1}
    Endpoint = {n1, n2}
    Worker = {w1, w2}
    NoClaim = NoClaim
    Limit = {1, 2}
    Subscribers <- MCSubscribers
    MaxAttempts <- MCMaxAttempts
    n1 = n1
    n2 = n2
    MaxFaults = 1
    MaxReplays = 1
    MaxEdits = 1
INVARIANTS
    WebhookTypeOK
    EventsFollowDeliveries
    AttemptsBounded
PROPERTIES
    ImplementsReliableDelivery
    EveryEventSettles
CHECK_DEADLOCK FALSE
