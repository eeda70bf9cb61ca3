\* a token is three units, of which a tick brings two
SPECIFICATION LimiterFairSpec
CONSTANTS
    MaxRequests = 5
    Priorities <- MCPriorities
    Capacity = 6
    Cost = 3
    Refill = 2
    MaxQueue = 2
INVARIANTS
    RateKept
    QueueIsServed
    NoOversleep
PROPERTY
    WaitersReleased
CHECK_DEADLOCK FALSE
