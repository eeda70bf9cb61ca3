SPECIFICATION FairSpec
CONSTANTS
    c1 = c1
    c2 = c2
    c3 = c3
    Callers <- MCCallers
    FailureThreshold = 2
    RecoveryTimeout = 2
    HalfOpenMaxCalls = 2
    MaxCount <- MCMaxCount
INVARIANT ClosedBelowThreshold
INVARIANT OpenCanBeTested
INVARIANT EpisodeAccounted
PROPERTY OpenIsLeft
PROPERTY HalfOpenIsDecided
