SPECIFICATION Spec
CONSTANTS
    c1 = c1
    c2 = c2
    v1 = v1
    v2 = v2
    Callers <- MCCallers
    FailureThreshold = 1
    RecoveryTimeout = 1
    HalfOpenMaxCalls = 1
    MaxCount = 1
    Cves <- MCCves
    CacheSize = 1
    MaxAttempts = 2
    MaxVersion = 2
SYMMETRY Symmetry
INVARIANT AdmissionsAreHeld
PROPERTY OverwriteNeedsRace
CHECK_DEADLOCK FALSE
