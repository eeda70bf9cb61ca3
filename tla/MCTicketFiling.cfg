SPECIFICATION Spec
CONSTANTS
    r1 = r1
    r2 = r2
    r3 = r3
    Runs <- MCRuns
    MaxHandled = 1
INVARIANTS
    NoLateDuplicate
PROPERTIES
    OwnLabelsKept
    LabelLossNeedsRace
CHECK_DEADLOCK FALSE
