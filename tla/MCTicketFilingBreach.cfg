SPECIFICATION Spec
CONSTANTS
    r1 = r1
    r2 = r2
    r3 = r3
    Runs <- MCRuns
    MaxHandled = 0
PROPERTY
    RescanMarksBreaches
CHECK_DEADLOCK FALSE
