SPECIFICATION MonitorFairSpec
CONSTANTS
    r1 = r1
    r2 = r2
    Runs <- MCRuns
    Unreadable = {}
PROPERTY
    CompletedRunIsShown
CHECK_DEADLOCK FALSE
