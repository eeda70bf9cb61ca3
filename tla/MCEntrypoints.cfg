SPECIFICATION FairSpec
CONSTANTS
    h1 = h1
    s1 = s1
    s2 = s2
    Hooks <- MCHooks
    Streams <- MCStreams
    Runs <- MCRuns
    MaxRuns = 2
INVARIANTS
    LeftFilesHaveAReason
    DrainedCardsAreTrue
    SecondRunNeedsGivingUp
PROPERTIES
    TimeoutsAreReal
    AcceptedReportsAreRun
CHECK_DEADLOCK FALSE
