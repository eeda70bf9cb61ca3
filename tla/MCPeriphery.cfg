SPECIFICATION PeripherySpec
CONSTANTS
    one = one
    two = two
    Tokens <- Pair
    KeySets <- MCKeySets
    Versions <- MCVersions
    ModelWriters <- Pair
    SigningKeys <- Pair
    TooLarge = {1}
    MaxSaves = 2
    Classifiers <- Pair
    MaxTrainings = 2
    Records = 3
    CVEs <- Pair
    Attempts <- Pair
    Runs <- Pair
    Unreadable = {one}
    MaxStores = 3
    MaxReports = 2
    Pages <- MCPages
    Kev <- MCKev
    Msf <- MCMsf
    Unrated <- MCUnrated
INVARIANTS
    PublishedKeyIsKnown
    BadLoadNeedsDisturbance
    ScoresAreOneModel
    MissedTextsAreExplained
    SetupCanBeRepeated
    ReportsAreWhole
    MonitorIsTruthful
    ModelGapsAreExplained
PROPERTIES
    OlderKeysNeedOvertaking
CHECK_DEADLOCK FALSE
