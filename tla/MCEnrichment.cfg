SPECIFICATION FairSpec
CONSTANTS
    t1 = t1
    t2 = t2
    t3 = t3
    Tasks <- MCTasks
    CveOf <- MCCveOf
    MaxConcurrent = 2
    CacheSize = 1
    Answers <- MCAnswers
    MaxOsint = 1
    LlmRelevances = {9}
    MaxBatches = 2
INVARIANTS
    DivergenceNeedsRace
    ReportedIsStored
PROPERTIES
    StoredIsFinal
    RecordsGetTheirTurn
CHECK_DEADLOCK FALSE
