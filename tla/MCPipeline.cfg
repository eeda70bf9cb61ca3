\* percentile 40 makes the adaptive threshold of a batch of two its smaller
\* discrepancy, so that both outcomes of the escalate node occur.
SPECIFICATION Spec
CONSTANTS
    Cves <- MCCves
    Wirings <- MCWirings
    MlScores <- MCMlScores
    LlmScores <- MCLlmScores
    Relevances <- MCRelevances
    MaxRuns = 2
    BaseThreshold = 30
    ConfidenceFloor = 70
    Percentile = 40
    HistorySize = 500
INVARIANTS
    AuthorizedBasis
    LowConfidenceFlagged
    WholeBatchReported
PROPERTIES
    ErrorsStopReporting
    KeepsLifecycle
CHECK_DEADLOCK FALSE
