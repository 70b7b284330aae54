SPECIFICATION FairSpec
CONSTANTS
    MaxRetryCount = 1
    MaxSubmissions = 3
    MaxLosses = 2
    MaxCallbacks = 2
    MaxCrashes = 1
INVARIANTS
    TypeOK
    NodeIsOurs
    VerdictIsOurs
PROPERTIES
    NodeIsFinal
    SubmissionRefined
    SubmissionEnds
CHECK_DEADLOCK FALSE
