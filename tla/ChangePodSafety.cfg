SPECIFICATION FairSpec
CONSTANTS
    p1 = p1
    p2 = p2
    h1 = h1
    h2 = h2
    Pods <- TwoPods
    Mortal <- OneMortal
    Handlers <- OneHandler
    CountThreshold = 1
    MaxCallbacks = 2
    MaxFaults = 1
    MaxCrashes = 1
INVARIANTS
    TypeOK
    LabelledOnlyInBatch
    InspectedBatchIsLabelled
    DoneRecordsOutcome
    OutcomeHasCause
PROPERTIES
    LifecycleRefined
    StartedBatchFinishes
CHECK_DEADLOCK FALSE
