SPECIFICATION FairSpec
CONSTANTS
    r1 = r1
    NotANumber = NotANumber
    Counts <- SomeCounts
    ReplicaCounts <- Three
    Readers <- OneReader
    IntBound = 512
    MaxChanges = 2
INVARIANTS
    TypeOK
    ThresholdInRange
    ReadsWereConfigured
    PairIsOneConfig
PROPERTIES
    ConfigurationArrives
    ReadersServed
    StraysRemoved
CHECK_DEADLOCK FALSE
