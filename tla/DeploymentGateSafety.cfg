SPECIFICATION FairSpec
CONSTANTS
    v1 = v1
    v2 = v2
    v3 = v3
    First = v1
    Versions <- TwoVersions
    MaxReleases = 2
    MaxCrashes = 1
INVARIANT
    TypeOK
PROPERTIES
    GateHolds
    FirstReleaseIsUnmarked
    WorkloadBeforeMark
    ReleaseIsTaken
    ReleaseIsMarked
    GateCloses
CHECK_DEADLOCK FALSE
