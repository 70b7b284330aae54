SPECIFICATION FairSpec
CONSTANTS
    d1 = d1
    d2 = d2
    v1 = v1
    v2 = v2
    v3 = v3
    First = v1
    Deployments <- OneDeployment
    Versions <- ThreeVersions
    MaxReleases = 2
    MaxEvictions = 1
    MaxMishaps = 1
INVARIANT
    TypeOK
PROPERTIES
    OnlyUnhealthyRolledBack
    StuckIsHandled
CHECK_DEADLOCK FALSE
