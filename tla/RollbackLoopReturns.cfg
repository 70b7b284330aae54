SPECIFICATION FairSpec
CONSTANTS
    d1 = d1
    d2 = d2
    v1 = v1
    v2 = v2
    v3 = v3
    First = v1
    Deployments <- OneDeployment
    Versions <- TwoVersions
    MaxReleases = 1
    MaxEvictions = 1
    MaxMishaps = 0
PROPERTY
    AbnormalIsRolledBack
CHECK_DEADLOCK FALSE
