SPECIFICATION FairSpec
CONSTANTS
    p1 = p1
    p2 = p2
    p3 = p3
    w1 = w1
    w2 = w2
    Pods <- OnePod
    Mortal <- OnePod
    Workers <- OneWorker
    Replicas = 1
    CountThreshold = 1
    Blocking = TRUE
    MaxChangePods = 2
    MaxMishaps = 1
INVARIANT
    SuspendIsAnnounced
PROPERTIES
    PublishedPodsBatched
    EventuallyDecided
CHECK_DEADLOCK FALSE
