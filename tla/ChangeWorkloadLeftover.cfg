SPECIFICATION FairSpec
CONSTANTS
    p1 = p1
    p2 = p2
    p3 = p3
    w1 = w1
    w2 = w2
    Pods <- TwoPods
    Mortal <- NoPod
    Workers <- OneWorker
    Replicas = 2
    CountThreshold = 2
    Blocking = FALSE
    MaxChangePods = 2
    MaxMishaps = 0
PROPERTIES
    LeftoverPodsBatched
CHECK_DEADLOCK FALSE
