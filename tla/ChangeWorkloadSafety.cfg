SPECIFICATION Spec
CONSTANTS
    p1 = p1
    p2 = p2
    p3 = p3
    w1 = w1
    w2 = w2
    Pods <- TwoPods
    Mortal <- NoPod
    Workers <- TwoWorkers
    Replicas = 2
    CountThreshold = 1
    Blocking = FALSE
    MaxChangePods = 2
    MaxMishaps = 1
INVARIANTS
    TypeOK
    AtMostOneInit
    DenseNumbers
    SuccessIsEarned
PROPERTIES
    DecisionIsFinal
SYMMETRY Symmetry
CHECK_DEADLOCK FALSE
