SPECIFICATION Spec
CONSTANTS
    t1 = t1
    l1 = l1
    w1 = w1
    w2 = w2
    c1 = c1
    NoTask = NoTask
    Tasks <- OneTask
    LegacyPasses <- Nothing
    Turns <- OneTurn
    Loops <- Nothing
    PassLimit = 1
    MaxDeliveries = 1
    MaxCrashes = 1
    MaxReconnects = 0
    Faults <- Nothing
    MaxAttempts = 2
CHECK_DEADLOCK FALSE
INVARIANT UnstartedIsClaimable
