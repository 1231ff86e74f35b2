SPECIFICATION FairSpec
CONSTANTS
    t1 = t1
    l1 = l1
    w1 = w1
    w2 = w2
    c1 = c1
    NoTask = NoTask
    Tasks <- OneTask
    LegacyPasses <- Nothing
    Turns <- OneTurn
    Loops <- OneLoop
    PassLimit = 1
    MaxDeliveries = 2
    MaxCrashes = 1
    MaxReconnects = 0
    Faults <- EarlyStop
    MaxAttempts = 1
CHECK_DEADLOCK FALSE
INVARIANTS
    CompletedIsRecorded
    DeliveredWasSent
PROPERTIES
    KeepsPromise
    AnswersSettle
