SPECIFICATION FairSpec
CONSTANTS
    m1 = m1
    m2 = m2
    p1 = p1
    Messages <- OneMessage
    Presses <- OnePress
    Prompt <- PressOfFirst
    Odd <- OneMessage
    Copies <- FirstTwice
    MaxItems = 2
    MaxDeliveries = 2
    SeenCapacity = 1
    MaxRestarts = 1
PROPERTY KeepsPromise
PROPERTY Settles
PROPERTY NotTwice
CHECK_DEADLOCK FALSE
