SPECIFICATION Spec
CONSTANTS
    MaxInFlight = 2
    Repeatable = {"ack"}
    MaxCrashes = 1
    MaxAttempts = 2
INVARIANTS EndIsTrue ToldOnce EndSeen
PROPERTY CopyEnds
CHECK_DEADLOCK FALSE
