SPECIFICATION Spec
CONSTANTS
    t1 = t1
    t2 = t2
    Turns <- TwoTurns
    Builds <- OneBuild
    None = None
    Ghost = Ghost
    MaxRestarts = 0
INVARIANT NoWaitOnLock
