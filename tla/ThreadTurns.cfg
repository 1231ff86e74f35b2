SPECIFICATION FairSpec
CONSTANTS
    t1 = t1
    t2 = t2
    Turns <- TwoTurns
    Builds <- OneBuild
    None = None
    Ghost = Ghost
    MaxRestarts = 1
INVARIANT TypeOK
INVARIANT SlotKept
INVARIANT AwaitedEnds
INVARIANT ResumedOnce
PROPERTY QueuedRuns
PROPERTY PendingCloseSettles
