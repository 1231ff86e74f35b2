SPECIFICATION ClearSpec
CONSTANTS
    t1 = t1
    t2 = t2
    Turns <- TwoTurns
    Builds <- NoBuild
    None = None
    Ghost = Ghost
    MaxRestarts = 0
INVARIANT OneRun
