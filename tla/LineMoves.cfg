CONSTANTS
    Plans <- MCPlans
    Projects = {"alpha", "beta"}
    ProjectOf <- MCProjectOf
    Checkbox = {"queued", "own"}
    Queued = {"queued", "other"}
    Direct = {"own"}
    MaxDue = 1
    MaxReplies = 1
    MaxTrouble = 1
SPECIFICATION FairSpec
INVARIANTS Kept OneAtATime CheckboxAlone
PROPERTY LineMoves
CHECK_DEADLOCK FALSE
