CONSTANTS
    Plans <- MCPlans
    Tasks <- MCTasks
    PlanOf <- MCPlanOf
    Order <- MCOrder
    Deps <- MCDeps
    Clash <- MCClash
    Endings <- MCEndings
    Parallel = {2}
    MaxVersion <- MCMaxVersion
    MaxReplies = 1
    MaxFaults = 1
SPECIFICATION FairSpec
INVARIANTS TypeOK HeldIsCurrent AcceptedLanded RunningApart
PROPERTIES AcceptedStays AttemptsEnd
CHECK_DEADLOCK FALSE
