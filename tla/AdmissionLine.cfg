SPECIFICATION FairSpec
CONSTANTS
    a1 = a1
    b1 = b1
    v1 = v1
    h1 = h1
    A = A
    B = B
    Requests <- InLine
    Builds <- TwoBuilds
    Kind <- LineKind
    Build <- LineBuild
    Unblocks <- LinePromise
    Capacity = 2
    ReviewReserve = 1
    Capacities <- OneToThree
    AgeLimit = 1
    MaxRestarts = 1
INVARIANT TypeOK
INVARIANT SlotsAccounted
INVARIANT NoIdleSlot
INVARIANT PlaceSurvives
PROPERTY AgedGoFirst
PROPERTY ReviewsServed
