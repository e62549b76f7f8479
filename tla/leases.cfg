SPECIFICATION Spec
CONSTANTS
    vast = vast
    mock = mock
    w1 = w1
    w2 = w2
    c1 = c1
    None = None
    Worker = {w1, w2}
    Provider = {vast, mock}
    Vast = {vast}
    Broken = {}
    Client = {c1}
    Request <- OneEach
    Minutes = {1}
    Cap0 <- OneCap
    NewCap <- VastCap
    DrainWindow = 1
    MaxAge = 3
    FaultBudget <- Troubles
INVARIANTS
    TypeOK
    DestroyedIsCharged
PROPERTIES
    LoneSpendWithinCap
    EveryLeaseEnds
