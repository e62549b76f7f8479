SPECIFICATION Spec
CONSTANTS
    vast = vast
    mock = mock
    w1 = w1
    w2 = w2
    c1 = c1
    None = None
    Worker = {w1, w2}
    Provider = {vast, mock}
    Vast = {vast}
    Broken = {vast}
    Client = {c1}
    Request <- OneEach
    Minutes = {1}
    Cap0 <- NoCaps
    NewCap <- VastCap
    DrainWindow = 1
    MaxAge = 3
    FaultBudget <- FaultFree
PROPERTY
    WallIsKept
