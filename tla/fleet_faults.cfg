SPECIFICATION Spec
CONSTANTS
    w1 = w1
    w2 = w2
    s1 = s1
    None = None
    Worker = {w1, w2}
    Persistent = {w1}
    Run = {1, 2}
    Sweep = {}
    SweepOf <- NoSweeps
    Concurrency <- OneAtATime
    Socket = {1, 2}
    ExitKind = {"exited_ok"}
    Budget <- AnyOneFault
INVARIANTS
    TypeOK
    
    ActiveHasWorker
    ClaimIsReapable
    ClaimsAreDisjoint
