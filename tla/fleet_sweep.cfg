SPECIFICATION FairSpec
CONSTANTS
    w1 = w1
    w2 = w2
    s1 = s1
    None = None
    Worker = {w1, w2}
    Persistent = {w1}
    Run = {1, 2, 3}
    Sweep = {s1}
    SweepOf <- AllInSweep
    Concurrency <- OneAtATime
    Socket = {1}
    ExitKind = {"exited_ok", "killed_runtime"}
    Budget <- TwoStops
INVARIANTS
    SweepWithinConcurrency
    CancelledWasAsked
    
PROPERTIES
    CancelHitsItsTarget
    StopEnds
