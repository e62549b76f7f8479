SPECIFICATION Spec
CONSTANTS
    leased = leased
    persistent = persistent
    None = None
    Worker = {leased, persistent}
    Persistent = {persistent}
    MaxStep = 3
    NameRank <- ByName
    MaxAttempt = 2
    Budget <- Troubles
INVARIANTS
    TypeOK
    LineageIsTrue
    
PROPERTIES
    FinalIsFinal
    CompletedIsArchived
CHECK_DEADLOCK FALSE
