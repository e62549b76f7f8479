SPECIFICATION Spec
CONSTANTS
    NaN = NaN
    None = None
    Gate = {1, 2}
    Scenario <- Rules
    MaxStep = 2
    Backlog = 1
INVARIANT
    TripIsAnnounced

    
CHECK_DEADLOCK FALSE
