SPECIFICATION FairSpec
CONSTANTS
    stdout = stdout
    stderr = stderr
    None = None
    Pump = {stdout, stderr}
    Jobs = 2
    Socket = {1, 2}
    Budget <- Troubles
INVARIANTS
    TypeOK
    NothingLost
    EndIsLast
PROPERTIES
    ImplementsChannel
    EveryEventSettles
CHECK_DEADLOCK FALSE
