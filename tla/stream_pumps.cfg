SPECIFICATION Spec
CONSTANTS
    stdout = stdout
    stderr = stderr
    None = None
    Pump = {stdout, stderr}
    Jobs = 1
    Socket = {1, 2}
    Budget <- NoTrouble
PROPERTIES
    DroppedWasApplied
CHECK_DEADLOCK FALSE
