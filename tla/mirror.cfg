SPECIFICATION Spec
CONSTANTS
    minted = minted
    attached = attached
    x1 = x1
    None = None
    Run <- Mirrored
    Plan <- Plans
    Logical = {x1}
    Ref <- Refs
    FromExperiment = {attached}
    Batch = 20
    FaultBudget <- TwoFaults
INVARIANTS
    TypeOK
    DoneWasDelivered
PROPERTIES
    NothingIsForgotten
    EveryReportArrives
CHECK_DEADLOCK FALSE
