SPECIFICATION Spec
CONSTANTS
    rented = rented
    cell = cell
    twin = twin
    mac = mac
    dev = dev
    cj1 = cj1
    cj2 = cj2
    cw = cw
    None = None
    Shared = Shared
    Machine = {rented, cell, twin, mac, dev}
    Identity = {1, 2, 3, 4, 5, 6}
    JoinToken = {cj1, cj2}
    WorkerToken = {cw}
    TokenOf <- Tokens
    Bound <- Bindings
    Given <- Arguments
    Newest = 2
    Cast <- Pairs
    Budget <- Troubles
INVARIANTS
    TypeOK
    IdentitiesAreDistinct
PROPERTIES
    IdentityIsKept
    EveryWorkerJoins
CHECK_DEADLOCK FALSE
