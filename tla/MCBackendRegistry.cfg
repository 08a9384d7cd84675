SPECIFICATION Spec
CONSTANTS
    da = da
    db = db
    dc = dc
    ca = ca
    cb = cb
    u = u
    g = g
    h = h
    None = None
    Daemons = {da, db, dc}
    DaemonUid <- OneUser
    PidOf <- PidReused
    BackendOf <- TwoX11OneKwin
    Clients = {ca, cb}
    ClientUid <- ClientsOfU
    ClientGid <- SameGroup
    Lanes = {0}
    Slots = {1}
    Descriptors = {1}
    Relays = {r1, r2}
INVARIANTS
    RefsExact
    WorkersOfTheirSession
    ReleasedFromAdmittedSession
PROPERTIES
    OnlyFailedForgotten
    DeadWorkerForgotten
SYMMETRY Symmetry
CHECK_DEADLOCK FALSE
