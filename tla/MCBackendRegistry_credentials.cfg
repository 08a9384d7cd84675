SPECIFICATION Spec
CONSTANTS
    da = da
    db = db
    dc = dc
    ca = ca
    cb = cb
    u = u
    g = g
    h = h
    None = None
    Daemons = {da}
    DaemonUid <- OneUser
    PidOf <- PidReused
    BackendOf <- TwoX11OneKwin
    Clients = {ca, cb}
    ClientUid <- ClientsOfU
    ClientGid <- TwoGroups
    Lanes = {0}
    Slots = {1}
    Descriptors = {1}
    Relays = {r1, r2, r3}
INVARIANTS
    CredentialsMatch
SYMMETRY AddressSymmetry
CHECK_DEADLOCK FALSE
