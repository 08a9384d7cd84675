SPECIFICATION FairSpec
CONSTANTS
    c1 = c1
    c2 = c2
    c3 = c3
    c4 = c4
    u1 = u1
    u2 = u2
    u3 = u3
    p1 = p1
    p2 = p2
    p3 = p3
    NoKey = NoKey
    Conns = {c1, c2, c3, c4}
    Keys = {u1, u2, u3, p1, p2, p3}
    UidOf <- MCUids
    PidOf <- MCPids
    MaxWorkers = 3
    WorkersPerUid = 2
    Reserve = 1
    KwinPerPid = 1
    MaxCaptures = 2
    CapturesPerUid = 1
    CapturesPerPid = 1
    MaxAssemblies = 2
    AssembliesPerUid = 1
    MaxChunks = 2
    Kinds = {"kwin", "capture"}
INVARIANTS
    AccountsExact
    ReserveKept
    SlotAlwaysFound
    OneUserCannotDenyOthers
PROPERTIES
    BudgetsReturn
