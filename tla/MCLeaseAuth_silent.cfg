SPECIFICATION FairSpec
CONSTANTS
    l1 = l1
    k1 = k1
    u1 = u1
    wm = wm
    wc = wc
    r1 = r1
    r2 = r2
    Leases = {l1}
    Rpcs = {r1}
    Keys = {k1}
    Uids = {u1}
    KeyOf <- OneLease
    UidOf <- OneUser
    Scopes = {wc}
    Monitored = {}
    WindowControl = wc
    NoScope = NoScope
    NoLease = NoLease
    MaxGen = 1
PROPERTIES
    RevocationReported
