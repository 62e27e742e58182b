\* ObjC proxies: the strong temporary of is_expired() may be the last reference.
SPECIFICATION FairSpec
CONSTANTS
    c1 = c1
    c2 = c2
    c3 = c3
    f1 = f1
    a1 = a1
    a2 = a2
    p1 = p1
    p2 = p2
    p3 = p3
    p4 = p4
    None = None
    Clients = {c1, c2}
    Finalizers = {}
    Addresses = {a1}
    Proxies = {p1, p2, p3}
    MaxGen = 0
    MaxGets = 3
    SyncDestroy = TRUE
    StrongProbe = TRUE
    AllocMayFail = FALSE
PROPERTIES
    HandleLeavesCache
\* The clients may stop calling.
CHECK_DEADLOCK FALSE
