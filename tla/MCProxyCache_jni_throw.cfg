\* Java proxies, and the allocator throws.
SPECIFICATION FairSpec
CONSTANTS
    c1 = c1
    c2 = c2
    c3 = c3
    f1 = f1
    a1 = a1
    a2 = a2
    p1 = p1
    p2 = p2
    p3 = p3
    p4 = p4
    None = None
    Clients = {c1, c2}
    Finalizers = {f1}
    Addresses = {a1}
    Proxies = {p1, p2, p3}
    MaxGen = 0
    MaxGets = 3
    SyncDestroy = FALSE
    StrongProbe = TRUE
    AllocMayFail = TRUE
PROPERTIES
    GetReturns
\* The clients may stop calling.
CHECK_DEADLOCK FALSE
