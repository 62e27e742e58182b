\* std::weak_ptr proxies: JavaProxyCache, ObjcProxyCache; no symmetry, for liveness.
SPECIFICATION FairSpec
CONSTANTS
    c1 = c1
    c2 = c2
    c3 = c3
    f1 = f1
    a1 = a1
    a2 = a2
    p1 = p1
    p2 = p2
    p3 = p3
    p4 = p4
    None = None
    Clients = {c1, c2}
    Finalizers = {}
    Addresses = {a1, a2}
    Proxies = {p1, p2, p3}
    MaxGen = 1
    MaxGets = 3
    SyncDestroy = TRUE
    StrongProbe = FALSE
    AllocMayFail = FALSE
INVARIANTS
    OneProxyPerObject
    LiveIsCached
    KeysNeverDangle
PROPERTIES
    ImplementsIdentity
    HandleLeavesCache
    GetReturns
\* The clients may stop calling.
CHECK_DEADLOCK FALSE
