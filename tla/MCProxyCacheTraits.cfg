\* JniCppProxyCache and CppProxyCache.
SPECIFICATION TraitsSpec
CONSTANTS
    c1 = c1
    c2 = c2
    c3 = c3
    f1 = f1
    a1 = a1
    a2 = a2
    p1 = p1
    p2 = p2
    p3 = p3
    p4 = p4
    None = None
    Clients = {c1, c2, c3}
    Finalizers = {f1}
    Addresses = {a1}
    Proxies = {p1, p2, p3, p4}
    MaxGen = 2
    MaxGets = 5
    SyncDestroy = FALSE
    StrongProbe = TRUE
    AllocMayFail = TRUE
SYMMETRY Symmetry
INVARIANTS
    KeysNeverDangle
PROPERTIES
    ImplementsIdentity
\* The clients may stop calling.
CHECK_DEADLOCK FALSE
