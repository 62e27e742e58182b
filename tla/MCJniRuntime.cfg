SPECIFICATION Spec
CONSTANTS
    JavaThreads = {java1, java2}
    CppThreads = {cpp1}
    Initializers <- MCInitializers
    None = None
    MaxDepth = 5
    MaxThrows = 2
    MaxProxies = 1
INVARIANTS NativeRunsClean ExceptionsTravel GlobalsAreOwned LoadedMeansReady
CHECK_DEADLOCK FALSE
