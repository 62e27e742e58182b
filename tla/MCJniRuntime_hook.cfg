SPECIFICATION Spec
CONSTANTS
    JavaThreads = {java1}
    CppThreads = {cpp1}
    Initializers <- MCInitializers
    None = None
    MaxDepth = 5
    MaxThrows = 2
    MaxProxies = 1
INVARIANT InitUsesDefaultHandling
CHECK_DEADLOCK FALSE
