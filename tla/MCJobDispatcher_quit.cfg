\* What quit() promises by its name and the code does not do.
SPECIFICATION FairSpec
CONSTANTS
    d1 = d1
    d2 = d2
    c1 = c1
    c2 = c2
    j1 = j1
    j2 = j2
    j3 = j3
    NoThread = NoThread
    NoJob = NoJob
    Dispatchers = {d1, d2}
    Callers = {c1}
    Java = TRUE
    Threads = {d1, d2, c1}
    Jobs = {j1, j2}
    MaxSpurious = 0
    MaxInterrupts = 2
    MaxCalls = 2
PROPERTIES
    QuitEndsLoop
\* Both dispatchers may be parked in poll(), or never started.
CHECK_DEADLOCK FALSE
