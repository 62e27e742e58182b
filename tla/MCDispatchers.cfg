\* Two dispatchers on one queue, two application threads, jobs that call back;
\* no symmetry, for liveness.
SPECIFICATION PlatformSpec
CONSTANTS
    d1 = d1
    d2 = d2
    c1 = c1
    c2 = c2
    j1 = j1
    j2 = j2
    j3 = j3
    NoThread = NoThread
    NoJob = NoJob
    Dispatchers = {d1, d2}
    Callers = {c1, c2}
    Java = TRUE
    Threads = {d1, d2, c1, c2}
    Jobs = {j1, j2}
    MaxSpurious = 0
    MaxInterrupts = 3
    MaxCalls = 3
INVARIANTS
    RunsInOrder
    ExitsOnlyBeforeWork
PROPERTIES
    CallsReturn
    JobsAreServed
\* Both dispatchers may be parked in poll(), or never started.
CHECK_DEADLOCK FALSE
