\* Three threads, three jobs, every method called by everyone; no symmetry, for liveness.
SPECIFICATION QueueFairSpec
CONSTANTS
    t1 = t1
    t2 = t2
    t3 = t3
    j1 = j1
    j2 = j2
    j3 = j3
    NoThread = NoThread
    NoJob = NoJob
    Threads = {t1, t2, t3}
    Jobs = {j1, j2, j3}
    MaxSpurious = 1
    MaxInterrupts = 2
INVARIANTS
    NoLostWakeup
    PopsWhatItCopied
PROPERTIES
    ImplementsFifo
    Delivering
\* The clients may all stop calling, or all park in poll().
CHECK_DEADLOCK FALSE
