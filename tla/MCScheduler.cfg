SPECIFICATION Spec
CONSTANTS
    Threads = {1, 2, 3}
    Wakers = {3}
    Lockers = {1, 2}
    WakeStates = {"BLOCKED", "DEAD"}
    SleepTicks = {1, 3}
INVARIANTS RunQueueSound MutexExcludes
PROPERTY ThreadsProgress
\* A tick that finds the scheduler lock held stops the CPU for good.
CHECK_DEADLOCK FALSE
