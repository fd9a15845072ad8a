\* Threads that only sleep: nobody unblocks one of them.
SPECIFICATION Spec
CONSTANTS
    Threads = {1, 2}
    Wakers = {}
    Lockers = {}
    WakeStates = {}
    SleepTicks = {2}
INVARIANT SleepLasts
CHECK_DEADLOCK FALSE
