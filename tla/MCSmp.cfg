SPECIFICATION Spec
CONSTANTS
    Apics <- MCApics
    Madts <- MCMadts
    MAX_CPUS = 4
    Stacks = 3
    WAIT = 1
INVARIANTS OwnEntry OwnStack
PROPERTY BootContinues
\* Start-up ends: the boot CPU goes on to the scheduler or has panicked, and
\* the other CPUs idle or never answered.
CHECK_DEADLOCK FALSE
