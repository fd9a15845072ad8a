SPECIFICATION MSpec
CONSTANTS
    Pages <- MCPages
    WIDTH = 20
    LEVELS = 2
    Procs = {p1, p2, p3}
    Images <- MCImages
    UserSlots = {1, 2}
    STACK_TOP = 30
    STACK_PAGES = 1
    ALLOC_BASE = 39
    ALLOC_LIMIT = 42
    MAX_ALLOCS = 2
    MAX_PAGES = 3
    Counts = {1, 2}
    PAGE = 2
    MAX_MODULES = 3
    Boots <- MCBoots
INVARIANTS PagesAccounted AllocTableAgrees ModulesRunnable
PROPERTY ImplementsAddressSpaces
\* Every process may have exited, or the kernel has panicked.
CHECK_DEADLOCK FALSE
SYMMETRY Symmetry
