SPECIFICATION Spec
CONSTANTS
    SECTOR = 2
    ENTRY_SIZE = 1
    DATA_START_SECTOR = 1
    IMAGE_MIN = 10
    TAR_BLOCK = 2
    OREFS_MAX_ENTRIES = 3
    MAX_FILES = 3
    Procs = {p1, p2}
    ORE_MAX_HANDLES = 3
    TarFiles <- MCTarFiles
    DiskFiles <- MCDiskFiles
    OtherDisks <- MCOtherDisks
    Paths <- MCPaths
    Lengths = {0, 3}
SYMMETRY Alike
CONSTRAINT FewOpen
INVARIANTS ReadFailsForAReason ListingAgreesWithStat
PROPERTY ImplementsCursors
