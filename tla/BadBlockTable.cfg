\* Two LUNs of two blocks, the first one holds the tables; the power fails twice.
SPECIFICATION Spec
CONSTANTS
    BLOCK_NUM_PER_LUN = 2
    MAX_BLOCK_NUM_PER_LUN = 2
    LUN_1_BASE_ADDR = 512
    Dies = {0, 9}
    CopySlot = 9
    Pages = {0}
    Erased = Erased
    PageData = PageData
    MAX_FACTORY = 1
    MAX_PROGRAMS = 2
    MAX_FAILURES = 2
INVARIANTS FactoryBadUnused TableMatchesMap BadBlocksKept
\* with the bounds reached the device only waits
CHECK_DEADLOCK FALSE
