\* The same key in two tables.
SPECIFICATION Spec
CONSTANTS
    INVALID_HASHMAP_LPN = NoLpn
    NoLpn = NoLpn
    BUCKET_COUNT = 2
    BUCKET_LENGTH = 2
    TABLE_SHIFT = 8
    KEY_RANGE = 8
    PAGE_WORDS = 8
    SECTOR_NUM_PER_PAGE = 4
    SECTOR_WORDS = 2
    RowWidth <- Equal
    TABLE_COUNT = 3
    Keys = {1, 2}
    MaxTables = 2
    MaxBlocks = 4
    Scripted = TRUE
    Loads = {}
INVARIANTS RowsReachable
\* the user may stop, and the bounds end the run
CHECK_DEADLOCK FALSE
