\* Two tables created before the first row, and a third the device has no room
\* for: two rows to a page, one to a page of a join; four sectors to a page, each
\* shorter than a row.
SPECIFICATION FairSpec
CONSTANTS
    INVALID_HASHMAP_LPN = NoLpn
    NoLpn = NoLpn
    BUCKET_COUNT = 2
    BUCKET_LENGTH = 2
    TABLE_SHIFT = 8
    KEY_RANGE = 8
    PAGE_WORDS = 8
    SECTOR_NUM_PER_PAGE = 4
    SECTOR_WORDS = 2
    RowWidth <- Equal
    TABLE_COUNT = 3
    Keys = {1, 2, 3, 5}
    MaxTables = 3
    MaxBlocks = 3
    Scripted = TRUE
    Loads <- SecondSector
INVARIANTS OwnRowsReachable SelfJoinCorrect NoSharedBlock FirstRowsOnce
PROPERTIES JoinEnds
\* A full bucket or one table too many stops the device, and the user may stop.
CHECK_DEADLOCK FALSE
