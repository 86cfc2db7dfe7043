\* One die with a buffer of two pages, three pages of two sectors; two
\* commands in progress, each of up to two sectors.
SPECIFICATION Spec
CONSTANTS
    SECTOR_NUM_PER_PAGE = 2
    DIE_NUM = 1
    BUF_ENTRY_NUM_PER_DIE = 2
    Pages = 3
    a = a
    b = b
    Data = {a, b}
    t1 = t1
    t2 = t2
    Slots = {t1, t2}
    None = None
    MaxReq = 2
    MaxCommands = 3
\* no command is issued beyond MaxCommands
CHECK_DEADLOCK FALSE
INVARIANTS BufferedOnce ReadsLatest QuietHoldsLatest JoinSeesRows
PROPERTIES CommandCompletes
