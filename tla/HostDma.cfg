SPECIFICATION FairDmaSpec
CONSTANTS
    e1 = e1
    e2 = e2
    Entries <- MCEntries
    COUNT = 4
    MaxPart = 2
    MaxDmas = 13
INVARIANTS
    NeverALapAhead
    DoneExactly
    ReleasedAfterTransfer
PROPERTY WaitEnds
\* no transfer is issued beyond MaxDmas
CHECK_DEADLOCK FALSE
