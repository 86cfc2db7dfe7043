\* Up to two of the four data blocks wear out, one of them may be bad at start;
\* sweeps find them between commands, before a collection and in a push.  Two
\* contents tell copies apart.
SPECIFICATION BadSpec
CONSTANTS
    NONE = NONE
    Erased = Erased
    Data = {v1, v2}
    DIE_NUM = 1
    BLOCK_NUM_PER_DIE = 5
    PAGE_NUM_PER_BLOCK = 2
    LPN_NUM = 2
    MAX_BAD = 1
    MAX_WORN = 2
    Places = {"commands", "gc start", "push"}
VIEW LiveContents
INVARIANTS BadBlocksUnused MapConsistent GcListsExact
PROPERTIES ImplementsStore
