\* A write on one die makes the collector run over both, and must land on its
\* own die once it goes on; any one block of a die, the last ones included, may
\* be bad at start.
SPECIFICATION Spec
CONSTANTS
    NONE = NONE
    Erased = Erased
    Data = {v1, v2}
    DIE_NUM = 2
    BLOCK_NUM_PER_DIE = 5
    PAGE_NUM_PER_BLOCK = 2
    LPN_NUM = 1
    MAX_BAD = 1
VIEW LiveContents
INVARIANTS BlocksApart GcMakesRoom
PROPERTIES ImplementsStore
