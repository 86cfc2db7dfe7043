\* The drain that ends a collection finds worn blocks too.
SPECIFICATION BadSpec
CONSTANTS
    NONE = NONE
    Erased = Erased
    Data = {v1}
    DIE_NUM = 1
    BLOCK_NUM_PER_DIE = 5
    PAGE_NUM_PER_BLOCK = 2
    LPN_NUM = 2
    MAX_BAD = 0
    MAX_WORN = 2
    Places = {"commands", "gc end"}
INVARIANTS GcMakesRoom
