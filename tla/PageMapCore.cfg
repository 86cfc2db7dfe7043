\* One die that collects over and over, two contents to tell copies apart; any
\* one block of the die, the last ones included, may be bad at start.
SPECIFICATION Spec
CONSTANTS
    NONE = NONE
    Erased = Erased
    Data = {v1, v2}
    DIE_NUM = 1
    BLOCK_NUM_PER_DIE = 5
    PAGE_NUM_PER_BLOCK = 2
    LPN_NUM = 2
    MAX_BAD = 1
INVARIANTS TypeOK MapConsistent AllocatableBlank
PROPERTIES ProgramInOrder ImplementsStore GcTerminates
