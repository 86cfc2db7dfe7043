\* Joins drain the req queue only.
SPECIFICATION Spec
CONSTANTS
    REQ_QUEUE_DEPTH = 3
    SUB_REQ_QUEUE_DEPTH = 4
    PAGE_NUM_PER_BLOCK = 2
    RETRY_LIMIT = 1
    Joins = TRUE
PROPERTY RequestEnds
