\* Rings of 2 and 3 requests: every wait for room happens.
SPECIFICATION Spec
CONSTANTS
    REQ_QUEUE_DEPTH = 3
    SUB_REQ_QUEUE_DEPTH = 4
    PAGE_NUM_PER_BLOCK = 2
    RETRY_LIMIT = 1
    Joins = FALSE
INVARIANTS InIssueOrder FreshStatus EmptyMeansEmpty NoLostWakeup
PROPERTIES FinishInOrder CommandEnds RequestEnds
