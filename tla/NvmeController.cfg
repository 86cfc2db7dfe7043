\* Two queue pairs; the link goes down up to twice.
SPECIFICATION Spec
CONSTANTS
    QUEUE_NUM = 2
    MaxLinkDowns = 2
    NoCmd = NoCmd
INVARIANTS NothingLeftBehind ReadyMeansRunning
PROPERTIES Answered
\* after a lost request the driver and the firmware wait for each other
CHECK_DEADLOCK FALSE
