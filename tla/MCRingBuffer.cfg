SPECIFICATION RingSpec
CONSTANTS
    Size = 4
    Reordering = FALSE
    Resets = "quiet"
    MaxFrames = 9
CHECK_DEADLOCK FALSE
INVARIANTS
    CopiesAreRight
PROPERTIES
    ImplementsQueue
    EveryFrameIsRead
