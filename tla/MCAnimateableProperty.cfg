CONSTANTS
    Values = {0, 1, 2}
    First = 0
    MaxFrame = 5
    MaxCount = 2
    MaxWrites = 4
    Rewrites = FALSE
    Shortens = FALSE
SPECIFICATION AnimSpec
CHECK_DEADLOCK FALSE
INVARIANTS
    ReadsAreHeld
    UnknownIsUnwritten
