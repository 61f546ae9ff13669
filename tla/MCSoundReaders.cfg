CONSTANTS
    Sounds <- MCSounds
    Seeks <- MCSeeks
    Sizes = {1, 2, 4}
    Horizon = 40
    MaxCalls = 5
SPECIFICATION Spec
CHECK_DEADLOCK FALSE
INVARIANTS
    ReadsAreRight
    EndIsRight
    PositionIsRight
