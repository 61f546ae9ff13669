CONSTANTS
    Threads = {t1, t2}
    Channels = 3
    L = 2
    P = 3
    IRLength = 5
    InputLength = 4
    Wanted = {1, 3}
    Places = {0, 2}
    MaxSeeks = 1
SPECIFICATION Spec
CHECK_DEADLOCK FALSE
INVARIANTS
    OutputIsConvolution
    TailIsWhole
PROPERTY
    CallsReturn
