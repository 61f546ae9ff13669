CONSTANTS
    short = short
    long = long
    Handles = {short, long}
    Length <- MCLength
    Announced = {short}
    CycleBuffers = 2
    Loops = {0, 1}
    MaxOps = 5
    MaxErrors = 1
    KeepsUp = TRUE
    PausesAtEnd = FALSE
SPECIFICATION Spec
CHECK_DEADLOCK FALSE
INVARIANTS
    WholeSoundIsHeard
    SoundsHaveThread
PROPERTY
    SoundsAndThreadEnd
