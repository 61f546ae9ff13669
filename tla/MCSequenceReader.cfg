CONSTANTS
    short = short
    long = long
    broken = broken
    Device = {d1, d2, d3}
    NoHandle = NoHandle
    NoSound = NoSound
    Sounds = {short, long, broken}
    Length <- MCLength
    KeepTime = 1
    Places <- MCPlaces
    MaxId = 3
    MaxTime = 4
    MaxEdits = 4
    MovesEnded = FALSE
SPECIFICATION Spec
CHECK_DEADLOCK FALSE
INVARIANTS
    NoStraySounds
    EntriesHaveHandles
    EntriesAreHeard
