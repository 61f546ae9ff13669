SPECIFICATION Spec
CONSTANTS
    h1 = h1
    h2 = h2
    c1 = c1
    c2 = c2
    Handles = {h1, h2}
    Clients = {c1, c2}
    Mixer = mixer
    NoThread = nobody
    NoHandle = end
    SoundLength <- MCSoundLength
    BufferLength = 2
    LoopCounts = {1}
    Faulty = {}
    UnlockedLoopers = {c1, c2}
    MaxOps = 3
CHECK_DEADLOCK FALSE
PROPERTIES
    InvalidIsFinal
