SPECIFICATION Spec
CONSTANTS
    h1 = h1
    h2 = h2
    c1 = c1
    c2 = c2
    Handles = {h1, h2}
    Clients = {c1, c2}
    Mixer = mixer
    NoThread = nobody
    NoHandle = end
    SoundLength <- MCSoundLength
    BufferLength = 2
    LoopCounts <- MCForeverLoops
    Faulty = {h1}
    UnlockedLoopers = {}
    MaxOps = 4
CHECK_DEADLOCK FALSE
INVARIANTS
    IteratorValid
    EndReportedOnce
    BackendRunsForSounds
    ListsAreSound
PROPERTIES
    ImplementsPromise
    FiniteSoundEnds
