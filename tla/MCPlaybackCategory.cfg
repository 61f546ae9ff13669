CONSTANTS
    Handles = {h1, h2}
    Clients = {c1}
    Mixer = Mixer
    NoThread = NoThread
    MaxKey = 1
    MaxFailures = 1
    Rearming = FALSE
    MaxOps = 6
SPECIFICATION Spec
CHECK_DEADLOCK FALSE
SYMMETRY Sounds
INVARIANTS
    CategoryReachesSounds
    DataUsedOnce
    PausedIsSilent
