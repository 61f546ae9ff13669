CONSTANTS
    Handles = {h1, h2}
    Clients = {c1}
    Mixer = Mixer
    NoThread = NoThread
    MaxOps = 6
    MaxFaults = 2
SPECIFICATION Spec
INVARIANTS
    SoundsHaveThread
    PlayingIsRunning
PROPERTIES
    SoundsAreMixed
    ShutdownEnds
