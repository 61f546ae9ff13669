CONSTANTS
    Handles = {h1, h2}
    Clients = {c1}
    Mixer = Mixer
    Backend = Backend
    NoThread = NoThread
    Capacity = 2
    Request = 1
    StreamSize = 1
    MaxRequests = 1
    MaxOps = 3
SPECIFICATION Spec
INVARIANTS
    AwakeWhilePlaying
    NothingLeftBehind
PROPERTIES
    PlayingIsHeard
    DeviceIsReleased
    ShutdownEnds
