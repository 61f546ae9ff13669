CONSTANTS
    Handles = {h1, h2, h3}
    NoHandle = NoHandle
    MaxScene = 2
    Custom <- OneTransition
    Volumes = {1}
    Operations = {"stop", "pause", "resume", "seek", "setVolume"}
    Patient = TRUE
    Handover = FALSE
    MaxCalls = 7
SPECIFICATION Spec
INVARIANTS
    NoOrphans
    SceneIsHeard
    StopIsFinal
PROPERTIES
    TransitionsEnd
    ScheduledIsReached
