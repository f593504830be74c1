CONSTANTS
    s1 = s1
    s2 = s2
    NoSong = NoSong
    Songs <- MCSongs
    MaxRetries = 2
    MaxFailures = 2
    MaxJobs = 2
SPECIFICATION Spec
INVARIANTS
    SingleAdvance
    PauseEndsWithMusic
    SilentWhenDisconnected
PROPERTIES
    AdvanceEnds
CHECK_DEADLOCK FALSE
