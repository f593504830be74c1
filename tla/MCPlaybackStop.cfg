CONSTANTS
    s1 = s1
    s2 = s2
    NoSong = NoSong
    Songs <- MCSongs
    MaxRetries = 2
    MaxFailures = 2
    MaxJobs = 2
SPECIFICATION LSpec
INVARIANT StoppedStaysSilent
CHECK_DEADLOCK FALSE
