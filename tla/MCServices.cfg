SPECIFICATION Spec
CONSTANTS
    People = {p}
    Channels = {lobby, ops, afk}
    Away = away
    AfkChannel = afk
    FollowOn = TRUE
    Members = {m1}
    MaxSessions = 3
    Length = 2
    PipeCap = 1
    Low = 1
    High = 1
    MaxFailures = 1
    HealthyFrames = 2
    NearEndTicks = 2
    MidTrackTicks = 3
    MaxUpdates = 3
    Songs = {s1}
    Idle = idle
    Custom = custom
    MaxGenerations = 4
    Files = {f}
    MaxReads = 2
    MaxWatchers = 2
    Sources = {d}
    Contents = {a, a2, blank}
    Twins = {a, a2}
    Blank = blank
    Folder = folder
    None = none
    MaxEdits = 2
    Calls = {1, 2, 3}
    Invokers = {u1, u2}
    Chunks = {k1, k2}
    ChunkBudget = 1
    MaxTurns = 4
    MaxTokens = 9
    WorkingTurns = 1
    Sizes = {1, 4}
    Tokens <- ShippedTokens
    Groups = {"everybody", "dj"}
    Home <- ShippedFor
    Shipped <- ShippedBy
    Everybody = "everybody"
    LastRelease = 2
    Missing = missing
    Requests = {q1, q2}
    MaxVersion = 3
INVARIANTS OneSchedule RecordedIsKept ExchangesStayWhole TurnsAreGrounded
PROPERTIES
    RadioSeesTheRoom EmptyRoomIsLeft RolesGoInTheEnd EndsOnItsOwn
    TrackGetsOver ImplementsPlayer NicknameFollows EveryDropIsSettled ChangesAreIndexed
    AskedOnce EachDeltaOnce NeverOlder
CHECK_DEADLOCK FALSE
