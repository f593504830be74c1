CONSTANTS
    s1 = s1
    s2 = s2
    r1 = r1
    NoSong = NoSong
    Songs <- MCSongs
    Radio <- Fill
    HistoryLimit = 2
SPECIFICATION MCSpec
INVARIANTS
    CursorOnPlayingSong
PROPERTIES
    EverySongComesRound
    NoImmediateRepeat
    NextIsAsPromised
    ImplementsEntries
    ImplementsView
CHECK_DEADLOCK FALSE
