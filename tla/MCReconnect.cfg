CONSTANTS
    b1 = b1
    b2 = b2
    b3 = b3
    NoBot = NoBot
    Instances <- MCInstances
    Detects = TRUE
SPECIFICATION MCSpec
INVARIANTS
    SingleFlight
    OnlineIsWanted
    StartBotLeaksNothing
PROPERTIES
    ComesBack
    ImplementsPresence
CHECK_DEADLOCK FALSE
