SPECIFICATION MCSpec
CONSTANTS
    MaxWaits = 2
    MaxDisturbed = 2
INVARIANTS
    SingleRestock
PROPERTIES
    DeadAirIsFilled
    EmptyRoomGoesQuiet
    CueIsConsumed
    PauseHolds
