CONSTANTS
    b1 = b1
    b2 = b2
    b3 = b3
    NoBot = NoBot
    Instances <- MCInstances
    Detects = FALSE
SPECIFICATION Spec
PROPERTIES
    HealthyLeftAlone
CHECK_DEADLOCK FALSE
