SPECIFICATION MCSpec
CONSTANTS
    MaxWaits = 2
    MaxDisturbed = 2
PROPERTIES
    BumpersBetweenSongs
