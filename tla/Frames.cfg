SPECIFICATION FramesSpec
CONSTANTS
    Base = 2
    WordBytes = 2
    MAX_LENGTH = 2
    Ids <- MCIds
    Bodies <- MCBodies
    MaxMessages = 3
INVARIANTS
    FramesTypeOK
    FramesIntact
CHECK_DEADLOCK FALSE
