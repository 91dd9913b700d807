SPECIFICATION FairSpec
CONSTANTS
    Blocks = 3
    MaxFaults = 3
    BytesStick = TRUE
    Careful = TRUE
INVARIANT NeverBootsPartial
INVARIANT CompleteInPlace
PROPERTY Recovers
