SPECIFICATION MCSpec
CONSTANTS
    Width = 4
    ByteStarts = {0, 2}
    Bit = {0, 1}
INVARIANT QuietPublish
INVARIANT GuardMeansUsable
PROPERTY BringupCompletes
