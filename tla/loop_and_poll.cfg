SPECIFICATION MCSpec
CONSTANTS
    MaxPresses = 4
INVARIANT PressesCount
INVARIANT CodeMatchesPanel
INVARIANT QuietLamps
PROPERTY SuspendServed
PROPERTY ComesBack
PROPERTY EnterDfuHalts
CHECK_DEADLOCK FALSE
