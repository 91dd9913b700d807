SPECIFICATION MCSpec
CONSTANTS
    Radix = 2
    MaxFaults = 2
    None = None
    Clock = Clock
    HoldBuilds = {TRUE}
INVARIANT ZeroIsJustified
INVARIANT ChecksumVouches
INVARIANT NextBootIsDfu
PROPERTY KeepsPromise
PROPERTY WaitsEnd
