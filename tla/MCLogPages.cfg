SPECIFICATION LogsSpec
CONSTANTS
    Calls = {c1, c2, c3, c4}
    None = None
    Torn = Torn
    Cut = Cut
    Bad = Bad
    Ruin = Ruin
    Cap = 2
    RingCap = 2
    MaxFaults = 1
    MaxRestarts = 2
    PageSize = 1
    MaxSecond = 2
SYMMETRY Symmetry
VIEW OpenWalks
CHECK_DEADLOCK FALSE
INVARIANTS
    OnlyOverlapsExceed
    FaultCosts
    RingIsLog
PROPERTIES
    RotatesFullOnly
    WalkIsWhole
    LogSpec
