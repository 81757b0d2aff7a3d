SPECIFICATION LimiterSpec
CONSTANTS
    Keys = {k1, k2}
    Limits = {1, 2}
    Calls = {c1, c2, c3, c4}
    Window = 2
    MaxKeys = 1
    Skew = 1
    LastSecond = 4
SYMMETRY Symmetric
PROPERTIES
    RollingWindow
    LimitWithinSkew
CHECK_DEADLOCK FALSE
