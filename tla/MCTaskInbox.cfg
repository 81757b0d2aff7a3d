SPECIFICATION Spec
CONSTANTS
    Calls = {c1, c2, c3}
    Cancels = {x1}
    Keys = {k1, k2}
    Active = {working}
    Closed = {completed}
    None = None
    TaskCap = 1
    MaxNow = 1
    MaxFaults = 1
    MaxRotations = 1
    MaxRestarts = 1
VIEW Essence
SYMMETRY Symmetry
CHECK_DEADLOCK FALSE
INVARIANTS
    InboxReflectsLog
    BoundedInbox
PROPERTY ActiveStays
