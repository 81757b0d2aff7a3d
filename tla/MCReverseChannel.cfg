SPECIFICATION CodeSpec
CONSTANTS
    Peers = {p1, p2}
    Conns = {c1, c2}
    Reqs = {r1, r2}
    None = None
    Cap = 1
    MaxRestarts = 1
INVARIANTS
    AnswerIsOwn
    CleanupIsComplete
    NoSilentDrop
    AcceptedIsDelivered
PROPERTIES
    CallSpec
    EveryCallReturns
    DisconnectReturns
CHECK_DEADLOCK FALSE
