SPECIFICATION ChatSpec
CONSTANTS
    Msgs = {m1, m2, m3}
    Convs = {here, there}
    Thread = here
    Readers = {r1}
    FileCap = 2
    RingCap = 2
    PageCap = 1
    HistoryCap = 1
    BusCap = 1
    MaxFaults = 1
    MaxRestarts = 2
CONSTRAINT Troubles
VIEW Essence
SYMMETRY Symmetry
CHECK_DEADLOCK FALSE
INVARIANTS
    IdsSurvive
    ReaderIsWhole
    NothingMissed
