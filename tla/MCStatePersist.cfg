SPECIFICATION Spec
CONSTANTS
    Writers = {w1, w2, w3}
    Boot = Boot
    Files = {f1, f2, f3, f4}
    Lens = {1, 2}
    None = None
    MaxCrashes = 1
SYMMETRY Symmetric
INVARIANTS
    StateIntact
    AckedIsDurable
PROPERTIES
    TokensKept
    StoreSpec
CHECK_DEADLOCK FALSE
