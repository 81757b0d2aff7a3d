SPECIFICATION Spec
CONSTANTS
    Names = {n1, n2}
    Calls = {c1, c2, c3}
    Gateway = Gateway
    Bootstraps = {b1, b2}
    None = None
    Visitor = n2
SYMMETRY Symmetric
VIEW Essence
CONSTRAINT VisitorIsHuman
INVARIANTS
    MinterIsTold
PROPERTIES
    OnlyOwnersManage
    SharedLeavesOwned
    AdmissionIsDecided
CHECK_DEADLOCK FALSE
