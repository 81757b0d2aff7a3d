SPECIFICATION Spec
CONSTANTS
    Names = {n1}
    Calls = {c1}
    Urls = {u1, u2}
    None = None
    MaxChanges = 3
INVARIANTS
    ContactIsRegistered
    RefusalIsRight
PROPERTY HealthConverges
