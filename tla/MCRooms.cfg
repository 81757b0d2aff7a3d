SPECIFICATION Spec
CONSTANTS
    Names = {a, b, h}
    Rooms = {r1}
    Edits = {e1}
    Sends = {s1}
    None = None
    Cap = 2
    MaxChanges = 2
SYMMETRY Symmetric
INVARIANTS
    MembersWereInvited
PROPERTIES
    OnlyGuestsHear
CHECK_DEADLOCK FALSE
