SPECIFICATION AuthSpec
CONSTANTS
    Passwords = {p1, p2}
    Logins = {l1, l2}
    Edits = {e1, e2}
    Streams = {s1}
    Nobody = Nobody
    Ttl = 3
    Recheck = 2
    MaxNow = 7
SYMMETRY Symmetry
CHECK_DEADLOCK FALSE
INVARIANTS
    PasswordIsChosen
PROPERTIES
    OnlyKnowersChange
    StreamEndsSoon
