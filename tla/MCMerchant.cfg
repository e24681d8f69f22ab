SPECIFICATION Spec
CONSTANTS
    c1 = c1  c2 = c2  c3 = c3  c4 = c4  a1 = a1  a2 = a2  k0 = k0
    Calls = {c1, c2, c3, c4}
    Accounts = {a1, a2}
    FirstKey = k0
    NoAccount = NoAccount
SYMMETRY Symmetry
CHECK_DEADLOCK FALSE
PROPERTIES
    DeletedIsFrozen
    LostOnlyToOverlap
    PrimaryIsKept
