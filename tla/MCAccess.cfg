SPECIFICATION Spec
CONSTANTS
    a1 = a1  a2 = a2
    r1 = r1  r2 = r2
    k1 = k1  k2 = k2
    Admins = {a1, a2}
    Keys = {k1, k2}
    NoKey = NoKey
    Requests = {r1, r2}
    Does <- MCDoes
    Nobody = Nobody
    AccessTTL = 1
    RefreshTTL = 2
    RequestTimeout = 1
SYMMETRY Symmetric
PROPERTIES
    PowerEnds
    KeyPowerEnds
    LastSuperAdminFalls
