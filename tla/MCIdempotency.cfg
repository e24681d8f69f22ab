SPECIFICATION FairSpec
CONSTANTS
    r1 = r1  r2 = r2  r3 = r3  r4 = r4
    Requests = {r1, r2, r3}
    NoRequest = NoRequest
    GuardTTL = 2
    ResponseTTL = 3
INVARIANTS
    ClaimIsExclusive
PROPERTIES
    ForeignItemsStay
    ReplayInsteadOfRun
    GuardGoesAway
