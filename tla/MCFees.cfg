SPECIFICATION Spec
CONSTANTS
    r1 = r1  a1 = a1  a2 = a2  a3 = a3
    Resolutions = {r1}
    Admins = {a1, a2}
    Amounts = {1, 4}
    MethodFees <- Small
    Seed <- Seeded
SYMMETRY Symmetry
CHECK_DEADLOCK FALSE
INVARIANTS
    FeeIsOfOneMoment
    FeeIsBounded
    InForceIsLogged
