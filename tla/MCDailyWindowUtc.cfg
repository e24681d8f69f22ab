SPECIFICATION Spec
CONSTANTS
    d1 = d1  d2 = d2  d3 = d3
    Disbursements = {d1, d2, d3}
    Amounts = {1, 2}
    DailyLimit = 3
    SessionOffset = 0
    MaxClock = 30
SYMMETRY Symmetry
CHECK_DEADLOCK FALSE
INVARIANTS
    LimitPerDay
