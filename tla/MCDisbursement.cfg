SPECIFICATION Spec
CONSTANTS
    d1 = d1  d2 = d2  d3 = d3  c1 = c1  c2 = c2  c3 = c3
    Disbursements = {d1, d2}
    Callbacks = {c1, c2}
    NoRef = NoRef
    Opening = 3
    DailyLimit = 2
    Amounts = {1, 2}
    Fees = {1}
SYMMETRY Symmetry
CHECK_DEADLOCK FALSE
INVARIANTS
    PayoutsAreCovered
    FundsSuffice
    DailyLimitKept
    NoticeMatchesDebit
PROPERTIES
    FinalLostOnlyToCallback
    ImplementsSettlement
