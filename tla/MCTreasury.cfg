SPECIFICATION TreasurySpec
CONSTANTS
    xendit = xendit  doku = doku  extra = extra
    c1 = c1  c2 = c2
    Providers = {xendit, doku}
    Ids = {xendit, doku, extra}
    Checks = {c1, c2}
    None = None
    Balances = {0, 1}
    Threshold = 1
    MaxRetry = 1
SYMMETRY Symmetry
INVARIANTS
    OneTopupAtATime
