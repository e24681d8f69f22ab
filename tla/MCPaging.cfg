SPECIFICATION PagingSpec
CONSTANTS
    m1 = m1  m2 = m2
    Owners = {m1, m2}
    All = All
    Lists = {"payments", "mutations", "webhook_events", "admin_merchants", "admin_payments", "admin_mutations", "admins", "holidays"}
    Asks = {0, 2, 3, 20, 33}
    MaxRows = 3
    Days = {1, 2, 3, 4}
    DefaultLimit = 1
    MaxLimit = 2
    Half = 16
SYMMETRY Symmetric
INVARIANTS
    WalkSeesAll
