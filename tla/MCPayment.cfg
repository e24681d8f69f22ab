SPECIFICATION FairSpec
CONSTANTS
    p1 = p1  p2 = p2  c1 = c1  c2 = c2  d1 = d1  d2 = d2  d3 = d3
    Payments = {p1}
    Cancels = {c1, c2}
    Deliveries = {d1, d2}
    NoPayment = NoPayment
    Amount = 1
    Fees = {1, 2}
CHECK_DEADLOCK FALSE
INVARIANTS
    AuditChain
    CreditOnce
    PaidIsCredited
    NoticeMatchesCredit
    AckedPaidIsCredited
PROPERTIES
    FinalLostOnlyToCancel
    ImplementsSettlement
    PaymentIsSettled
