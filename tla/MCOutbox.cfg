SPECIFICATION FairSpec
CONSTANTS
    e1 = e1  e2 = e2  e3 = e3  w1 = w1  w2 = w2
    Events = {e1, e2}
    Workers = {w1, w2}
    BatchLimit = 2
    MaxConcurrent = 1
    MaxAttempts = 3
    Lease = 12
    HttpTimeout = 2
    DbDeadline = 1
    MaxFaults = 1
    MaxLate = 1
CHECK_DEADLOCK FALSE
INVARIANTS
    OneDeliveryAtATime
    PostsAreBounded
    AcceptedOnce
PROPERTIES
    EventIsSettled
