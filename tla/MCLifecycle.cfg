SPECIFICATION LifecycleFairSpec
CONSTANTS
    a = a  b = b
    Instances = {a, b}
    TaskQueue = {a}
INVARIANTS
    InfraClosesLast
    AdminMarginIsKept
PROPERTIES
    ShutdownEnds
