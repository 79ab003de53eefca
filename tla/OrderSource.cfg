SPECIFICATION Spec
CONSTANTS
    o1 = o1
    o2 = o2
    i1 = i1
    i2 = i2
    Orders = {o1, o2}
    Items = {i1, i2}
    OrderOf <- MCOrderOf
    Other = Other
    MaxRestarts = 1
SYMMETRY Exchanges
INVARIANTS
    TypeOK
    AckedIsDurable
    ItemsFollowOrder
PROPERTIES
    LifecycleRespected
CHECK_DEADLOCK FALSE
