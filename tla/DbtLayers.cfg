SPECIFICATION Spec
CONSTANTS
    u1 = u1
    u2 = u2
    o1 = o1
    o2 = o2
    i1 = i1
    i2 = i2
    Users = {u1, u2}
    Orders = {o1}
    Items = {i1}
    UserOf <- MCUserOf
    OrderOf <- MCOrderOf
    MaxChanges = 4
    MaxFailures = 1
    OrdersFirst = TRUE
    StrictTimes = FALSE
    InStep = FALSE
    QuietRuns = FALSE
    FirstRunNonEmpty = FALSE
INVARIANTS
    TypeOK
    OneRowPerKey
    WatermarkSound
PROPERTIES
    NoStaleRows
CHECK_DEADLOCK FALSE
