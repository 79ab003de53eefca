SPECIFICATION FairSpec
CONSTANTS
    u1 = u1
    u2 = u2
    o1 = o1
    o2 = o2
    i1 = i1
    i2 = i2
    Users = {u1, u2}
    Orders = {o1, o2}
    Items = {i1}
    UserOf <- MCUserOf
    OrderOf <- MCOrderOf
    MaxChanges = 5
    MaxFailures = 0
    OrdersFirst = TRUE
    StrictTimes = TRUE
    InStep = FALSE
    QuietRuns = TRUE
    FirstRunNonEmpty = TRUE
PROPERTIES
    ModelsConverge
CHECK_DEADLOCK FALSE
