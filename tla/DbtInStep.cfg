SPECIFICATION FairSpec
CONSTANTS
    u1 = u1
    u2 = u2
    o1 = o1
    o2 = o2
    i1 = i1
    i2 = i2
    Users = {u1, u2}
    Orders = {o1}
    Items = {i1, i2}
    UserOf <- MCUserOf
    OrderOf <- MCOrderOf
    MaxChanges = 6
    MaxFailures = 0
    OrdersFirst = TRUE
    StrictTimes = TRUE
    InStep = TRUE
    QuietRuns = TRUE
    FirstRunNonEmpty = TRUE
PROPERTIES
    ModelsConverge
    CustomersConverge
    ItemsShowOrder
CHECK_DEADLOCK FALSE
