SPECIFICATION FairSpec
CONSTANTS
    k1 = k1
    k2 = k2
    Null = Null
    Ids = {k1}
    MaxSchema = 2
    Shapes <- MCShapes
    Metadata <- MCMetadata
    SchemaShape <- MCTwoSchemas
    Payloads <- Damaged
    Unreadable = {}
    BatchLimit = 2
    MaxLog = 3
    MaxCrashes = 1
INVARIANTS
    Accounted
    DriftReported
    MetricsMatchQuarantine
    OnlyContracted
PROPERTIES
    ImplementsLedger
    EventuallySettled
CHECK_DEADLOCK FALSE
