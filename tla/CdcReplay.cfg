SPECIFICATION ReplaySpec
CONSTANTS
    k1 = k1
    Null = Null
    AnyReason = AnyReason
    Ids = {k1}
    MaxSchema = 1
    Shapes <- MCShapes
    Metadata <- MCMetadata
    SchemaShape <- MCSchemaShape
    Payloads <- Updates
    Unreadable = {}
    BatchLimit = 2
    MaxLog = 3
    MaxCrashes = 2
    Filters = {AnyReason, "SCHEMA_DRIFT_UNAPPROVED"}
    Limit = 1000
    Exclusive = TRUE
    AuditReadable = FALSE
    MaxReplays = 2
INVARIANTS
    ReplayTypeOK
    NothingLost
    AuditedWasReplayed
PROPERTIES
    AuditedNeverResent
CHECK_DEADLOCK FALSE
