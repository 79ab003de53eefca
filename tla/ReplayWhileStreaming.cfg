SPECIFICATION ReplaySpec
CONSTANTS
    k1 = k1
    Null = Null
    AnyReason = AnyReason
    Ids = {k1}
    MaxSchema = 1
    Shapes <- MCShapes
    Metadata <- MCMetadata
    SchemaShape <- MCSchemaShape
    Payloads <- Updates
    Unreadable = {}
    BatchLimit = 2
    MaxLog = 4
    MaxCrashes = 2
    Filters = {AnyReason, "SCHEMA_DRIFT_UNAPPROVED"}
    Limit = 100
    Exclusive = FALSE
    AuditReadable = TRUE
    MaxReplays = 2
INVARIANT AuditedWasReplayed
CHECK_DEADLOCK FALSE
