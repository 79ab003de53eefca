SPECIFICATION Spec
CONSTANTS
    k1 = k1
    k2 = k2
    Null = Null
    Ids = {k1, k2}
    MaxSchema = 2
    Shapes <- MCShapes
    Metadata <- MCMetadata
    SchemaShape <- MCTwoSchemas
    Payloads <- TwoKeys
    Unreadable = {"staging"}
    BatchLimit = 2
    MaxLog = 3
    MaxCrashes = 2
INVARIANTS
    TypeOK
    LatestWins
PROPERTIES
    RowsNeverRegress
CHECK_DEADLOCK FALSE
