SPECIFICATION FairSpec
CONSTANTS
    k1 = k1
    k2 = k2
    Null = Null
    Ids = {k1}
    MaxSchema = 2
    Shapes <- MCWideOnly
    Metadata <- MCMetadata
    SchemaShape <- MCFieldRemoved
    Payloads <- OneInsert
    Unreadable = {}
    BatchLimit = 2
    MaxLog = 1
    MaxCrashes = 1
PROPERTY StaysAvailable
CHECK_DEADLOCK FALSE
