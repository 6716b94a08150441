SPECIFICATION Spec
CONSTANTS
    old = old
    new = new
    Process = {old, new}
    Supported <- Builds
    Limit <- Limits
    Group <- Groups
    GroupBatch = 2
    Rows = {0, 3}
    Found = {0, 1, 2, 3}
    None = None
    MaxCrashes = 2
INVARIANTS SchemaIsItsVersion HistoriesWithinLimit
PROPERTIES NewerSchemaRefused StartEnds
CHECK_DEADLOCK FALSE
