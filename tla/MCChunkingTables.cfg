SPECIFICATION FilingSpec
CONSTANTS
    MaxTokens = 8
    TargetMax = 6
    TargetMin = 4
    MinTokens = 3
    Overlap = 1
    Joint = 1
    MCLength = 4
    MCNodes = 6
    ItemCount = 2
    Documents <- MCDocuments
    Sections <- MCSections
CHECK_DEADLOCK FALSE
INVARIANTS
    TablesBecomeChunks
