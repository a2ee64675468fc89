SPECIFICATION AcquisitionSpec
CONSTANTS
    p1 = p1
    p2 = p2
    Procs = {p1, p2}
    Clients = {p1, p2}
    Files <- MCFiles
    Parts <- MCParts
    Absent = Absent
    Wrong = Wrong
    MaxRuns = 3
    BatchSize = 2
    Attempts = 2
CHECK_DEADLOCK FALSE
INVARIANTS
    VectorsMatchTexts
    GapsExplained
PROPERTIES
    AcquisitionEnds
