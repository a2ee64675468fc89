SPECIFICATION AcquisitionSpec
CONSTANTS
    p1 = p1
    p2 = p2
    Procs = {p1}
    Clients = {p1}
    Files <- MCFiles
    Parts <- MCParts
    Absent = Absent
    Wrong = Wrong
    MaxRuns = 2
    BatchSize = 2
    Attempts = 3
CHECK_DEADLOCK FALSE
INVARIANTS
    RerunsComplete
