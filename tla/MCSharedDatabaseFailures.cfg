SPECIFICATION SharedSpec
CONSTANTS
    r1 = r1
    r2 = r2
    Runs = {r1, r2}
    NoRun = NoRun
    Filings <- MCFilings
    Hashes <- MCHashes
    Texts <- MCTexts
    Plans <- MCPlans
    j1 = j1
    p1 = p1
    Jobs = {j1}
    Portfolios = {p1}
    Requests = {}
    NoJob = NoJob
SYMMETRY MCSymmetry
CHECK_DEADLOCK FALSE
INVARIANTS
    FailuresPersisted
