SPECIFICATION MCSpec
CONSTANTS
    r1 = r1
    r2 = r2
    Runs = {r1, r2}
    NoRun = NoRun
    NotTaken = NotTaken
    AllowedDelta = 0
    ExportLimit = 2
    Filings <- MCFilings
    Hashes <- MCHashes
    Texts <- MCTexts
    Plans <- MCPlans
SYMMETRY MCSymmetry
CHECK_DEADLOCK FALSE
INVARIANTS
    LacksDroppedOnly
    InSyncMeansJoined
    BackupsJoin
    HandoffsResolve
    CitationsHavePoints
