SPECIFICATION FairSpec
CONSTANTS
    r1 = r1
    r2 = r2
    r3 = r3
    Runs = {r1, r2, r3}
    NoRun = NoRun
    Filings <- MCFilings
    Hashes <- MCHashes
    Texts <- MCTexts
    Plans <- MCPlans
CHECK_DEADLOCK FALSE
INVARIANTS
    RowsHaveVectors
    TextsStoredOnce
    RowsHaveDocuments
    CompletedRunsCover
    OrphansExplained
PROPERTIES
    RunsEnd
    ImplementsEvidenceIndex
