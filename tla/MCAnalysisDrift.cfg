SPECIFICATION AnalysisSpec
CONSTANTS
    Tickers = {1, 2}
    MaxTargets = 1
    Store <- MCRows
    Names <- MCNames
    Replies <- MCReplies
    NoPlan = NoPlan
    Plans <- MCPlans
    Rows <- MCRows
    Points <- MCPoints
    SourceLimit = 3
    RankOffset = 60
    Scale <- MCScale
    RerankTop = 4
    ReplyLimit = 2
    Chunks <- MCRows
    MaxPerSection = 3
    MaxPerDate = 2
    FinalLimit = 4
CHECK_DEADLOCK FALSE
INVARIANTS
    DriftPeriodsSurvive
