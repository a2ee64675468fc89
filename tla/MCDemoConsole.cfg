SPECIFICATION ConsoleSpec
CONSTANTS
    Tickers = {t1, t2}
    FirstTicker = t1
    Portfolios = {p1, p2}
    SamplePortfolio = p0
    Jobs = {j1, j2}
    NoId = noId
    MaxCalls = 3
    MaxSwitches = 3
\* calls and tab switches are bounded
CHECK_DEADLOCK FALSE
INVARIANTS
    LabelsHonest
    ShownIsAsked
