SPECIFICATION MCFairSpec
CONSTANTS
    j1 = j1
    j2 = j2
    p1 = p1
    p2 = p2
    Jobs = {j1, j2}
    Portfolios = {p1, p2}
    q1 = q1
    Requests = {q1}
    NoJob = NoJob
CHECK_DEADLOCK FALSE
INVARIANTS
    AnswersMatchJob
    FindingsNotOlder
    UnfinishedExplained
PROPERTIES
    RunnersStop
    EndIsFinal
