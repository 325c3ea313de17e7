SPECIFICATION FairSpec
CONSTANTS
    Ids = {p, q, r}
    Namespaced = {}
    Vectors = {v, zero}
    Refused = {zero}
    Jobs = {j1, j2}
    NoPoint = NoPoint
    NoAnswer = NoAnswer
    BatchMax = 2
    ScanMax = 1
    DeadRatio = 5
    MaxCalls = 3
INVARIANTS
    IndexInv
    Found
PROPERTIES
    ReindexProgress
CHECK_DEADLOCK FALSE
