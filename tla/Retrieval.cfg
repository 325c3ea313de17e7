SPECIFICATION FairSpec
CONSTANTS
    NoFilter = NoFilter
    NoPoint = NoPoint
    Ids <- MCIds
    Docs <- MCDocs
    Batches <- MCBatches
    Words <- MCWords
    Filters <- MCFilters
    MarkSets <- MCMarkSets
    Kinds <- MCKinds
    Queries <- MCQueries
    Limits <- MCLimits
    Strategies <- MCStrategies
    Hops <- MCHops
    Requests = {r1, r2}
    Permits = 1
    CacheSize = 1
    ScanMax = 1
    BatchMax = 1
    RankBase = 60
    PageMax = 1
    MaxCalls = 3
INVARIANTS
    SearchAnswers
    ExplainAgrees
    TextCounted
    FusionKeepsOrder
    Connected
PROPERTY SearchesEnd
CHECK_DEADLOCK FALSE
