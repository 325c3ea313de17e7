SPECIFICATION FairSpec
CONSTANTS
    Names = {n1, n2}
    Requests = {r1, r2}
    Streams = {}
    AutoSave = AutoSave
    Main = Main
    Ops = {"upsert", "delete", "save"}
    Slow = {}
    Loaded = {n1, n2}
    Nil = Nil
    Broken = Broken
    MaxCalls = 2
INVARIANTS
    ServerInv
    CleanIsSaved
    ExitSaves
PROPERTIES
    AckedIsSaved
    Exits
CHECK_DEADLOCK FALSE
