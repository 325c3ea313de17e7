SPECIFICATION FairSpec
CONSTANTS
    Names = {n1}
    Requests = {r1, r2}
    Streams = {s1}
    AutoSave = AutoSave
    Main = Main
    Ops = {"create", "delete", "upsert", "patch"}
    Slow = {"request", "save"}
    Loaded = {n1}
    Nil = Nil
    Broken = Broken
    MaxCalls = 3
PROPERTIES
    SnapshotsAdvance
    RequestsEnd
CHECK_DEADLOCK FALSE
