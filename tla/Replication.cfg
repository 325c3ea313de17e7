SPECIFICATION Spec
CONSTANTS
    Ids <- MCIds
    Vals = {v, z}
    Refused = {z}
    None = None
    Root = "-"
    NoFile = NoFile
    NoCollection = NoCollection
    Retentions = {0}
    NoLimit = NoLimit
    Idle = Idle
    Threshold = 3
    LastSecond = 3
    Workloads <- MCWorkloads
    MaxFailures = 1
INVARIANTS
    Recoverable
    Restores
PROPERTY
    FollowerAgrees
CHECK_DEADLOCK FALSE
