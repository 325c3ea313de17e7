SPECIFICATION Spec
CONSTANTS
    Ids = {a}
    Vals = {v, w}
    Refused = {}
    None = None
    NoFile = NoFile
    Unknown = Unknown
    Down = Down
    Threshold = 2
    Cap = 3
    TornKinds = {}
    CrashPoints = {"checksum"}
    FailPoints = {}
    MaxBatch = 2
    MaxLog = 3
INVARIANT
    StartsReadable
