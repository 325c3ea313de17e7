SPECIFICATION Spec
CONSTANTS
    Ids = {a}
    Vals = {v, z}
    Refused = {z}
    None = None
    NoFile = NoFile
    Unknown = Unknown
    Down = Down
    Threshold = 2
    Cap = 3
    TornKinds = {"line", "bytes", "frame"}
    CrashPoints <- Steps
    FailPoints <- IOSteps
    MaxBatch = 2
    MaxLog = 4
PROPERTY
    LogOutlivesSnapshot
