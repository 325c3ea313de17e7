SPECIFICATION Spec
CONSTANTS
    Ids = {a, b}
    Vals = {v, w, z}
    Refused = {z}
    None = None
    NoFile = NoFile
    Unknown = Unknown
    Down = Down
    Threshold = 2
    Cap = 3
    TornKinds = {"line"}
    CrashPoints <- SafeCrashPoints
    FailPoints <- SafeFailPoints
    MaxBatch = 2
    MaxLog = 3
INVARIANTS
    AckedSurvives
    AckedVisible
    StartsReadable
    IInv
PROPERTY
    WriteAhead
    KeepsPromise
