SPECIFICATION FairSpec
CONSTANTS
    Collections = {a, b}
    OutCapacity = 1
    BatchCapacity = 1
    EventCapacity = 1
    IdleLimit = 1
    MaxInputs = 3
INVARIANTS
    ConnectionInv
    Accounted
    NoGap
PROPERTIES
    Ends
    Delivered
CHECK_DEADLOCK FALSE
