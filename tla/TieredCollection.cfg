SPECIFICATION Spec
CONSTANTS
    Ids = {p, q}
    Values = {v, w}
    NoPoint = NoPoint
    Junk = Junk
    Fails = {"warm", "cold"}
    MaxCalls = 8
INVARIANTS
    TierInv
PROPERTY
    Demoted
CHECK_DEADLOCK FALSE
