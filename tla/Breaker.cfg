SPECIFICATION FairSpec
CONSTANTS
    Callers = {c1, c2, c3}
    Threshold = 2
    Reset = 2
INVARIANTS
    HalfOpenHasAttempt
PROPERTY
    Recovers
