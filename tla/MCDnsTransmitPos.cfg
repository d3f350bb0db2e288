SPECIFICATION Spec
CONSTANTS
    Count = 2
    QueryLen = 2
    MaxLen = 3
    PosBound = 3
    Noise = 1
    AtOnce = TRUE
INVARIANTS SentAsSaid
