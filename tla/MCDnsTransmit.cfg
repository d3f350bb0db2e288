SPECIFICATION FairSpec
CONSTANTS
    Count = 2
    QueryLen = 1
    MaxLen = 2
    PosBound = 2
    Noise = 1
    AtOnce = TRUE
INVARIANTS CallsSound EachOnce
PROPERTIES NoAnswerLost Ends
