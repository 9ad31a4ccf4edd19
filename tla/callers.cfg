SPECIFICATION FairSpec
CONSTANTS
    Kinds <- Everything
    BatchLen = 4
    Masters = {m1, m2, m3}
    MaxCursor = 2
INVARIANTS
    NoPanic
    IterationInv
PROPERTIES
    ImplementsBlockingCall
    ScanEnds
CHECK_DEADLOCK FALSE
