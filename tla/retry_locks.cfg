SPECIFICATION FairSpec
CONSTANTS
    Conns = {c1, c2, c3}
    Reqs = {r1, r2}
    NoConn = NoConn
    MaxDowns = 2
INVARIANTS
    NoLockCycle
PROPERTIES
    EventuallyResolved
