SPECIFICATION FairSpec
CONSTANTS
    Hosts = {h1, h2}
    Kinds = {"write", "read", "replica", "trans"}
    ConnsPerHost = 2
    MovedRetries = 1
    TransLen = 2
INVARIANTS
    RequestInv
    BoundedEffort
PROPERTIES
    RetriesElsewhere
    EventuallyResolved
