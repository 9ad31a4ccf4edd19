SPECIFICATION FairSpec
CONSTANTS
    hostA = hostA
    hostB = hostB
    hostC = hostC
    Addrs = {hostA, hostB, hostC}
    InitAddrs <- Seeds
    Reports <- Failovers
    Callbacks = {f1, f2}
    None = None
    MaxNodes = 2
    MaxReloads = 3
INVARIANTS
    RefcountExact
    CurrentNodesOpen
    NoLeakedNode
    CallbackOnce
PROPERTIES
    CallbackRuns
    OldNodesClosed
