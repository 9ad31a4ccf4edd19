SPECIFICATION FairSpec
CONSTANTS
    hostA = hostA
    hostB = hostB
    hostC = hostC
    Addrs = {hostA, hostB, hostC}
    InitAddrs = {hostA}
    Slots <- OneSlot
    Topologies <- Failover
    CmdCap = 2
    MaxReloads = 2
    MaxMoved = 1
    NumSlots = 4
    MasterAddrs <- TwoMasters
    ReplicaOf <- ThreeReplicas
INVARIANTS
    SlotsInv
    TableRight
PROPERTIES
    AskingLearned
    ForcedReloadRuns
    ControlEnds
