SPECIFICATION FairSpec
CONSTANTS
    h1 = h1
    h2 = h2
    h3 = h3
    c1 = c1
    c2 = c2
    c3 = c3
    Addrs <- TheAddrs
    Conns <- TheConns
    HostOf <- OneEach
    MaxRoles = 2
    MaxQueued = 0
    MaxFaults = 1
    Width = 4
    XorTable <- BitwiseXor
    Shapes <- SmallShards
INVARIANTS
    MaskInv
    ChoiceRight
PROPERTIES
    HealthFollowed
    RolesSettle
