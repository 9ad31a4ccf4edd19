----------------------------- MODULE MCReplicas -----------------------------
(* A master and two replicas with one connection each.                     *)
EXTENDS ReplicaChoice, FiniteSetsExt

CONSTANTS h1, h2, h3, c1, c2, c3

TheAddrs == <<h1, h2, h3>>
TheConns == {c1, c2, c3}
OneEach == (c1 :> h1) @@ (c2 :> h2) @@ (c3 :> h3)
Bit(x, i) == (x \div Powers[i]) % 2
BitwiseXor ==
    [x \in States \X States |->
        MapThenSumSet(LAMBDA i : ((Bit(x[1], i) + Bit(x[2], i)) % 2) * Powers[i], 0 .. Width - 1)]
SmallShards == {<<3, 1>>, <<2, 2>>}

=============================================================================
