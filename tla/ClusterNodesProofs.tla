------------------------- MODULE ClusterNodesProofs -------------------------
(***************************************************************************)
(* Reference counting of ClusterNodes, for any number of addresses,        *)
(* reloads, redirects and delayed drops.                                   *)
(***************************************************************************)
EXTENDS ClusterNodes, FiniteSetTheorems, TLAPS

\* No address is given to NewCluster twice.
DistinctSeeds == \A a \in Addrs : Occurrences(a) <= 1

-----------------------------------------------------------------------------
(* Types *)

\* The number of nodes NewCluster makes for an address is within the bound.
LEMMA OccurrencesType == \A a \in Addrs : Occurrences(a) \in 0 .. MaxNodes
<1> SUFFICES ASSUME NEW a \in Addrs PROVE Occurrences(a) \in 0 .. MaxNodes
  OBVIOUS
<1> DEFINE At == {j \in DOMAIN InitAddrs : InitAddrs[j] = a}
<1>1. At \subseteq 1 .. Len(InitAddrs) /\ Len(InitAddrs) \in Nat /\ Len(InitAddrs) <= MaxNodes
  BY NodesAssumption
<1>a. \A m \in Int : IsFiniteSet(1 .. m)
                      /\ Cardinality(1 .. m) = IF 1 > m THEN 0 ELSE m - 1 + 1
  BY FS_Interval
<1>2. IsFiniteSet(1 .. Len(InitAddrs)) /\ Cardinality(1 .. Len(InitAddrs)) = Len(InitAddrs)
  BY <1>1, <1>a, NodesAssumption
<1>3. IsFiniteSet(At) /\ Cardinality(At) <= Len(InitAddrs)
  BY <1>1, <1>2, FS_Subset
<1>4. Cardinality(At) \in Nat
  BY <1>3, FS_CardinalityType
<1> QED
  BY <1>1, <1>3, <1>4, NodesAssumption DEF Occurrences

\* The struct NewCluster has built is well-typed.
LEMMA NodesTypeInit == Init => TypeOK
<1> SUFFICES ASSUME Init PROVE TypeOK
  OBVIOUS
<1>1. made \in [Addrs -> 0 .. MaxNodes] /\ nodes \in NodeMaps
  BY OccurrencesType DEF Init, NodeMaps
<1>2. NoNodes \in NodeMaps
  BY NodesAssumption DEF NoNodes, NodeMaps
<1>3. refcnt \in [Addrs -> [Nodes -> Nat]]
  BY DEF Init
<1> QED
  BY <1>1, <1>2, <1>3, NodesAssumption DEF Init, TypeOK

\* Counting a map's nodes keeps the types of refcnt and made.
LEMMA CountingType ==
  ASSUME TypeOK, NEW map \in [Addrs -> Nat], \A a \in Addrs : map[a] <= MaxNodes
  PROVE  /\ AddRefs(map) \in [Addrs -> [Nodes -> Nat]]
         /\ AddMade(map) \in [Addrs -> 0 .. MaxNodes]
         /\ map \in NodeMaps
<1>1. map \in NodeMaps
  BY NodesAssumption DEF NodeMaps
<1>2. AddMade(map) \in [Addrs -> 0 .. MaxNodes]
  BY <1>1 DEF AddMade, TypeOK, NodeMaps
<1>3. AddRefs(map) \in [Addrs -> [Nodes -> Nat]]
  <2>1. \A a \in Addrs, i \in Nodes : refcnt[a][i] \in Nat
    BY DEF TypeOK
  <2>2. \A a \in Addrs :
           [i \in Nodes |-> IF i = map[a] THEN refcnt[a][i] + 1 ELSE refcnt[a][i]]
               \in [Nodes -> Nat]
    BY <2>1
  <2> QED
    BY <2>2 DEF AddRefs
<1> QED
  BY <1>1, <1>2, <1>3

-----------------------------------------------------------------------------
(* The inductive invariant *)

\* Maps hold nodes that were made, and the map a later reload will hand to its
\* delayed function is still empty.
MapsBounded ==
    \A a \in Addrs :
        /\ nodes[a] <= made[a] /\ prevNodes[a] <= made[a]
        /\ \A n \in 1 .. MaxReloads : drops[n][a] <= made[a] /\ (n > reloads => drops[n][a] = 0)

\* Every map that holds a node has its reference.
Counted == \A a \in Addrs, i \in Nodes : refcnt[a][i] >= Holders(a, i)

\* A node is closed exactly when its last reference is gone.
ClosedWhenReleased ==
    \A a \in Addrs, i \in Nodes : <<a, i>> \in closed <=> (i <= made[a] /\ refcnt[a][i] = 0)

NodeInv == TypeOK /\ MapsBounded /\ Counted /\ ClosedWhenReleased

\* The maps waiting to be released are finitely many.
LEMMA DroppingFinite ==
  \A a, i : IsFiniteSet(Dropping(a, i)) /\ Cardinality(Dropping(a, i)) \in Nat
<1> TAKE a, i
<1>1. IsFiniteSet(1 .. MaxReloads)
  BY FS_Interval, NodesAssumption
<1>2. Dropping(a, i) \subseteq 1 .. MaxReloads
  BY DEF Dropping
<1> QED
  BY <1>1, <1>2, FS_Subset, FS_CardinalityType

\* The number of holders is a number, and positive for a node in a map.
LEMMA HoldersType ==
  ASSUME NEW a \in Addrs, NEW i \in Nodes
  PROVE  /\ Holders(a, i) \in Nat
         /\ nodes[a] = i \/ prevNodes[a] = i => Holders(a, i) > 0
         /\ \A n \in 1 .. MaxReloads : drops[n][a] = i => Holders(a, i) > 0
<1>1. Cardinality(Dropping(a, i)) \in Nat /\ IsFiniteSet(Dropping(a, i))
  BY DroppingFinite
<1>2. ASSUME NEW n \in 1 .. MaxReloads, drops[n][a] = i PROVE Cardinality(Dropping(a, i)) > 0
  <2>1. Dropping(a, i) # {}
    BY <1>2 DEF Dropping
  <2> QED
    BY <1>1, <2>1, FS_EmptySet
<1> QED
  BY <1>1, <1>2 DEF Holders

\* After a step the number of holders is still a number.
LEMMA HoldersNext ==
  ASSUME NEW a \in Addrs, NEW i \in Nodes PROVE Holders(a, i)' \in Nat
<1>1. IsFiniteSet(1 .. MaxReloads)
  BY FS_Interval, NodesAssumption
<1>2. Dropping(a, i)' \subseteq 1 .. MaxReloads
  BY DEF Dropping
<1>3. Cardinality(Dropping(a, i)') \in Nat
  BY <1>1, <1>2, FS_Subset, FS_CardinalityType
<1> QED
  BY <1>3 DEF Holders

\* A reload adds one reference and one holder to exactly the nodes it keeps or
\* makes: the node of the old map moves to prevNodes, that of prevNodes to the
\* map of the delayed drop.
LEMMA UpdateBalance ==
  ASSUME TypeOK, MapsBounded, NEW addrs \in Reports, UpdateMappings(addrs),
         NEW a \in Addrs, NEW i \in Nodes
  PROVE  refcnt'[a][i] - Holders(a, i)' = refcnt[a][i] - Holders(a, i)
<1> DEFINE one == IF nodes'[a] = i THEN 1 ELSE 0
           old == IF prevNodes[a] = i THEN 1 ELSE 0
<1> USE NodesAssumption
<1>1. refcnt'[a][i] = refcnt[a][i] + one /\ refcnt[a][i] \in Nat
  BY DEF UpdateMappings, AddRefs, TypeOK
<1>2. reloads + 1 \in 1 .. MaxReloads /\ drops[reloads + 1][a] = 0 /\ i # 0
  BY DEF UpdateMappings, TypeOK, MapsBounded, Nodes
<1>3. \A n \in 1 .. MaxReloads :
         drops'[n][a] = IF n = reloads + 1 THEN prevNodes[a] ELSE drops[n][a]
  BY <1>2 DEF UpdateMappings, TypeOK, DropLater
<1>4. reloads + 1 \notin Dropping(a, i)
  BY <1>2 DEF Dropping
<1>5. Dropping(a, i)' = IF prevNodes[a] = i THEN Dropping(a, i) \cup {reloads + 1}
                                             ELSE Dropping(a, i)
  BY <1>2, <1>3 DEF Dropping
<1>a. IsFiniteSet(Dropping(a, i)) /\ Cardinality(Dropping(a, i)) \in Nat
  BY DroppingFinite
<1>b. Cardinality(Dropping(a, i) \cup {reloads + 1}) = Cardinality(Dropping(a, i)) + 1
  BY <1>4, <1>a, FS_AddElement
<1>6. Cardinality(Dropping(a, i)') = Cardinality(Dropping(a, i)) + old
  BY <1>5, <1>a, <1>b
<1>7. prevNodes' = nodes
  BY DEF UpdateMappings
<1>8. Holders(a, i)' = one + (IF nodes[a] = i THEN 1 ELSE 0)
                         + (Cardinality(Dropping(a, i)) + old)
  BY <1>6, <1>7 DEF Holders
<1>9. Holders(a, i) = (IF nodes[a] = i THEN 1 ELSE 0) + old + Cardinality(Dropping(a, i))
  BY DEF Holders
<1>10. one \in Nat /\ old \in Nat
  OBVIOUS
<1> HIDE DEF one, old
<1> QED
  BY <1>1, <1>a, <1>8, <1>9, <1>10

\* addNode adds one reference and one holder to the node it puts into the map.
LEMMA AddBalance ==
  ASSUME TypeOK, MapsBounded, NEW f \in Callbacks, AddNode(f),
         NEW a \in Addrs, NEW i \in Nodes
  PROVE  refcnt'[a][i] - Holders(a, i)' = refcnt[a][i] - Holders(a, i)
<1> USE NodesAssumption
<1>1. Dropping(a, i)' = Dropping(a, i) /\ prevNodes' = prevNodes
  BY DEF AddNode, Dropping
<1>2. Cardinality(Dropping(a, i)) \in Nat
  BY DroppingFinite
<1>3. CASE nodes[caddr[f]] # 0
  BY <1>1, <1>3 DEF AddNode, Holders
<1>4. CASE nodes[caddr[f]] = 0
  <2> DEFINE map == NodeToAdd(caddr[f])
             one == IF map[a] = i THEN 1 ELSE 0
  <2>1. caddr[f] \in Addrs /\ i # 0
    BY DEF TypeOK, Nodes
  <2>2. nodes'[a] = (IF a = caddr[f] THEN map[a] ELSE nodes[a]) /\ (a # caddr[f] => map[a] = 0)
    BY <1>4, <2>1 DEF AddNode, TypeOK, NodeMaps, NodeToAdd
  <2>3. refcnt'[a][i] = refcnt[a][i] + one /\ refcnt[a][i] \in Nat
    BY <1>4 DEF AddNode, AddRefs, TypeOK
  <2>4. (IF nodes'[a] = i THEN 1 ELSE 0) = (IF nodes[a] = i THEN 1 ELSE 0) + one
    BY <1>4, <2>1, <2>2
  <2> HIDE DEF one
  <2>5. one \in Nat
    BY DEF one
  <2>6. Holders(a, i)' = Holders(a, i) + one
    BY <1>1, <1>2, <2>4, <2>5 DEF Holders
  <2> QED
    BY <2>3, <2>5, <2>6, HoldersType
<1> QED
  BY <1>3, <1>4

\* The delayed function takes one reference from the node it takes out of its
\* map.
LEMMA DropBalance ==
  ASSUME TypeOK, NEW n \in 1 .. MaxReloads, NEW b \in Addrs, DropNode(n, b),
         NEW a \in Addrs, NEW i \in Nodes
  PROVE  refcnt'[a][i] - Holders(a, i)' = refcnt[a][i] - Holders(a, i)
<1> USE NodesAssumption
<1> DEFINE hit == a = b /\ i = drops[n][b]
           one == IF hit THEN 1 ELSE 0
<1>1. drops[n][b] \in Nodes /\ i # 0
  <2>1. drops[n][b] \in 0 .. MaxNodes
    BY DEF TypeOK, NodeMaps
  <2> QED
    BY <2>1 DEF DropNode, Nodes
<1>2. refcnt'[a][i] = refcnt[a][i] - one /\ refcnt[a][i] \in Nat
  BY SMTT(30), <1>1 DEF DropNode, TypeOK
<1>3. \A m \in 1 .. MaxReloads : drops'[m][a] = IF m = n /\ a = b THEN 0 ELSE drops[m][a]
  BY DEF DropNode, TypeOK, NodeMaps
<1>4. Dropping(a, i)' = IF hit THEN Dropping(a, i) \ {n} ELSE Dropping(a, i)
  BY <1>1, <1>3 DEF Dropping
<1>5. hit => n \in Dropping(a, i)
  BY DEF Dropping
<1>a. IsFiniteSet(Dropping(a, i)) /\ Cardinality(Dropping(a, i)) \in Nat
  BY DroppingFinite
<1>b. hit => Cardinality(Dropping(a, i) \ {n}) = Cardinality(Dropping(a, i)) - 1
  BY <1>5, <1>a, FS_RemoveElement
<1>6. Cardinality(Dropping(a, i)') = Cardinality(Dropping(a, i)) - one
  BY <1>4, <1>a, <1>b
<1>7. nodes' = nodes /\ prevNodes' = prevNodes
  BY DEF DropNode
<1> QED
  BY <1>2, <1>a, <1>6, <1>7 DEF Holders

-----------------------------------------------------------------------------
(* The invariant is inductive *)

\* What NewCluster has built satisfies the invariant, also when an address was
\* given twice.
LEMMA NodeInvInit == Init => NodeInv
<1> SUFFICES ASSUME Init PROVE NodeInv
  OBVIOUS
<1> USE NodesAssumption
<1>1. TypeOK
  BY NodesTypeInit
<1>2. MapsBounded
  <2>1. \A a \in Addrs : nodes[a] = made[a] /\ prevNodes[a] = 0 /\ made[a] \in Nat
    BY <1>1 DEF Init, NoNodes, TypeOK
  <2>2. \A a \in Addrs, n \in 1 .. MaxReloads : drops[n][a] = 0
    BY DEF Init, NoNodes
  <2> QED
    BY <2>1, <2>2 DEF MapsBounded
<1>3. ASSUME NEW a \in Addrs, NEW i \in Nodes
      PROVE  /\ refcnt[a][i] = (IF i <= made[a] THEN 1 ELSE 0)
             /\ Holders(a, i) = (IF made[a] = i THEN 1 ELSE 0)
  <2>1. Dropping(a, i) = {}
    BY DEF Init, NoNodes, Dropping, Nodes
  <2>2. Cardinality(Dropping(a, i)) = 0
    BY <2>1, FS_EmptySet
  <2>3. nodes[a] = made[a] /\ prevNodes[a] = 0 /\ i # 0
    BY DEF Init, NoNodes, Nodes
  <2> QED
    BY <2>2, <2>3 DEF Init, Holders
<1>4. Counted
  <2> SUFFICES ASSUME NEW a \in Addrs, NEW i \in Nodes PROVE refcnt[a][i] >= Holders(a, i)
    BY DEF Counted
  <2>1. made[a] \in Nat /\ i \in Nat
    BY <1>1 DEF TypeOK, Nodes
  <2> QED
    BY <1>3, <2>1
<1>5. ClosedWhenReleased
  BY <1>3 DEF ClosedWhenReleased, Init
<1> QED
  BY <1>1, <1>2, <1>4, <1>5 DEF NodeInv

\* Steps of ensureConnForAddress and of its goroutines other than addNode
\* leave the maps alone.
LEMMA WaitSteps ==
  ASSUME TypeOK, NEW f \in Callbacks,
         EnsureConn(f) \/ Wait(f) \/ DeletePromise(f) \/ RunCallback(f)
  PROVE  TypeOK' /\ UNCHANGED mapVars
<1>0. \A g \in Callbacks : Run(g) => called' \in [Callbacks -> Nat]
  <2>1. called \in [Callbacks -> Nat] /\ \A g \in Callbacks : called[g] + 1 \in Nat
    BY DEF TypeOK
  <2> QED
    BY <2>1 DEF Run
<1>1. CASE EnsureConn(f)
  <2>1. called' \in [Callbacks -> Nat] /\ cpc' \in [Callbacks -> {"idle", "missed", "passed"}]
    BY <1>0, <1>1 DEF EnsureConn, TypeOK
  <2> QED
    BY <1>1, <2>1 DEF EnsureConn, TypeOK, mapVars
<1>2. CASE Wait(f)
  <2>1. caddr[f] \in Addrs /\ promises[caddr[f]] \in Callbacks \cup {None}
    BY DEF TypeOK
  <2>2. (IF promises[caddr[f]] # None THEN promises[caddr[f]] ELSE f) \in Callbacks
    BY <2>1
  <2> QED
    BY <1>2, <2>1, <2>2 DEF Wait, TypeOK, mapVars
<1>3. CASE DeletePromise(f)
  <2>1. promises' \in [Addrs -> Callbacks \cup {None}]
    BY <1>3 DEF DeletePromise, PromisesWithout, TypeOK
  <2> QED
    BY <1>3, <2>1 DEF DeletePromise, TypeOK, mapVars
<1>4. CASE RunCallback(f)
  <2>1. CASE queue[f] = <<>>
    BY <1>4, <2>1 DEF RunCallback, TypeOK, mapVars
  <2>2. CASE queue[f] # <<>>
    <3>1. queue[f] \in Seq(Callbacks)
      BY DEF TypeOK
    <3>2. Head(queue[f]) \in Callbacks /\ Tail(queue[f]) \in Seq(Callbacks)
      BY <2>2, <3>1
    <3>3. called' \in [Callbacks -> Nat]
      BY <1>0, <1>4, <2>2, <3>2 DEF RunCallback
    <3>4. queue' \in [Callbacks -> Seq(Callbacks)]
      BY <1>4, <2>2, <3>2 DEF RunCallback, Remaining, TypeOK
    <3> QED
      BY <1>4, <2>2, <3>3, <3>4 DEF RunCallback, TypeOK, mapVars
  <2> QED
    BY <2>1, <2>2
<1> QED
  BY <1>1, <1>2, <1>3, <1>4

\* A step that leaves the maps alone preserves what is said about them.
LEMMA MapsAlone ==
  ASSUME NodeInv, TypeOK', UNCHANGED mapVars PROVE NodeInv'
  BY DEF NodeInv, mapVars, MapsBounded, Counted, ClosedWhenReleased, Holders, Dropping

\* A reload preserves the types and the bounds of the maps.
LEMMA UpdateMaps ==
  ASSUME NodeInv, NEW addrs \in Reports, UpdateMappings(addrs)
  PROVE  /\ TypeOK' /\ MapsBounded'
         /\ \A a \in Addrs : nodes'[a] \in {0, nodes[a], prevNodes[a], made[a] + 1}
         /\ \A a \in Addrs : made'[a] = IF nodes'[a] > made[a] THEN nodes'[a] ELSE made[a]
<1> USE NodesAssumption
<1>0. TypeOK /\ MapsBounded
  BY DEF NodeInv
<1>1. NodesFor(addrs) \in [Addrs -> Nat]
  BY <1>0 DEF TypeOK, NodesFor, Kept, NodeMaps
<1>2. \A a \in Addrs : NodesFor(addrs)[a] <= MaxNodes
  BY DEF UpdateMappings
<1>3. /\ refcnt' \in [Addrs -> [Nodes -> Nat]] /\ made' \in [Addrs -> 0 .. MaxNodes]
      /\ nodes' \in NodeMaps
  BY <1>0, <1>1, <1>2, CountingType DEF UpdateMappings
<1>4. drops' \in [1 .. MaxReloads -> NodeMaps] /\ prevNodes' \in NodeMaps
  BY <1>0 DEF TypeOK, UpdateMappings, DropLater
<1>5. reloads' \in 0 .. MaxReloads /\ reloads' = reloads + 1
  BY <1>0 DEF TypeOK, UpdateMappings
<1>6. TypeOK'
  BY <1>0, <1>3, <1>4, <1>5 DEF TypeOK, UpdateMappings
<1>7. \A a \in Addrs : nodes'[a] \in {0, nodes[a], prevNodes[a], made[a] + 1}
  BY DEF UpdateMappings, NodesFor, Kept
<1>8. \A a \in Addrs : made'[a] = IF nodes'[a] > made[a] THEN nodes'[a] ELSE made[a]
  BY DEF UpdateMappings, AddMade
<1>9. MapsBounded'
  <2> SUFFICES ASSUME NEW a \in Addrs
               PROVE  /\ nodes'[a] <= made'[a] /\ prevNodes'[a] <= made'[a]
                      /\ \A n \in 1 .. MaxReloads :
                            drops'[n][a] <= made'[a] /\ (n > reloads' => drops'[n][a] = 0)
    BY DEF MapsBounded
  <2>1. nodes[a] \in Nat /\ prevNodes[a] \in Nat /\ made[a] \in Nat /\ nodes'[a] \in Nat
    BY <1>0, <1>3 DEF TypeOK, NodeMaps
  <2>2. nodes'[a] <= made'[a] /\ made[a] <= made'[a] /\ made'[a] \in Nat
    BY <1>8, <2>1
  <2>3. prevNodes'[a] = nodes[a]
    BY DEF UpdateMappings
  <2>4. \A n \in 1 .. MaxReloads :
           drops'[n][a] = IF n = reloads + 1 THEN prevNodes[a] ELSE drops[n][a]
    BY <1>0 DEF UpdateMappings, TypeOK, DropLater
  <2>5. \A n \in 1 .. MaxReloads : drops[n][a] \in Nat
    BY <1>0 DEF TypeOK, NodeMaps
  <2>6. /\ nodes[a] <= made[a] /\ prevNodes[a] <= made[a]
        /\ \A n \in 1 .. MaxReloads : drops[n][a] <= made[a] /\ (n > reloads => drops[n][a] = 0)
    BY <1>0 DEF MapsBounded
  <2>7. reloads \in Nat
    BY <1>0 DEF TypeOK
  <2> QED
    BY SMTT(30), <1>5, <2>1, <2>2, <2>3, <2>4, <2>5, <2>6, <2>7
<1> QED
  BY <1>6, <1>7, <1>8, <1>9

\* addNode preserves the types and the bounds of the maps.
LEMMA AddMaps ==
  ASSUME NodeInv, NEW f \in Callbacks, AddNode(f)
  PROVE  /\ TypeOK' /\ MapsBounded'
         /\ \A a \in Addrs : nodes'[a] \in {nodes[a], prevNodes[a], made[a] + 1}
         /\ \A a \in Addrs : made'[a] = IF nodes'[a] > made[a] THEN nodes'[a] ELSE made[a]
<1> USE NodesAssumption
<1>0. TypeOK /\ MapsBounded
  BY DEF NodeInv
<1>a. \A a \in Addrs : nodes[a] \in Nat /\ nodes[a] <= made[a] /\ made[a] \in Nat
                       /\ prevNodes[a] \in Nat
  BY <1>0 DEF TypeOK, NodeMaps, MapsBounded
<1>b. caddr[f] \in Addrs
  BY <1>0 DEF TypeOK
<1>1. CASE nodes[caddr[f]] # 0
  <2>1. UNCHANGED mapVars /\ TypeOK'
    BY <1>0, <1>1 DEF AddNode, TypeOK, mapVars
  <2> QED
    BY <1>0, <1>a, <2>1 DEF mapVars, MapsBounded
<1>2. CASE nodes[caddr[f]] = 0
  <2> DEFINE map == NodeToAdd(caddr[f])
  <2>1. map \in [Addrs -> Nat] /\ \A a \in Addrs : map[a] <= MaxNodes
    BY <1>a, <1>b, <1>2 DEF AddNode, NodeToAdd
  <2>2. /\ refcnt' \in [Addrs -> [Nodes -> Nat]] /\ made' \in [Addrs -> 0 .. MaxNodes]
        /\ map \in NodeMaps
    BY <1>0, <1>2, <2>1, CountingType DEF AddNode
  <2>3. nodes' \in NodeMaps
    <3>1. nodes' = [nodes EXCEPT ![caddr[f]] = map[caddr[f]]]
      BY <1>2 DEF AddNode
    <3>2. map[caddr[f]] \in 0 .. MaxNodes /\ nodes \in [Addrs -> 0 .. MaxNodes]
      BY <1>0, <1>b, <2>2 DEF TypeOK, NodeMaps
    <3> HIDE DEF map
    <3> QED
      BY <3>1, <3>2 DEF NodeMaps
  <2>4. TypeOK'
    BY <1>0, <2>2, <2>3 DEF AddNode, TypeOK
  <2>5. \A a \in Addrs : nodes'[a] = IF a = caddr[f] THEN map[a] ELSE nodes[a]
    BY SMTT(30), <1>0, <1>2, <1>b DEF AddNode, TypeOK, NodeMaps
  <2>6. \A a \in Addrs : map[a] = IF a # caddr[f] THEN 0
                                  ELSE IF prevNodes[a] # 0 THEN prevNodes[a] ELSE made[a] + 1
    BY DEF NodeToAdd
  <2>7. \A a \in Addrs : made'[a] = IF map[a] > made[a] THEN map[a] ELSE made[a]
    BY <1>2 DEF AddNode, AddMade
  <2>8. \A a \in Addrs : made'[a] = IF nodes'[a] > made[a] THEN nodes'[a] ELSE made[a]
    BY <1>a, <2>5, <2>6, <2>7
  <2>9. MapsBounded'
    <3>1. \A a \in Addrs : nodes'[a] <= made'[a] /\ made[a] <= made'[a]
                           /\ made'[a] \in Nat /\ nodes'[a] \in Nat
      BY <1>a, <2>2, <2>3, <2>8 DEF NodeMaps
    <3>2. prevNodes' = prevNodes /\ drops' = drops /\ reloads' = reloads
      BY DEF AddNode
    <3>3. \A a \in Addrs, n \in 1 .. MaxReloads : drops[n][a] \in Nat
      BY <1>0 DEF TypeOK, NodeMaps
    <3> SUFFICES ASSUME NEW a \in Addrs
                 PROVE  /\ nodes'[a] <= made'[a] /\ prevNodes'[a] <= made'[a]
                        /\ \A n \in 1 .. MaxReloads :
                              drops'[n][a] <= made'[a] /\ (n > reloads' => drops'[n][a] = 0)
      BY DEF MapsBounded
    <3>4. /\ prevNodes[a] <= made[a]
          /\ \A n \in 1 .. MaxReloads :
                drops[n][a] <= made[a] /\ (n > reloads => drops[n][a] = 0)
      BY <1>0 DEF MapsBounded
    <3> QED
      BY <1>a, <3>1, <3>2, <3>3, <3>4
  <2> QED
    BY <2>4, <2>5, <2>6, <2>8, <2>9
<1> QED
  BY <1>1, <1>2

\* Putting nodes into the current map, with their references, preserves the
\* rest of the invariant: nodes are taken from maps, so that they are not
\* closed, or are new.
LEMMA TakenNodes ==
  ASSUME NodeInv, NEW map, map \in [Addrs -> Nat], closed' = closed,
         refcnt' = AddRefs(map), made' = AddMade(map),
         \A a \in Addrs : map[a] \in {0, nodes[a], prevNodes[a], made[a] + 1},
         \A a \in Addrs, i \in Nodes :
            refcnt'[a][i] - Holders(a, i)' = refcnt[a][i] - Holders(a, i)
  PROVE  Counted' /\ ClosedWhenReleased'
<1> USE NodesAssumption
<1>1. ASSUME NEW a \in Addrs, NEW i \in Nodes
      PROVE  /\ refcnt'[a][i] >= Holders(a, i)'
             /\ <<a, i>> \in closed' <=> (i <= made'[a] /\ refcnt'[a][i] = 0)
  <2>1. /\ refcnt[a][i] \in Nat /\ made[a] \in Nat /\ map[a] \in Nat /\ i \in Nat \ {0}
        /\ nodes[a] \in Nat /\ prevNodes[a] \in Nat
    <3>1. /\ refcnt \in [Addrs -> [Nodes -> Nat]] /\ made \in [Addrs -> 0 .. MaxNodes]
          /\ nodes \in [Addrs -> 0 .. MaxNodes] /\ prevNodes \in [Addrs -> 0 .. MaxNodes]
      BY DEF NodeInv, TypeOK, NodeMaps
    <3>2. refcnt[a][i] \in Nat /\ map[a] \in Nat /\ i \in Nat \ {0}
      BY SMTT(30), <3>1 DEF Nodes
    <3> QED BY <3>1, <3>2
  <2>2. Holders(a, i) \in Nat /\ Holders(a, i)' \in Nat
    BY HoldersType, HoldersNext
  <2>3. refcnt'[a][i] = IF i = map[a] THEN refcnt[a][i] + 1 ELSE refcnt[a][i]
    BY DEF AddRefs
  <2>4. made'[a] = IF map[a] > made[a] THEN map[a] ELSE made[a]
    BY DEF AddMade
  <2>5. /\ refcnt[a][i] >= Holders(a, i)
        /\ <<a, i>> \in closed <=> (i <= made[a] /\ refcnt[a][i] = 0)
    BY DEF NodeInv, Counted, ClosedWhenReleased
  <2>6. refcnt'[a][i] >= Holders(a, i)'
    <3>1. refcnt'[a][i] - Holders(a, i)' = refcnt[a][i] - Holders(a, i)
      OBVIOUS
    <3>2. refcnt'[a][i] \in Nat
      BY <2>1, <2>3
    <3>3. \A r, h, rn, hn \in Nat : rn - hn = r - h /\ r >= h => rn >= hn
      OBVIOUS
    <3> QED
      BY ONLY <2>1, <2>2, <2>5, <3>1, <3>2, <3>3
  <2>7. nodes[a] = i \/ prevNodes[a] = i => <<a, i>> \notin closed
    BY <2>1, <2>2, <2>5, HoldersType
  <2>8. nodes[a] <= made[a] /\ prevNodes[a] <= made[a]
    BY DEF NodeInv, MapsBounded
  <2>9. map[a] \in {0, nodes[a], prevNodes[a], made[a] + 1}
    OBVIOUS
  <2>10. CASE i = map[a]
    <3>1. <<a, i>> \notin closed
      BY <2>1, <2>5, <2>7, <2>9, <2>10
    <3> QED
      BY <2>1, <2>3, <2>6, <2>10, <3>1
  <2>11. CASE i # map[a]
    <3>1. i <= made'[a] <=> i <= made[a]
      BY <2>1, <2>4, <2>8, <2>9, <2>11
    <3> QED
      BY <2>3, <2>5, <2>6, <2>11, <3>1
  <2> QED
    BY <2>10, <2>11
<1> QED
  BY <1>1 DEF Counted, ClosedWhenReleased

\* The delayed function closes a node exactly when it takes the last reference.
LEMMA DropMaps ==
  ASSUME NodeInv, NEW n \in 1 .. MaxReloads, NEW b \in Addrs, DropNode(n, b)
  PROVE  NodeInv'
<1> USE NodesAssumption
<1> DEFINE j == drops[n][b]
<1>0. TypeOK /\ MapsBounded /\ Counted /\ ClosedWhenReleased
  BY DEF NodeInv
<1>1. j \in Nodes /\ j <= made[b]
  <2>1. j \in 0 .. MaxNodes
    BY <1>0 DEF TypeOK, NodeMaps
  <2> QED
    BY <1>0, <2>1 DEF DropNode, Nodes, MapsBounded
<1>2. refcnt[b][j] \in Nat /\ refcnt[b][j] >= 1
  <2>1. refcnt[b][j] \in Nat
    BY <1>0, <1>1 DEF TypeOK
  <2>2. Holders(b, j) \in Nat /\ Holders(b, j) > 0
    BY <1>1, HoldersType
  <2>3. refcnt[b][j] >= Holders(b, j)
    BY <1>0, <1>1 DEF Counted
  <2> QED
    BY <2>1, <2>2, <2>3
<1>3. \A a \in Addrs, i \in Nodes :
         /\ refcnt[a][i] \in Nat
         /\ refcnt'[a][i] = IF a = b /\ i = j THEN refcnt[a][i] - 1 ELSE refcnt[a][i]
  BY SMTT(30), <1>0, <1>1 DEF DropNode, TypeOK
<1>4. refcnt' \in [Addrs -> [Nodes -> Nat]]
  <2>1. refcnt[b][j] - 1 \in Nat
    BY <1>2
  <2>2. [refcnt[b] EXCEPT ![j] = @ - 1] \in [Nodes -> Nat]
    BY <1>0, <1>1, <2>1 DEF TypeOK
  <2>3. refcnt' = [refcnt EXCEPT ![b] = [refcnt[b] EXCEPT ![j] = @ - 1]]
    BY <1>0, <1>1 DEF DropNode, TypeOK
  <2> QED
    BY <1>0, <2>2, <2>3 DEF TypeOK
<1>5. drops' \in [1 .. MaxReloads -> NodeMaps]
  <2>1. drops[n] \in [Addrs -> 0 .. MaxNodes]
    BY <1>0 DEF TypeOK, NodeMaps
  <2>2. [drops[n] EXCEPT ![b] = 0] \in NodeMaps
    BY <2>1 DEF NodeMaps
  <2>3. drops' = [drops EXCEPT ![n] = [drops[n] EXCEPT ![b] = 0]]
    BY <1>0 DEF DropNode, TypeOK
  <2> QED
    BY <1>0, <2>2, <2>3 DEF TypeOK
<1>6. closed' = IF refcnt[b][j] = 1 THEN closed \cup {<<b, j>>} ELSE closed
  BY DEF DropNode, Released
<1>7. UNCHANGED <<nodes, prevNodes, made, reloads, waitVars>>
  BY DEF DropNode
<1>8. TypeOK'
  <2>1. closed' \subseteq Addrs \X Nodes
    BY <1>0, <1>1, <1>6 DEF TypeOK
  <2> QED
    BY <1>0, <1>4, <1>5, <1>7, <2>1 DEF TypeOK, waitVars
<1>9. MapsBounded'
  <2>1. \A m \in 1 .. MaxReloads, a \in Addrs :
           drops'[m][a] = IF m = n /\ a = b THEN 0 ELSE drops[m][a]
    BY <1>0 DEF DropNode, TypeOK, NodeMaps
  <2>2. \A a \in Addrs : made[a] \in Nat
    BY <1>0 DEF TypeOK
  <2> QED
    BY <1>0, <1>7, <2>1, <2>2 DEF MapsBounded
<1>10. Counted'
  <2> SUFFICES ASSUME NEW a \in Addrs, NEW i \in Nodes PROVE refcnt'[a][i] >= Holders(a, i)'
    BY DEF Counted
  <2>1. refcnt'[a][i] - Holders(a, i)' = refcnt[a][i] - Holders(a, i)
    BY <1>0, DropBalance
  <2>2. Holders(a, i) \in Nat /\ Holders(a, i)' \in Nat
    BY HoldersType, HoldersNext
  <2>3. refcnt[a][i] >= Holders(a, i)
    BY <1>0 DEF Counted
  <2>4. refcnt[a][i] \in Nat /\ refcnt'[a][i] \in Nat
    BY <1>0, <1>4 DEF TypeOK
  <2> QED
    BY SMTT(30), <2>1, <2>2, <2>3, <2>4
<1>11. ClosedWhenReleased'
  <2> SUFFICES ASSUME NEW a \in Addrs, NEW i \in Nodes
               PROVE  <<a, i>> \in closed' <=> (i <= made'[a] /\ refcnt'[a][i] = 0)
    BY DEF ClosedWhenReleased
  <2>1. made'[a] = made[a]
    BY <1>7
  <2>2. <<a, i>> \in closed <=> (i <= made[a] /\ refcnt[a][i] = 0)
    BY <1>0 DEF ClosedWhenReleased
  <2>3. CASE a = b /\ i = j
    BY SMTT(30), <1>1, <1>2, <1>3, <1>6, <2>1, <2>2, <2>3
  <2>4. CASE ~(a = b /\ i = j)
    <3>1. <<a, i>> # <<b, j>>
      BY <2>4
    <3>2. <<a, i>> \in closed' <=> <<a, i>> \in closed
      BY <1>6, <3>1
    <3> QED
      BY <1>3, <2>1, <2>2, <2>4, <3>2
  <2> QED
    BY <2>3, <2>4
<1> QED
  BY <1>8, <1>9, <1>10, <1>11 DEF NodeInv

\* Every step preserves the invariant.
LEMMA NodeInvStep == NodeInv /\ [Next]_vars => NodeInv'
<1> SUFFICES ASSUME NodeInv, [Next]_vars PROVE NodeInv'
  OBVIOUS
<1> USE NodesAssumption
<1>0. TypeOK /\ MapsBounded
  BY DEF NodeInv
<1>1. ASSUME NEW addrs \in Reports, UpdateMappings(addrs) PROVE NodeInv'
  <2>1. TypeOK' /\ MapsBounded' /\ \A a \in Addrs : nodes'[a] \in {0, nodes[a], prevNodes[a], made[a] + 1}
    BY <1>1, UpdateMaps
  <2>2. \A a \in Addrs, i \in Nodes :
           refcnt'[a][i] - Holders(a, i)' = refcnt[a][i] - Holders(a, i)
    BY <1>0, <1>1, UpdateBalance
  <2>3. nodes' \in [Addrs -> Nat]
    BY <2>1 DEF TypeOK, NodeMaps
  <2>4. refcnt' = AddRefs(NodesFor(addrs)) /\ made' = AddMade(NodesFor(addrs))
        /\ closed' = closed /\ nodes' = NodesFor(addrs)
    BY <1>1 DEF UpdateMappings
  <2>5. NodesFor(addrs) \in [Addrs -> Nat]
        /\ \A a \in Addrs : NodesFor(addrs)[a] \in {0, nodes[a], prevNodes[a], made[a] + 1}
    BY <2>1, <2>3, <2>4
  <2>6. Counted' /\ ClosedWhenReleased'
    BY <2>2, <2>4, <2>5, TakenNodes
  <2> QED
    BY <2>1, <2>6 DEF NodeInv
<1>2. ASSUME NEW f \in Callbacks, AddNode(f) PROVE NodeInv'
  <2>1. TypeOK' /\ MapsBounded'
    BY <1>2, AddMaps
  <2>2. \A a \in Addrs, i \in Nodes :
           refcnt'[a][i] - Holders(a, i)' = refcnt[a][i] - Holders(a, i)
    BY <1>0, <1>2, AddBalance
  <2>3. CASE nodes[caddr[f]] # 0
    <3>1. UNCHANGED mapVars
      BY <1>2, <2>3 DEF AddNode, mapVars
    <3> QED
      BY <2>1, <3>1, MapsAlone
  <2>4. CASE nodes[caddr[f]] = 0
    <3> DEFINE map == NodeToAdd(caddr[f])
    <3>1. refcnt' = AddRefs(map) /\ made' = AddMade(map) /\ closed' = closed
      BY <1>2, <2>4 DEF AddNode
    <3>2. map \in [Addrs -> Nat]
          /\ \A a \in Addrs : map[a] \in {0, nodes[a], prevNodes[a], made[a] + 1}
      BY <1>0 DEF NodeToAdd, TypeOK, NodeMaps
    <3> HIDE DEF map
    <3>3. Counted' /\ ClosedWhenReleased'
      BY <2>2, <3>1, <3>2, TakenNodes
    <3> QED
      BY <2>1, <3>3 DEF NodeInv
  <2> QED
    BY <2>3, <2>4
<1>3. ASSUME NEW f \in Callbacks,
             EnsureConn(f) \/ Wait(f) \/ DeletePromise(f) \/ RunCallback(f)
      PROVE  NodeInv'
  <2>1. TypeOK' /\ UNCHANGED mapVars
    BY <1>0, <1>3, WaitSteps
  <2> QED
    BY <2>1, MapsAlone
<1>4. ASSUME UNCHANGED vars PROVE NodeInv'
  <2>1. TypeOK' /\ UNCHANGED mapVars
    BY <1>0, <1>4 DEF TypeOK, vars, mapVars, waitVars
  <2> QED
    BY <2>1, MapsAlone
<1> QED
  BY <1>1, <1>2, <1>3, <1>4, DropMaps DEF Next, Stopped

\* All the maps, counts and queues of nodes are well-typed in every reachable
\* state; in particular no count goes below zero.
THEOREM NodesTypeCorrect == Spec => []TypeOK
<1>1. NodeInv => TypeOK
  BY DEF NodeInv
<1> QED
  BY <1>1, NodeInvInit, NodeInvStep, PTL DEF Spec

\* The node requests are sent through is never closed by the delayed drop of
\* an old map, also when addresses were given to NewCluster twice.
THEOREM CurrentNodesStayOpen == Spec => []CurrentNodesOpen
<1>1. ASSUME NodeInv PROVE CurrentNodesOpen
  <2> SUFFICES ASSUME NEW a \in Addrs PROVE <<a, nodes[a]>> \notin closed
    BY DEF CurrentNodesOpen
  <2>0. TypeOK /\ Counted /\ ClosedWhenReleased
    BY <1>1 DEF NodeInv
  <2>1. CASE nodes[a] \in Nodes
    <3>1. Holders(a, nodes[a]) \in Nat /\ Holders(a, nodes[a]) > 0
      BY <2>1, HoldersType
    <3>2. refcnt[a][nodes[a]] >= Holders(a, nodes[a]) /\ refcnt[a][nodes[a]] \in Nat
      BY <2>0, <2>1 DEF Counted, TypeOK
    <3>3. refcnt[a][nodes[a]] # 0
      BY <3>1, <3>2
    <3> QED
      BY <2>0, <2>1, <3>3 DEF ClosedWhenReleased
  <2>2. CASE nodes[a] \notin Nodes
    BY <2>0, <2>2 DEF TypeOK
  <2> QED
    BY <2>1, <2>2
<1> QED
  BY <1>1, NodeInvInit, NodeInvStep, PTL DEF Spec

-----------------------------------------------------------------------------
(* Exact counts, for distinct seed addresses *)

\* Initially the one node of an address is held by the current map.
LEMMA ExactInit == DistinctSeeds /\ Init => RefcountExact
<1> SUFFICES ASSUME DistinctSeeds, Init, NEW a \in Addrs, NEW i \in Nodes
             PROVE  refcnt[a][i] = Holders(a, i)
  BY DEF RefcountExact
<1> USE NodesAssumption
<1>1. Dropping(a, i) = {}
  BY DEF Init, NoNodes, Dropping, Nodes
<1>2. Cardinality(Dropping(a, i)) = 0
  BY <1>1, FS_EmptySet
<1>3. nodes[a] = made[a] /\ prevNodes[a] = 0 /\ i \in Nat \ {0}
  BY DEF Init, NoNodes, Nodes
<1>4. made[a] \in Nat /\ made[a] <= 1
  BY OccurrencesType DEF Init, DistinctSeeds
<1>5. refcnt[a][i] = IF i <= made[a] THEN 1 ELSE 0
  BY DEF Init
<1> QED
  BY <1>2, <1>3, <1>4, <1>5 DEF Holders

\* Every step changes the count of a node and the number of its holders alike.
LEMMA ExactStep == NodeInv /\ RefcountExact /\ [Next]_vars => RefcountExact'
<1> SUFFICES ASSUME NodeInv, RefcountExact, [Next]_vars, NEW a \in Addrs, NEW i \in Nodes
             PROVE  refcnt'[a][i] = Holders(a, i)'
  BY DEF RefcountExact
<1>0. TypeOK /\ MapsBounded /\ refcnt[a][i] = Holders(a, i)
  BY DEF NodeInv, RefcountExact
<1>1. Holders(a, i) \in Nat /\ Holders(a, i)' \in Nat
  BY HoldersType, HoldersNext
<1>2. refcnt'[a][i] \in Nat
  <2>1. TypeOK'
    BY NodeInvStep DEF NodeInv
  <2> QED
    BY <2>1 DEF TypeOK
<1>3. refcnt'[a][i] - Holders(a, i)' = refcnt[a][i] - Holders(a, i)
  <2>1. ASSUME NEW f \in Callbacks,
               EnsureConn(f) \/ Wait(f) \/ DeletePromise(f) \/ RunCallback(f)
        PROVE  UNCHANGED mapVars
    BY <1>0, <2>1, WaitSteps
  <2>2. ASSUME UNCHANGED mapVars
        PROVE  refcnt'[a][i] - Holders(a, i)' = refcnt[a][i] - Holders(a, i)
    BY <2>2 DEF mapVars, Holders, Dropping
  <2>3. UNCHANGED vars => UNCHANGED mapVars
    BY DEF vars
  <2> QED
    BY <1>0, <2>1, <2>2, <2>3, UpdateBalance, AddBalance, DropBalance DEF Next, Stopped
<1> QED
  BY <1>0, <1>1, <1>2, <1>3

\* node.refcnt is exactly the number of maps that hold the node, for any
\* interleaving of reloads, redirects and delayed drops, if no address is
\* given to NewCluster twice.
THEOREM RefcountsAreExact == DistinctSeeds /\ Spec => []RefcountExact
<1>1. ASSUME DistinctSeeds PROVE Spec => []RefcountExact
  <2>1. Init => RefcountExact /\ NodeInv
    BY <1>1, ExactInit, NodeInvInit
  <2>2. RefcountExact /\ NodeInv /\ [Next]_vars => (RefcountExact /\ NodeInv)'
    BY ExactStep, NodeInvStep
  <2> QED
    BY <2>1, <2>2, PTL DEF Spec
<1> QED
  BY <1>1

\* A node leaves all maps only by being closed, if no address is given to
\* NewCluster twice (README, section 4, says what happens otherwise).
THEOREM NothingLeaks == DistinctSeeds /\ Spec => []NoLeakedNode
<1>1. NodeInv /\ RefcountExact => NoLeakedNode
  <2> SUFFICES ASSUME NodeInv, RefcountExact, NEW a \in Addrs, NEW i \in Nodes,
                      i <= made[a], <<a, i>> \notin closed
               PROVE  Holders(a, i) > 0
    BY DEF NoLeakedNode
  <2>1. refcnt[a][i] # 0
    BY DEF NodeInv, ClosedWhenReleased
  <2> QED
    BY <2>1, HoldersType DEF RefcountExact
<1>2. Spec => []NodeInv
  BY NodeInvInit, NodeInvStep, PTL DEF Spec
<1> QED
  BY <1>1, <1>2, RefcountsAreExact, PTL

-----------------------------------------------------------------------------
(* Callbacks that wait for a node *)

\* Callback f is the i-th that goroutine g of queues q has to run.
Sits(q, f, g, i) == g \in Callbacks /\ i \in DOMAIN q[g] /\ q[g][i] = f

\* A callback that is queued was passed in and not run; it is queued once; it
\* was passed in exactly if it was run, once, or is queued.
QueueInv ==
    /\ \A f \in Callbacks : called[f] \in {0, 1}
    /\ \A f \in Callbacks : \A g, i : Sits(queue, f, g, i) => cpc[f] = "passed" /\ called[f] = 0
    /\ \A f \in Callbacks : \A g, h, i, j :
          Sits(queue, f, g, i) /\ Sits(queue, f, h, j) => g = h /\ i = j
    /\ \A f \in Callbacks : called[f] = 1 => cpc[f] = "passed"
    /\ \A f \in Callbacks : cpc[f] = "passed" => called[f] = 1 \/ \E g, i : Sits(queue, f, g, i)

LEMMA QueueInit == Init => QueueInv
BY DEF Init, QueueInv, Sits

\* The first callback of a queue is taken off.
LEMMA QueueTail ==
    ASSUME TypeOK, NEW g \in Callbacks, queue[g] # <<>>,
           queue' = [queue EXCEPT ![g] = Tail(@)]
    PROVE  /\ Head(queue[g]) \in Callbacks /\ Sits(queue, Head(queue[g]), g, 1)
           /\ \A x, i : Sits(queue', x, g, i) => i \in Nat /\ i # 0 /\ Sits(queue, x, g, i + 1)
           /\ \A x, i : i # 1 /\ Sits(queue, x, g, i) => i \in Nat /\ Sits(queue', x, g, i - 1)
           /\ \A x, h, i : h # g => (Sits(queue', x, h, i) <=> Sits(queue, x, h, i))
<1>1. queue[g] \in Seq(Callbacks) /\ queue \in [Callbacks -> Seq(Callbacks)]
  BY DEF TypeOK
<1>2. PICK s : s = queue[g]
  OBVIOUS
<1>3. s \in Seq(Callbacks) /\ s # <<>>
  BY <1>1, <1>2
<1>4. PICK n : n = Len(s)
  OBVIOUS
<1>5. n \in Nat /\ n # 0 /\ DOMAIN s = 1 .. n
  BY <1>3, <1>4
<1>6. Head(s) = s[1] /\ s[1] \in Callbacks
  BY <1>3, <1>4, <1>5
<1>7. DOMAIN Tail(s) = 1 .. n - 1 /\ \A i \in 1 .. n - 1 : Tail(s)[i] = s[i + 1]
  BY <1>3, <1>4, <1>5
<1>8. queue'[g] = Tail(s) /\ \A h \in Callbacks : h # g => queue'[h] = queue[h]
  BY <1>1, <1>2
<1>9. 1 \in 1 .. n
  BY <1>5
<1>10. ASSUME NEW x, NEW i, Sits(queue', x, g, i)
       PROVE  i \in Nat /\ i # 0 /\ Sits(queue, x, g, i + 1)
  <2>1. i \in 1 .. n - 1 /\ s[i + 1] = x
    BY <1>7, <1>8, <1>10 DEF Sits
  <2>2. i \in Nat /\ i # 0 /\ i + 1 \in 1 .. n
    BY <1>5, <2>1
  <2> QED BY <1>2, <1>5, <2>1, <2>2 DEF Sits
<1>11. ASSUME NEW x, NEW i, i # 1, Sits(queue, x, g, i)
       PROVE  i \in Nat /\ Sits(queue', x, g, i - 1)
  <2>1. i \in 1 .. n /\ s[i] = x
    BY <1>2, <1>5, <1>11 DEF Sits
  <2>2. PICK j : j = i - 1
    OBVIOUS
  <2>3. i \in Nat /\ j \in 1 .. n - 1 /\ j + 1 = i
    BY <1>5, <1>11, <2>1, <2>2
  <2>4. Sits(queue', x, g, j)
    BY <1>7, <1>8, <2>1, <2>3 DEF Sits
  <2> QED BY <2>2, <2>3, <2>4
<1>12. Head(queue[g]) \in Callbacks /\ Sits(queue, Head(queue[g]), g, 1)
  BY <1>2, <1>5, <1>6, <1>9 DEF Sits
<1>13. \A x, h, i : h # g => (Sits(queue', x, h, i) <=> Sits(queue, x, h, i))
  BY <1>8 DEF Sits
<1> QED BY <1>10, <1>11, <1>12, <1>13

LEMMA QueueStep == ASSUME TypeOK, QueueInv, [Next]_vars PROVE QueueInv'
<1>0. /\ \A f \in Callbacks : called[f] \in {0, 1}
      /\ called \in [Callbacks -> Nat] /\ cpc \in [Callbacks -> {"idle", "missed", "passed"}]
  BY DEF TypeOK, QueueInv
<1>1. ASSUME UNCHANGED <<cpc, queue, called>> PROVE QueueInv'
  BY <1>1 DEF QueueInv
<1>2. ASSUME NEW f \in Callbacks, EnsureConn(f) PROVE QueueInv'
  <2>1. cpc[f] = "idle" /\ queue' = queue
    BY <1>2 DEF EnsureConn
  <2>2. called[f] = 0 /\ \A g, i : ~Sits(queue, f, g, i)
    BY <1>0, <2>1 DEF QueueInv
  <2>3. \/ called' = [called EXCEPT ![f] = called[f] + 1] /\ cpc' = [cpc EXCEPT ![f] = "passed"]
        \/ called' = called /\ cpc' = [cpc EXCEPT ![f] = "missed"]
    BY <1>2 DEF EnsureConn, Run
  <2>4. /\ \A x \in Callbacks : x # f => called'[x] = called[x] /\ cpc'[x] = cpc[x]
        /\ \/ called'[f] = 1 /\ cpc'[f] = "passed"
           \/ called'[f] = 0 /\ cpc'[f] = "missed"
    BY <1>0, <2>2, <2>3
  <2> QED BY <1>0, <2>1, <2>2, <2>4 DEF QueueInv
<1>3. ASSUME NEW f \in Callbacks, Wait(f) PROVE QueueInv'
  <2>1. PICK g : g = IF promises[caddr[f]] # None THEN promises[caddr[f]] ELSE f
    OBVIOUS
  <2>2. g \in Callbacks
    BY <2>1 DEF TypeOK
  <2>3. /\ cpc[f] = "missed" /\ cpc' = [cpc EXCEPT ![f] = "passed"] /\ called' = called
        /\ queue' = [queue EXCEPT ![g] = Append(@, f)]
    BY <1>3, <2>1 DEF Wait
  <2>4. called[f] = 0 /\ \A h, i : ~Sits(queue, f, h, i)
    BY <1>0, <2>3 DEF QueueInv
  <2>5. PICK n : n = Len(queue[g]) + 1
    OBVIOUS
  <2>6. cpc'[f] = "passed" /\ \A x \in Callbacks : x # f => cpc'[x] = cpc[x]
    BY <1>0, <2>3
  <2>7. \A x, h, i : Sits(queue', x, h, i) <=> Sits(queue, x, h, i) \/ (x = f /\ h = g /\ i = n)
    <3>1. queue[g] \in Seq(Callbacks) /\ queue \in [Callbacks -> Seq(Callbacks)]
      BY <2>2 DEF TypeOK
    <3>2. PICK s : s = queue[g]
      OBVIOUS
    <3>3. s \in Seq(Callbacks) /\ n \in Nat /\ n # 0 /\ n = Len(s) + 1
      BY <2>5, <3>1, <3>2
    <3>4. DOMAIN s = 1 .. n - 1
      BY <3>3
    <3>5. DOMAIN Append(s, f) = 1 .. n /\ Append(s, f)[n] = f /\ \A i \in 1 .. n - 1 : Append(s, f)[i] = s[i]
      BY <3>3
    <3>6. queue'[g] = Append(s, f) /\ \A h \in Callbacks : h # g => queue'[h] = queue[h]
      BY <2>2, <2>3, <3>1, <3>2
    <3>7. \A i : i \in 1 .. n <=> i \in 1 .. n - 1 \/ i = n
      BY <3>3
    <3>8. n \notin 1 .. n - 1
      BY <3>3
    <3>9. \A x, i : Sits(queue', x, g, i) <=> Sits(queue, x, g, i) \/ (x = f /\ i = n)
      BY <2>2, <3>2, <3>4, <3>5, <3>6, <3>7, <3>8 DEF Sits
    <3>10. \A x, h, i : h # g => (Sits(queue', x, h, i) <=> Sits(queue, x, h, i))
      BY <3>6 DEF Sits
    <3> SUFFICES ASSUME NEW x, NEW h, NEW i
                 PROVE  Sits(queue', x, h, i) <=> Sits(queue, x, h, i) \/ (x = f /\ h = g /\ i = n)
      OBVIOUS
    <3>11. CASE h = g
      BY <3>9, <3>11
    <3>12. CASE h # g
      BY <3>10, <3>12
    <3> QED BY <3>11, <3>12
  <2>8. \A x \in Callbacks : \A h, i : x # f => (Sits(queue', x, h, i) <=> Sits(queue, x, h, i))
    BY <2>7
  <2>9. \A h, i : Sits(queue', f, h, i) <=> h = g /\ i = n
    BY <2>4, <2>7
  <2>10. \A x \in Callbacks : \A h, k, i, j :
            Sits(queue', x, h, i) /\ Sits(queue', x, k, j) => h = k /\ i = j
    BY <2>8, <2>9 DEF QueueInv
  <2>11. \A x \in Callbacks : cpc'[x] = "passed" => called[x] = 1 \/ \E h, i : Sits(queue', x, h, i)
    BY <2>6, <2>8, <2>9 DEF QueueInv
  <2>12. \A x \in Callbacks : \A h, i : Sits(queue', x, h, i) => cpc'[x] = "passed" /\ called[x] = 0
    BY <2>4, <2>6, <2>8 DEF QueueInv
  <2>13. \A x \in Callbacks : called[x] = 1 => cpc'[x] = "passed"
    BY <2>6 DEF QueueInv
  <2> QED BY <1>0, <2>3, <2>10, <2>11, <2>12, <2>13 DEF QueueInv
<1>4. ASSUME NEW g \in Callbacks, RunCallback(g) PROVE QueueInv'
  <2>1. CASE queue[g] = <<>>
    BY <1>1, <1>4, <2>1 DEF RunCallback
  <2>2. CASE queue[g] # <<>>
    <3>1. PICK f : f = Head(queue[g])
      OBVIOUS
    <3>2. /\ called' = [called EXCEPT ![f] = called[f] + 1] /\ cpc' = cpc
          /\ queue' = [queue EXCEPT ![g] = Tail(@)]
      BY <1>4, <2>2, <3>1 DEF RunCallback, Run, Remaining
    <3>3. f \in Callbacks /\ Sits(queue, f, g, 1)
      BY <2>2, <3>1, <3>2, QueueTail
    <3>4. /\ \A x, i : Sits(queue', x, g, i) => i \in Nat /\ i # 0 /\ Sits(queue, x, g, i + 1)
          /\ \A x, i : i # 1 /\ Sits(queue, x, g, i) => i \in Nat /\ Sits(queue', x, g, i - 1)
          /\ \A x, h, i : h # g => (Sits(queue', x, h, i) <=> Sits(queue, x, h, i))
      BY <2>2, <3>2, QueueTail
    <3>5. called[f] = 0 /\ cpc[f] = "passed"
      BY <3>3 DEF QueueInv
    <3>6. called'[f] = 1 /\ \A x \in Callbacks : x # f => called'[x] = called[x]
      BY <1>0, <3>2, <3>3, <3>5
    <3>7. \A h, i : ~Sits(queue', f, h, i)
      <4> SUFFICES ASSUME NEW h, NEW i, Sits(queue', f, h, i) PROVE FALSE
        OBVIOUS
      <4>1. CASE h = g
        <5>1. i \in Nat /\ i # 0 /\ Sits(queue, f, g, i + 1)
          BY <3>4, <4>1
        <5>2. i + 1 = 1
          BY <3>3, <5>1 DEF QueueInv
        <5> QED BY <5>1, <5>2
      <4>2. CASE h # g
        BY <3>3, <3>4, <4>2 DEF QueueInv
      <4> QED BY <4>1, <4>2
    <3>8. ASSUME NEW x \in Callbacks, NEW h, NEW i, Sits(queue', x, h, i)
          PROVE  x # f /\ cpc[x] = "passed" /\ called[x] = 0
      BY <3>4, <3>7, <3>8 DEF QueueInv
    <3>9. ASSUME NEW x \in Callbacks, NEW h, NEW k, NEW i, NEW j, Sits(queue', x, h, i), Sits(queue', x, k, j)
          PROVE  h = k /\ i = j
      <4>1. CASE h = g /\ k = g
        <5>1. i \in Nat /\ j \in Nat /\ Sits(queue, x, g, i + 1) /\ Sits(queue, x, g, j + 1)
          BY <3>4, <3>9, <4>1
        <5>2. i + 1 = j + 1
          BY <5>1 DEF QueueInv
        <5> QED BY <4>1, <5>1, <5>2
      <4>2. CASE ~(h = g /\ k = g)
        BY <3>4, <3>9, <4>2 DEF QueueInv
      <4> QED BY <4>1, <4>2
    <3>10. ASSUME NEW x \in Callbacks, x # f, NEW h, NEW i, Sits(queue, x, h, i)
           PROVE  \E k, j : Sits(queue', x, k, j)
      <4>1. CASE h = g
        <5>1. i # 1
          BY <3>3, <3>10, <4>1 DEF Sits
        <5> QED BY <3>4, <3>10, <4>1, <5>1
      <4>2. CASE h # g
        BY <3>4, <3>10, <4>2
      <4> QED BY <4>1, <4>2
    <3>11. \A x \in Callbacks : cpc[x] = "passed" => called'[x] = 1 \/ \E k, j : Sits(queue', x, k, j)
      BY <3>6, <3>10 DEF QueueInv
    <3> QED BY <1>0, <3>2, <3>3, <3>5, <3>6, <3>8, <3>9, <3>11 DEF QueueInv
  <2> QED BY <2>1, <2>2
<1>5. CASE UNCHANGED vars
  BY <1>1, <1>5 DEF vars, waitVars
<1>6. CASE Next
  BY <1>1, <1>2, <1>3, <1>4, <1>6
  DEF Next, UpdateMappings, DropNode, AddNode, DeletePromise, Stopped, vars, waitVars
<1> QED BY <1>5, <1>6

\* Every callback passed to ensureConnForAddress waits in one list or was run
\* once, for any number of callbacks and goroutines, although reloads replace
\* the map of promises.
THEOREM CallbacksRunOnce == Spec => []CallbackOnce
<1>1. TypeOK /\ QueueInv => CallbackOnce
  <2> SUFFICES ASSUME TypeOK, QueueInv, NEW f \in Callbacks
               PROVE  called[f] + Cardinality(Queued(f)) = IF cpc[f] = "passed" THEN 1 ELSE 0
    BY DEF CallbackOnce
  <2>1. \A q : q \in Queued(f) <=> \E g, i : q = <<g, i>> /\ Sits(queue, f, g, i)
    BY DEF Queued, Sits
  <2>2. called[f] \in {0, 1} /\ (called[f] = 1 => cpc[f] = "passed")
    BY DEF QueueInv
  <2>3. CASE \E g, i : Sits(queue, f, g, i)
    <3>1. PICK g, i : Sits(queue, f, g, i)
      BY <2>3
    <3>2. Queued(f) = {<<g, i>>}
      BY <2>1, <3>1 DEF QueueInv
    <3>3. Cardinality({<<g, i>>}) = 1
      BY FS_Singleton
    <3>4. called[f] = 0 /\ cpc[f] = "passed"
      BY <3>1 DEF QueueInv
    <3> QED BY <3>2, <3>3, <3>4
  <2>4. CASE ~\E g, i : Sits(queue, f, g, i)
    <3>1. Queued(f) = {}
      BY <2>1, <2>4
    <3>2. Cardinality({}) = 0
      BY FS_EmptySet
    <3>3. cpc[f] = "passed" <=> called[f] = 1
      BY <2>2, <2>4 DEF QueueInv
    <3> QED BY <2>2, <3>1, <3>2, <3>3
  <2> QED BY <2>3, <2>4
<1> QED BY <1>1, QueueInit, QueueStep, NodesTypeCorrect, PTL DEF Spec

=============================================================================
