------------------------- MODULE ClusterSlotsProofs -------------------------
(***************************************************************************)
(* Proofs about ClusterSlots: what a request finds in the slot table, for  *)
(* any number of slots, shards and addresses and any capacity of the       *)
(* channel c.commands; and about SlotWords: the words of 32 bits hold that *)
(* table, for any ranges, shards and flags.                                *)
(***************************************************************************)
EXTENDS SlotTables, FiniteSetTheorems, FunctionTheorems, WellFoundedInduction, TLAPS

\* Every address of every shard has a node, also of the shards that no slot
\* is served by at the moment: a "moved" command may make one of them serve.
ShardsHaveNodes ==
    \A k \in DOMAIN shards : \A j \in DOMAIN shards[k] : shards[k][j] \in nodes

SlotsHaveShards == reloads > 0 => \A s \in Slots : slots[s].shard \in DOMAIN shards

Inv == TypeOK /\ ShardsHaveNodes /\ SlotsHaveShards

-----------------------------------------------------------------------------

LEMMA InitInv == Init => Inv
<1> SUFFICES ASSUME Init PROVE Inv
  OBVIOUS
<1>1. TypeOK
  <2>1. reloads \in 0 .. MaxReloads /\ movedLeft \in 0 .. MaxMoved
    BY SlotBoundsAssumption DEF Init
  <2>2. commands \in Seq(Commands) /\ Len(commands) <= CmdCap
    BY SlotBoundsAssumption DEF Init
  <2>3. slots \in [Slots -> SlotEntry] /\ shards \in Seq(Seq(Addrs)) /\ nodes \in SUBSET Addrs
    BY SlotBoundsAssumption DEF Init, SlotEntry
  <2> QED BY <2>1, <2>2, <2>3 DEF Init, TypeOK
<1>2. ShardsHaveNodes /\ SlotsHaveShards
  BY DEF Init, ShardsHaveNodes, SlotsHaveShards
<1> QED BY <1>1, <1>2 DEF Inv

\* updateMappings makes nodes for all the addresses it is told about and finds
\* a shard for every slot.
LEMMA ReloadFacts ==
    ASSUME TypeOK, NEW t \in Topologies, NEW f \in SUBSET Slots, Reload(t, f)
    PROVE  /\ nodes' \in SUBSET Addrs /\ shards' \in Seq(Seq(Addrs))
           /\ slots' \in [Slots -> SlotEntry] /\ reloads' \in 0 .. MaxReloads
           /\ force' \in SUBSET Slots
           /\ ShardsHaveNodes' /\ SlotsHaveShards'
<1> USE DEF Reload
<1>1. t \in TopologyType /\ \A s \in Slots : t.slots[s] \in 0 .. Len(t.shards)
  BY TopologiesAssumption
<1>2. t.shards \in Seq(Seq(Addrs))
  BY <1>1 DEF TopologyType
<1>3. nodes' \in SUBSET Addrs
  <2>1. \A k \in DOMAIN t.shards : t.shards[k] \in Seq(Addrs)
    BY <1>2
  <2>2. \A k \in DOMAIN t.shards : \A j \in DOMAIN t.shards[k] : t.shards[k][j] \in Addrs
    BY <2>1
  <2> QED BY <2>2 DEF Reported
<1>4. reloads' \in 0 .. MaxReloads
  BY SlotBoundsAssumption DEF TypeOK
<1>5. PICK random \in DOMAIN t.shards : slots' = SlotTable(t, random, f)
  OBVIOUS
<1>6. ASSUME NEW s \in Slots
      PROVE  slots'[s].shard \in DOMAIN t.shards /\ slots'[s] \in SlotEntry
  <2>1. slots'[s] = [shard |-> IF t.slots[s] = 0 THEN random ELSE t.slots[s],
                     asking |-> s \in f]
    BY <1>5 DEF SlotTable
  <2>2. DOMAIN t.shards = 1 .. Len(t.shards) /\ Len(t.shards) \in Nat
    BY <1>2
  <2>3. (IF t.slots[s] = 0 THEN random ELSE t.slots[s]) \in DOMAIN t.shards
    BY <1>1, <2>2
  <2>4. slots'[s].shard \in DOMAIN t.shards
    BY <2>1, <2>3
  <2>5. (s \in f) \in BOOLEAN
    OBVIOUS
  <2>6. (IF t.slots[s] = 0 THEN random ELSE t.slots[s]) \in Nat
    BY <2>2, <2>3
  <2> QED BY <2>1, <2>4, <2>5, <2>6 DEF SlotEntry
<1>7. slots' \in [Slots -> SlotEntry]
  <2>1. slots' = [s \in Slots |-> slots'[s]]
    BY <1>5 DEF SlotTable
  <2> QED BY <1>6, <2>1
<1>8. ShardsHaveNodes'
  <2>1. shards' = t.shards /\ nodes' = Reported(t)
    OBVIOUS
  <2>2. \A k \in DOMAIN t.shards : \A j \in DOMAIN t.shards[k] : t.shards[k][j] \in Reported(t)
    BY DEF Reported
  <2> QED BY <2>1, <2>2 DEF ShardsHaveNodes
<1>9. SlotsHaveShards'
  BY <1>6 DEF SlotsHaveShards
<1> QED BY <1>2, <1>3, <1>4, <1>7, <1>8, <1>9

LEMMA ReloadStep == ASSUME Inv, FirstReload \/ EndReload PROVE Inv'
<1>1. TypeOK /\ UNCHANGED <<ctxdone, asking, stale, forceVars, cmdVars>> /\ control' = "select"
  BY DEF Inv, FirstReload, EndReload
<1>2. CASE \E t \in Topologies, f \in {force, {}, migrating} : Reload(t, f)
  <2>1. PICK t \in Topologies, f \in {force, {}, migrating} : Reload(t, f)
    BY <1>2
  <2>2. f \in SUBSET Slots
    BY <1>1 DEF TypeOK
  <2>3. /\ nodes' \in SUBSET Addrs /\ shards' \in Seq(Seq(Addrs))
        /\ slots' \in [Slots -> SlotEntry] /\ reloads' \in 0 .. MaxReloads
        /\ force' \in SUBSET Slots /\ ShardsHaveNodes' /\ SlotsHaveShards'
    BY <1>1, <2>1, <2>2, ReloadFacts
  <2>4. TypeOK'
    BY <1>1, <2>3 DEF TypeOK, forceVars, cmdVars
  <2> QED BY <1>1, <2>3, <2>4 DEF Inv
<1>3. CASE UNCHANGED <<cfgVars, force>>
  BY <1>1, <1>3 DEF Inv, TypeOK, ShardsHaveNodes, SlotsHaveShards, cfgVars,
                    forceVars, cmdVars
<1> QED BY <1>2, <1>3 DEF FirstReload, EndReload

\* Steps that leave the configuration alone.
LEMMA QuietStep ==
    ASSUME Inv,
           \/ FirstReloadFails \/ TickReload \/ ForcedReload \/ AllowForced
           \/ ForceReloading \/ Close \/ ControlDone \/ ExecAsking
           \/ (\E s \in Slots : SendAsking(s) \/ Migrate(s) \/ \E a \in Addrs : SendMoved(s, a))
    PROVE  Inv'
<1>1. UNCHANGED <<cfgVars, force>>
  BY DEF FirstReloadFails, TickReload, ForcedReload, AllowForced, ForceReloading, Close,
         ControlDone, ExecAsking, SendAsking, Migrate, SendMoved, SendCommand, ctlVars, cfgVars
<1>2. commands' \in Seq(Commands) /\ Len(commands') <= CmdCap
  <2>1. commands \in Seq(Commands) /\ Len(commands) \in Nat /\ Len(commands) <= CmdCap /\ CmdCap \in Nat
    BY SlotBoundsAssumption DEF Inv, TypeOK
  <2>2. ASSUME NEW cmd \in Commands, SendCommand(cmd)
        PROVE  commands' \in Seq(Commands) /\ Len(commands') <= CmdCap
    BY <2>1, <2>2 DEF SendCommand, HasRoom
  <2>3. CASE \E s \in Slots : SendAsking(s) \/ \E a \in Addrs : SendMoved(s, a)
    BY <2>2, <2>3 DEF SendAsking, SendMoved, Commands
  <2>4. CASE ExecAsking
    BY <2>1, <2>4 DEF ExecAsking
  <2>5. CASE commands' = commands
    BY <2>1, <2>5
  <2>6. \/ ExecAsking \/ commands' = commands
        \/ \E s \in Slots : SendAsking(s) \/ \E a \in Addrs : SendMoved(s, a)
    BY DEF FirstReloadFails, TickReload, ForcedReload, AllowForced, ForceReloading, Close,
           ControlDone, Migrate, cmdVars
  <2> QED BY <2>3, <2>4, <2>5, <2>6
<1>3. movedLeft' \in 0 .. MaxMoved /\ migrating' \in SUBSET Slots
  <2>1. movedLeft \in 0 .. MaxMoved /\ MaxMoved \in Nat /\ migrating \in SUBSET Slots
    BY SlotBoundsAssumption DEF Inv, TypeOK
  <2>2. movedLeft' = movedLeft \/ (movedLeft > 0 /\ movedLeft' = movedLeft - 1)
    BY DEF FirstReloadFails, TickReload, ForcedReload, AllowForced, ForceReloading, Close,
           ControlDone, ExecAsking, SendAsking, Migrate, SendMoved, cmdVars
  <2>3. migrating' = migrating \/ \E s \in Slots : Migrate(s)
    BY DEF FirstReloadFails, TickReload, ForcedReload, AllowForced, ForceReloading, Close,
           ControlDone, ExecAsking, SendAsking, SendMoved, SendCommand, cmdVars
  <2>4. movedLeft' \in 0 .. MaxMoved
    BY <2>1, <2>2
  <2>5. migrating' \in SUBSET Slots
    BY <2>1, <2>3 DEF Migrate
  <2> QED BY <2>4, <2>5
<1>4. asking' \in SUBSET Slots
  <2>1. ExecAsking => Head(commands) \in Commands
    BY DEF ExecAsking, Inv, TypeOK
  <2>2. ExecAsking => Head(commands).slot \in Slots
    BY <2>1 DEF Commands
  <2> QED BY <2>2 DEF Inv, TypeOK, FirstReloadFails, TickReload, ForcedReload, AllowForced,
           ForceReloading, Close, ControlDone, ExecAsking, SendAsking, Migrate, SendMoved,
           SendCommand, ctlVars
<1>5. control' \in {"init", "select", "reload", "ended"}
  BY DEF Inv, TypeOK, FirstReloadFails, TickReload, ForcedReload, AllowForced, ForceReloading,
         Close, ControlDone, ExecAsking, SendAsking, Migrate, SendMoved, SendCommand, ctlVars
<1>6. ctxdone' \in BOOLEAN /\ stale' \in BOOLEAN /\ armed' \in BOOLEAN /\ forced' \in BOOLEAN
  BY Zenon DEF Inv, TypeOK, FirstReloadFails, TickReload, ForcedReload, AllowForced, ForceReloading,
         Close, ControlDone, ExecAsking, SendAsking, Migrate, SendMoved, SendCommand, ctlVars,
         forceVars, Rearmed
<1>7. TypeOK'
  BY <1>1, <1>2, <1>3, <1>4, <1>5, <1>6 DEF Inv, TypeOK, cfgVars
<1> QED BY <1>1, <1>7 DEF Inv, ShardsHaveNodes, SlotsHaveShards, cfgVars

\* A "moved" command gives the slot to a shard that has this master.
LEMMA ExecMovedStep == ASSUME Inv, ExecMoved PROVE Inv'
<1> DEFINE cmd == Head(commands)
<1> USE DEF ExecMoved
<1>1. TypeOK /\ UNCHANGED <<nodes, shards, reloads, ctlVars, forceVars, movedLeft, migrating, force>>
  BY DEF Inv
<1>2. commands' \in Seq(Commands) /\ Len(commands') <= CmdCap
  <2>1. commands \in Seq(Commands) /\ Len(commands) <= CmdCap /\ CmdCap \in Nat
        /\ commands # <<>> /\ commands' = Tail(commands)
    BY <1>1, SlotBoundsAssumption DEF TypeOK
  <2> QED BY <2>1
<1>3. shards \in Seq(Seq(Addrs)) /\ slots \in [Slots -> SlotEntry]
  BY <1>1 DEF TypeOK
<1>4. cmd.addr \in MastersOf(shards) => ShardOf(cmd.addr) \in DOMAIN shards
  BY DEF MastersOf, ShardOf
<1>5. DOMAIN shards \subseteq Nat
  BY <1>3
<1>6. slots' \in [Slots -> SlotEntry]
      /\ \A s \in Slots : slots'[s] = slots[s] \/ slots'[s].shard \in DOMAIN shards
  <2>1. CASE UNCHANGED slots
    BY <1>3, <2>1
  <2>2. CASE /\ cmd.addr \in MastersOf(shards)
             /\ slots' = [slots EXCEPT ![cmd.slot] =
                            [shard |-> ShardOf(cmd.addr), asking |-> FALSE]]
    <3>1. [shard |-> ShardOf(cmd.addr), asking |-> FALSE] \in SlotEntry
      BY <1>4, <1>5, <2>2 DEF SlotEntry
    <3> HIDE DEF cmd
    <3> QED BY <1>3, <1>4, <2>2, <3>1
  <2> QED BY <2>1, <2>2
<1>7. TypeOK'
  BY <1>1, <1>2, <1>6 DEF TypeOK, ctlVars, forceVars
<1> QED BY <1>1, <1>6, <1>7 DEF Inv, ShardsHaveNodes, SlotsHaveShards, ctlVars

LEMMA MarkAskingStep == ASSUME Inv, MarkAsking PROVE Inv'
<1> USE DEF MarkAsking
<1>1. TypeOK
  BY DEF Inv
<1>2. ASSUME NEW s \in Slots PROVE Marked(s) \in SlotEntry /\ Marked(s).shard = slots[s].shard
  BY <1>1 DEF TypeOK, SlotEntry, Marked
<1>3. slots' \in [Slots -> SlotEntry] /\ \A s \in Slots : slots'[s].shard = slots[s].shard
  BY <1>1, <1>2 DEF TypeOK
<1>4. TypeOK'
  BY <1>1, <1>3 DEF TypeOK, forceVars, cmdVars
<1> QED BY <1>3, <1>4 DEF Inv, ShardsHaveNodes, SlotsHaveShards

LEMMA AddNodeStep == ASSUME Inv, NEW a \in Addrs, AddNode(a) PROVE Inv'
<1>1. TypeOK'
  BY DEF AddNode, Inv, TypeOK, forceVars, cmdVars
<1> QED BY <1>1 DEF AddNode, Inv, ShardsHaveNodes, SlotsHaveShards

LEMMA NextInv == Inv /\ [Next]_vars => Inv'
<1> SUFFICES ASSUME Inv, [Next]_vars PROVE Inv'
  OBVIOUS
<1>1. CASE FirstReload \/ EndReload
  BY <1>1, ReloadStep
<1>2. CASE \/ FirstReloadFails \/ TickReload \/ ForcedReload \/ AllowForced
           \/ ForceReloading \/ Close \/ ControlDone \/ ExecAsking
           \/ (\E s \in Slots : SendAsking(s) \/ Migrate(s) \/ \E a \in Addrs : SendMoved(s, a))
  BY <1>2, QuietStep
<1>3. CASE ExecMoved
  BY <1>3, ExecMovedStep
<1>4. CASE MarkAsking
  BY <1>4, MarkAskingStep
<1>5. CASE \E a \in Addrs : AddNode(a)
  BY <1>5, AddNodeStep
<1>6. CASE UNCHANGED vars
  BY <1>6 DEF vars, cfgVars, ctlVars, forceVars, cmdVars, Inv, TypeOK, ShardsHaveNodes,
              SlotsHaveShards
<1> QED BY <1>1, <1>2, <1>3, <1>4, <1>5, <1>6 DEF Next

\* Once NewCluster has returned a cluster, connForSlot finds a shard for every
\* slot and a node for every address of it, through reloads, MOVED answers,
\* marks for asking and nodes added in between; c.commands keeps its limit.
THEOREM SlotsAreServed == Spec => []SlotsInv
<1>1. Inv => SlotsInv
  BY DEF Inv, SlotsInv, SlotsServed, ShardsHaveNodes, SlotsHaveShards
<1> QED BY InitInv, NextInv, <1>1, PTL DEF Spec

-----------------------------------------------------------------------------
(* Numbers up to a bound, loops, sorting *)

\* A non-empty set of natural numbers has a least member.
LEMMA LeastNumber ==
    ASSUME NEW S \in SUBSET Nat, S # {}
    PROVE  \E x \in S : \A y \in S : x <= y
<1> DEFINE R == OpToRel(<, Nat)
<1>1. IsWellFoundedOn(R, Nat)
  BY NatLessThanWellFounded
<1>2. PICK x \in S : \A y \in S : ~ (<<y, x>> \in R)
  <2> HIDE DEF R
  <2> QED BY <1>1, WFMin
<1>3. \A y \in S : ~ (y < x)
  BY <1>2 DEF OpToRel
<1> QED BY <1>3

\* Induction up to N, for a set in place of a predicate.
LEMMA UpTo ==
    ASSUME NEW N \in Nat, NEW S, 0 \in S, \A i \in 1 .. N : i - 1 \in S => i \in S
    PROVE  \A i \in 0 .. N : i \in S
<1> DEFINE T == {i \in 0 .. N : i \notin S}
<1> SUFFICES ASSUME T # {} PROVE FALSE
  OBVIOUS
<1>1. T \in SUBSET Nat
  OBVIOUS
<1>2. PICK x \in T : \A y \in T : x <= y
  <2> HIDE DEF T
  <2> QED BY <1>1, LeastNumber
<1>3. x \in 1 .. N /\ x - 1 \in 0 .. N /\ ~ (x <= x - 1)
  OBVIOUS
<1>4. x - 1 \in S
  BY <1>2, <1>3
<1> QED BY <1>3, <1>4

\* A loop of N iterations, its body a function of the number of the iteration
\* and of the variables' values before it, has a run.
RunOf(f, V, v0, N, body) ==
    /\ f \in [0 .. N -> V]
    /\ f[0] = v0 /\ \A i \in 1 .. N : f[i] = body[<<i, f[i - 1]>>]

LEMMA LoopRuns ==
    ASSUME NEW V, NEW v0 \in V, NEW N \in Nat, NEW body \in [(1 .. N) \X V -> V]
    PROVE  \E f : RunOf(f, V, v0, N, body)
<1> DEFINE P(n, f) == f[0] = v0 /\ \A i \in 1 .. n : f[i] = body[<<i, f[i - 1]>>]
           S == {n \in 0 .. N : \E f \in [0 .. n -> V] : P(n, f)}
<1>1. 0 \in S
  <2> DEFINE f == [i \in 0 .. 0 |-> v0]
  <2>1. f \in [0 .. 0 -> V] /\ P(0, f)
    OBVIOUS
  <2> HIDE DEF f, P
  <2> QED BY <2>1
<1>2. ASSUME NEW n \in 1 .. N, n - 1 \in S PROVE n \in S
  <2>1. PICK f \in [0 .. n - 1 -> V] : P(n - 1, f)
    BY <1>2
  <2> DEFINE g == [i \in 0 .. n |-> IF i = n THEN body[<<n, f[n - 1]>>] ELSE f[i]]
  <2>2. f[n - 1] \in V
    OBVIOUS
  <2>3. body[<<n, f[n - 1]>>] \in V
    BY <2>2
  <2>4. g \in [0 .. n -> V]
    BY <2>3
  <2>5. g[0] = v0
    BY <2>1
  <2>6. ASSUME NEW i \in 1 .. n PROVE g[i] = body[<<i, g[i - 1]>>]
    <3>1. CASE i = n
      <4>1. g[i] = body[<<n, f[n - 1]>>] /\ g[i - 1] = f[n - 1]
        BY <3>1
      <4> HIDE DEF g
      <4> QED BY <3>1, <4>1
    <3>2. CASE i # n
      <4>1. i \in 1 .. n - 1 /\ i - 1 \in 0 .. n - 1 /\ i - 1 # n
        BY <3>2
      <4>2. g[i] = f[i] /\ g[i - 1] = f[i - 1]
        BY <3>2, <4>1
      <4> HIDE DEF g
      <4> QED BY <2>1, <4>1, <4>2
    <3> QED BY <3>1, <3>2
  <2> HIDE DEF g
  <2> QED BY <2>4, <2>5, <2>6
<1>3. N \in S
  <2> HIDE DEF S
  <2> QED BY <1>1, <1>2, UpTo
<1>4. PICK f \in [0 .. N -> V] : P(N, f)
  BY <1>3
<1>5. RunOf(f, V, v0, N, body)
  BY <1>4 DEF RunOf
<1> QED BY <1>5
-----------------------------------------------------------------------------
(* Sorting *)

\* In a finite set some member has the greatest key.
LEMMA GreatestKey ==
    ASSUME NEW S, IsFiniteSet(S), S # {}, NEW key \in [S -> Int]
    PROVE  \E x \in S : \A y \in S : key[y] <= key[x]
<1> DEFINE N == Cardinality(S)
           Good == {n \in 0 .. N : \A T \in SUBSET S : Cardinality(T) = n /\ T # {} =>
                                    \E x \in T : \A y \in T : key[y] <= key[x]}
<1>1. N \in Nat
  BY FS_CardinalityType
<1>2. \A T \in SUBSET S : IsFiniteSet(T)
  BY FS_Subset
<1> HIDE DEF N
<1>3. 0 \in Good
  BY <1>1, <1>2, FS_EmptySet
<1>4. ASSUME NEW n \in 1 .. N, n - 1 \in Good PROVE n \in Good
  <2> SUFFICES ASSUME NEW T \in SUBSET S, Cardinality(T) = n, T # {}
               PROVE  \E x \in T : \A y \in T : key[y] <= key[x]
    OBVIOUS
  <2>1. PICK x \in T : TRUE
    OBVIOUS
  <2>2. Cardinality(T \ {x}) = n - 1
    BY <1>2, FS_RemoveElement
  <2>3. CASE T \ {x} = {}
    BY <2>1, <2>3
  <2>4. CASE T \ {x} # {}
    <3>1. PICK z \in T \ {x} : \A y \in T \ {x} : key[y] <= key[z]
      BY <1>4, <2>2, <2>4
    <3>2. CASE key[x] <= key[z]
      BY <3>1, <3>2
    <3>3. CASE ~ (key[x] <= key[z])
      BY <3>1, <3>3
    <3> QED BY <3>2, <3>3
  <2> QED BY <2>3, <2>4
<1>5. N \in Good
  <2> HIDE DEF Good
  <2> QED BY <1>1, <1>3, <1>4, UpTo
<1> QED BY <1>5 DEF N

Ordered(q, n, key) == \A i, j \in 1 .. n : i < j => key[q[i]] < key[q[j]]

\* A finite set whose members have different keys can be sorted.
LEMMA Sortable ==
    ASSUME NEW S, IsFiniteSet(S), NEW key \in [S -> Int],
           \A x, y \in S : key[x] = key[y] => x = y
    PROVE  \E q \in [1 .. Cardinality(S) -> S] : Ordered(q, Cardinality(S), key)
<1> DEFINE N == Cardinality(S)
           Good == {n \in 0 .. N : \A T \in SUBSET S : Cardinality(T) = n =>
                                    \E q \in [1 .. n -> T] : Ordered(q, n, key)}
<1>1. N \in Nat
  BY FS_CardinalityType
<1>2. \A T \in SUBSET S : IsFiniteSet(T)
  BY FS_Subset
<1> HIDE DEF N
<1>3. 0 \in Good
  <2>1. ASSUME NEW T \in SUBSET S PROVE \E q \in [1 .. 0 -> T] : Ordered(q, 0, key)
    <3>1. [i \in 1 .. 0 |-> 0] \in [1 .. 0 -> T] /\ Ordered([i \in 1 .. 0 |-> 0], 0, key)
      BY DEF Ordered
    <3> QED BY <3>1
  <2> QED BY <1>1, <2>1
<1>4. ASSUME NEW n \in 1 .. N, n - 1 \in Good PROVE n \in Good
  <2> SUFFICES ASSUME NEW T \in SUBSET S, Cardinality(T) = n
               PROVE  \E q \in [1 .. n -> T] : Ordered(q, n, key)
    OBVIOUS
  <2>1. PICK x \in T : \A y \in T : key[y] <= key[x]
    <3>1. T # {} /\ IsFiniteSet(T)
      BY <1>2, FS_EmptySet
    <3> DEFINE k == [y \in T |-> key[y]]
    <3>2. k \in [T -> Int]
      OBVIOUS
    <3>3. \E x \in T : \A y \in T : k[y] <= k[x]
      <4> HIDE DEF k
      <4> QED BY <3>1, <3>2, GreatestKey
    <3> QED BY <3>3
  <2>2. Cardinality(T \ {x}) = n - 1
    BY <1>2, FS_RemoveElement
  <2>3. PICK p \in [1 .. n - 1 -> T \ {x}] : Ordered(p, n - 1, key)
    BY <1>4, <2>2
  <2> DEFINE q == [i \in 1 .. n |-> IF i = n THEN x ELSE p[i]]
  <2>4. \A i \in 1 .. n - 1 : p[i] \in T \ {x}
    BY <2>3
  <2>5. q \in [1 .. n -> T]
    BY <2>4
  <2>6. ASSUME NEW i \in 1 .. n, NEW j \in 1 .. n, i < j PROVE key[q[i]] < key[q[j]]
    <3>1. i \in 1 .. n - 1 /\ q[i] = p[i]
      BY <2>6
    <3>2. CASE j = n
      <4>1. p[i] \in T /\ p[i] # x /\ q[j] = x
        BY <2>4, <3>1, <3>2
      <4>2. key[p[i]] <= key[x] /\ key[p[i]] # key[x] /\ key[p[i]] \in Int /\ key[x] \in Int
        BY <2>1, <4>1
      <4> QED BY <3>1, <4>1, <4>2
    <3>3. CASE j # n
      <4>1. j \in 1 .. n - 1 /\ q[j] = p[j]
        BY <3>3
      <4> HIDE DEF q
      <4> QED BY <2>3, <2>6, <3>1, <4>1 DEF Ordered
    <3> QED BY <3>2, <3>3
  <2> HIDE DEF q
  <2> QED BY <2>5, <2>6 DEF Ordered
<1>5. N \in Good
  <2> HIDE DEF Good
  <2> QED BY <1>1, <1>3, <1>4, UpTo
<1> QED BY <1>5 DEF N

\* What sort.Slice and sort.Strings leave: every member once, in order.
LEMMA SortedFacts ==
    ASSUME NEW S, IsFiniteSet(S), NEW key \in [S -> Int],
           \A x, y \in S : key[x] = key[y] => x = y
    PROVE  /\ SortedBy(S, key) \in [1 .. Cardinality(S) -> S]
           /\ Ordered(SortedBy(S, key), Cardinality(S), key)
           /\ \A x \in S : \E i \in 1 .. Cardinality(S) : SortedBy(S, key)[i] = x
<1> DEFINE N == Cardinality(S)
           q == SortedBy(S, key)
<1>1. N \in Nat
  BY FS_CardinalityType
<1>2. q \in [1 .. N -> S] /\ Ordered(q, N, key)
  <2>1. \E p \in [1 .. N -> S] : Ordered(p, N, key)
    BY Sortable
  <2>2. q = CHOOSE p \in [1 .. N -> S] : Ordered(p, N, key)
    BY DEF SortedBy, Ordered
  <2> HIDE DEF q, N
  <2> QED BY <2>1, <2>2
<1> HIDE DEF q
<1>3. q \in Injection(1 .. N, S)
  <2> HIDE DEF N
  <2>1. ASSUME NEW i \in 1 .. N, NEW j \in 1 .. N, q[i] = q[j] PROVE i = j
    <3>1. q[i] \in S /\ key[q[i]] \in Int
      BY <1>2
    <3>2. ~ (key[q[i]] < key[q[j]]) /\ ~ (key[q[j]] < key[q[i]])
      BY <2>1, <3>1
    <3>3. ~ (i < j) /\ ~ (j < i)
      BY <1>2, <3>2 DEF Ordered
    <3> QED BY <1>1, <3>3
  <2> QED BY <1>2, <2>1 DEF Injection, IsInjective
<1>4. Cardinality(1 .. N) = N /\ IsFiniteSet(1 .. N)
  <2> HIDE DEF N
  <2> QED BY <1>1, FS_Interval
<1>5. q \in Surjection(1 .. N, S)
  BY <1>3, <1>4, FS_Injection
<1>6. \A x \in S : \E i \in 1 .. N : q[i] = x
  <2> HIDE DEF N
  <2> QED BY <1>5 DEF Surjection
<1> QED BY <1>2, <1>6 DEF q

\* Sorting leaves no choice.
LEMMA SameOrder ==
    ASSUME NEW n \in Nat, NEW f \in [1 .. n -> Int], NEW g \in [1 .. n -> Int],
           \A i, j \in 1 .. n : i < j => f[i] < f[j],
           \A i, j \in 1 .. n : i < j => g[i] < g[j],
           \A i \in 1 .. n : \E j \in 1 .. n : f[i] = g[j],
           \A i \in 1 .. n : \E j \in 1 .. n : g[i] = f[j]
    PROVE  \A i \in 1 .. n : f[i] = g[i]
<1> DEFINE T == {i \in 1 .. n : f[i] # g[i]}
<1> SUFFICES ASSUME T # {} PROVE FALSE
  OBVIOUS
<1>1. PICK x \in T : \A y \in T : x <= y
  <2>1. T \in SUBSET Nat
    OBVIOUS
  <2> HIDE DEF T
  <2> QED BY <2>1, LeastNumber
<1>2. x \in 1 .. n /\ f[x] # g[x] /\ f[x] \in Int /\ g[x] \in Int
  OBVIOUS
<1>3. \A i \in 1 .. n : i < x => f[i] = g[i]
  BY <1>1, <1>2
<1>4. PICK j \in 1 .. n : f[x] = g[j]
  BY <1>2
<1>5. PICK k \in 1 .. n : g[x] = f[k]
  BY <1>2
<1>6. g[j] \in Int /\ f[k] \in Int
  OBVIOUS
<1>7. ~ (j < x)
  <2> SUFFICES ASSUME j < x PROVE FALSE
    OBVIOUS
  <2>1. f[j] = g[j] /\ f[j] < f[x]
    BY <1>2, <1>3
  <2> QED BY <1>2, <1>4, <1>6, <2>1
<1>8. ~ (k < x)
  <2> SUFFICES ASSUME k < x PROVE FALSE
    OBVIOUS
  <2>1. f[k] = g[k] /\ g[k] < g[x]
    BY <1>2, <1>3
  <2> QED BY <1>2, <1>5, <1>6, <2>1
<1>9. j # x /\ k # x
  BY <1>2, <1>4, <1>5
<1>10. x < j /\ x < k
  BY <1>2, <1>7, <1>8, <1>9
<1>11. g[x] < g[j] /\ f[x] < f[k]
  BY <1>2, <1>10
<1>12. g[x] < f[x] /\ f[x] < g[x]
  BY <1>4, <1>5, <1>11
<1> QED BY <1>2, <1>12

-----------------------------------------------------------------------------
(* Words *)

\* The two slots are in different halves of a word.
Beside(x, s) == Low(x) <=> ~ Low(s)

\* Division with remainder, for the two divisors that occur.
LEMMA Divide ==
    ASSUME NEW q \in Nat, NEW r \in Nat, r < HalfSize
    PROVE  /\ q * HalfSize \in Nat
           /\ (q * HalfSize + r) \div HalfSize = q /\ (q * HalfSize + r) % HalfSize = r
BY SMT DEF HalfSize

LEMMA Quotient ==
    ASSUME NEW w \in Nat
    PROVE  \E q, r \in Nat : r < HalfSize /\ w = q * HalfSize + r
<1>1. w = ((w \div 65536) * 65536) + (w % 65536)
  BY SMT
<1>2. w \div 65536 \in Nat /\ w % 65536 \in Nat /\ w % 65536 < 65536
  BY SMT
<1> QED BY <1>1, <1>2, SMT DEF HalfSize

\* A half is a number below the flag, the flag, and bit 15, which is never used.
LEMMA HalfParts ==
    ASSUME NEW h \in Nat, h < HalfSize, ~ Flagged(h)
    PROVE  /\ h + masterOnlyFlag \in Nat /\ h + masterOnlyFlag < HalfSize
           /\ Flagged(h + masterOnlyFlag)
           /\ (h + masterOnlyFlag) % masterOnlyFlag = h % masterOnlyFlag
<1>1. h \div 16384 \in 0 .. 3 /\ (h \div 16384) % 2 # 1
  BY SMT DEF Flagged, masterOnlyFlag, HalfSize
<1>2. (h + 16384) \div 16384 = h \div 16384 + 1 /\ (h + 16384) % 16384 = h % 16384
  BY SMT
<1>3. h \div 16384 = 0 \/ h \div 16384 = 2
  BY <1>1, SMT
<1>4. h + 16384 \in Nat /\ h + 16384 < 65536
  BY <1>3, SMT
<1>5. ((h + 16384) \div 16384) % 2 = 1
  BY <1>2, <1>3, SMT
<1> QED BY <1>2, <1>4, <1>5, SMT DEF Flagged, masterOnlyFlag, HalfSize

LEMMA SmallHalf ==
    ASSUME NEW h \in Nat, h < masterOnlyFlag
    PROVE  h < HalfSize /\ ~ Flagged(h) /\ h % masterOnlyFlag = h
BY SMT DEF masterOnlyFlag, HalfSize, Flagged

LEMMA Sizes == HalfSize \in Nat \ {0} /\ masterOnlyFlag \in Nat \ {0} /\ masterOnlyFlag < HalfSize
BY SMT DEF masterOnlyFlag, HalfSize

\* What the halves of a word are.
LEMMA HalfOf ==
    ASSUME NEW q \in Nat, NEW r \in Nat, r < HalfSize, NEW s \in Nat
    PROVE  Half(q * HalfSize + r, s) = IF Low(s) THEN r ELSE q % HalfSize
<1> DEFINE w == q * HalfSize + r
<1>1. w \in Nat /\ w \div HalfSize = q /\ w % HalfSize = r
  BY Divide
<1> HIDE DEF w
<1>2. w \div 1 = w
  BY <1>1, SMT
<1>3. CASE Low(s)
  BY <1>1, <1>2, <1>3 DEF Half, Shift, w
<1>4. CASE ~ Low(s)
  BY <1>1, <1>4 DEF Half, Shift, w
<1> QED BY <1>3, <1>4

LEMMA Remainder ==
    ASSUME NEW q \in Nat
    PROVE  q % HalfSize \in Nat /\ q % HalfSize < HalfSize
BY SMT DEF HalfSize

LEMMA SmallRemainder ==
    ASSUME NEW q \in Nat, q < HalfSize
    PROVE  q % HalfSize = q
BY SMT DEF HalfSize

LEMMA HalfType ==
    ASSUME NEW w \in Nat, NEW s \in Nat
    PROVE  Half(w, s) \in Nat /\ Half(w, s) < HalfSize
<1>1. PICK q \in Nat, r \in Nat : r < HalfSize /\ w = q * HalfSize + r
  BY Quotient
<1> QED BY <1>1, HalfOf, Remainder

\* Setting the flag in one half of a word.
LEMMA MarkWord ==
    ASSUME NEW w \in Nat, NEW s \in Nat, ~ Flagged(Half(w, s))
    PROVE  LET v == w + masterOnlyFlag * Shift(s)
           IN /\ v \in Nat
              /\ Half(v, s) = Half(w, s) + masterOnlyFlag
              /\ \A x \in Nat : Beside(x, s) => Half(v, x) = Half(w, x)
<1>1. PICK q \in Nat, r \in Nat : r < HalfSize /\ w = q * HalfSize + r
  BY Quotient
<1>2. \A x \in Nat : Half(w, x) = IF Low(x) THEN r ELSE q % HalfSize
  BY <1>1, HalfOf
<1>3. CASE Low(s)
  <2>1. r + masterOnlyFlag \in Nat /\ r + masterOnlyFlag < HalfSize
    BY <1>1, <1>2, <1>3, HalfParts
  <2> DEFINE v == q * HalfSize + (r + masterOnlyFlag)
  <2>2. v \in Nat /\ \A x \in Nat : Half(v, x) = IF Low(x) THEN r + masterOnlyFlag ELSE q % HalfSize
    BY <2>1, HalfOf, Divide
  <2>3. w + masterOnlyFlag * Shift(s) = v
    BY <1>1, <1>3, Sizes, Divide, SMT DEF Shift
  <2> HIDE DEF v
  <2> QED BY <1>2, <1>3, <2>2, <2>3 DEF Beside
<1>4. CASE ~ Low(s)
  <2>1. (q + masterOnlyFlag) % HalfSize = (q % HalfSize) + masterOnlyFlag
    <3>1. (q % HalfSize) + masterOnlyFlag < HalfSize
      BY <1>1, <1>2, <1>4, HalfParts, Remainder
    <3> QED BY <3>1, SMT DEF HalfSize, masterOnlyFlag
  <2> DEFINE v == (q + masterOnlyFlag) * HalfSize + r
  <2>2. v \in Nat /\ \A x \in Nat : Half(v, x) = IF Low(x) THEN r ELSE (q % HalfSize) + masterOnlyFlag
    <3>1. q + masterOnlyFlag \in Nat
      BY Sizes
    <3>2. \A x \in Nat : Half(v, x) = IF Low(x) THEN r ELSE (q + masterOnlyFlag) % HalfSize
      BY <1>1, <3>1, HalfOf
    <3>3. v \in Nat
      BY <1>1, <3>1, Divide
    <3> HIDE DEF v
    <3> QED BY <2>1, <3>2, <3>3
  <2>3. w + masterOnlyFlag * HalfSize = v
    BY <1>1, SMT DEF HalfSize, masterOnlyFlag
  <2> HIDE DEF v
  <2> QED BY <1>2, <1>4, <2>2, <2>3 DEF Shift, Beside
<1> QED BY <1>3, <1>4

\* Storing a shard in one half of a word.
LEMMA SetWord ==
    ASSUME NEW w \in Nat, NEW s \in Nat, NEW shard \in Nat, shard < HalfSize,
           NEW v, v = Stored(w, s, shard)
    PROVE  /\ v \in Nat /\ Half(v, s) = shard
           /\ \A x \in Nat : Beside(x, s) => Half(v, x) = Half(w, x)
<1>1. PICK q \in Nat, r \in Nat : r < HalfSize /\ w = q * HalfSize + r
  BY Quotient
<1>2. \A x \in Nat : Half(w, x) = IF Low(x) THEN r ELSE q % HalfSize
  BY <1>1, HalfOf
<1>3. w \div HalfSize = q /\ w % HalfSize = r /\ q * HalfSize \in Nat
  BY <1>1, Divide
<1>4. CASE Low(s)
  <2> DEFINE u == q * HalfSize + shard
  <2>1. u \in Nat /\ \A x \in Nat : Half(u, x) = IF Low(x) THEN shard ELSE q % HalfSize
    BY HalfOf, Divide
  <2>2. v = u
    BY <1>3, <1>4 DEF Stored, Cleared, Shift
  <2> HIDE DEF u
  <2> QED BY <1>2, <1>4, <2>1, <2>2 DEF Beside
<1>5. CASE ~ Low(s)
  <2> DEFINE u == shard * HalfSize + r
  <2>1. u \in Nat /\ \A x \in Nat : Half(u, x) = IF Low(x) THEN r ELSE shard
    <3>1. \A x \in Nat : Half(u, x) = IF Low(x) THEN r ELSE shard % HalfSize
      BY <1>1, HalfOf
    <3>2. u \in Nat
      BY <1>1, Divide
    <3> HIDE DEF u
    <3> QED BY <3>1, <3>2, SmallRemainder
  <2>2. v = r + shard * HalfSize
    BY <1>3, <1>5 DEF Stored, Cleared, Shift
  <2>3. r + shard * HalfSize = u
    <3>1. shard * HalfSize \in Nat
      BY <1>1, Divide
    <3> QED BY <3>1
  <2> HIDE DEF u
  <2> QED BY <1>2, <1>5, <2>1, <2>2, <2>3 DEF Beside
<1> QED BY <1>4, <1>5

\* Slots that share a word differ in parity.
LEMMA SameWord ==
    ASSUME NEW s \in AllSlots, NEW x \in AllSlots
    PROVE  (s \div 2 = x \div 2 /\ s # x) => Beside(x, s)
BY WordsAssumption DEF AllSlots, Beside, Low

LEMMA WordOf == \A s \in AllSlots : s \in Nat /\ s \div 2 \in WordNos
BY WordsAssumption DEF AllSlots, WordNos

\* A store into the word of slot s that changes one half changes one entry of
\* the table.
LEMMA StoreWord ==
    ASSUME NEW words \in [WordNos -> Nat], NEW s \in AllSlots, NEW v \in Nat,
           \A x \in Nat : Beside(x, s) => Half(v, x) = Half(words[s \div 2], x)
    PROVE  Table([words EXCEPT ![s \div 2] = v]) =
             [Table(words) EXCEPT ![s] = [shard |-> Half(v, s) % masterOnlyFlag,
                                          asking |-> Flagged(Half(v, s))]]
<1> DEFINE new == [words EXCEPT ![s \div 2] = v]
           entry(w, x) == [shard |-> Half(w[x \div 2], x) % masterOnlyFlag,
                           asking |-> Flagged(Half(w[x \div 2], x))]
<1>1. \A w : Table(w) = [x \in AllSlots |-> entry(w, x)]
  BY DEF Table, slot2shardno, slotIsAsking
<1>2. new[s \div 2] = v
  BY WordOf
<1>3. ASSUME NEW x \in AllSlots, x # s PROVE Half(new[x \div 2], x) = Half(words[x \div 2], x)
  <2>1. CASE x \div 2 = s \div 2
    BY <1>2, <1>3, <2>1, SameWord, WordOf
  <2>2. CASE x \div 2 # s \div 2
    <3>1. new[x \div 2] = words[x \div 2]
      BY <2>2, WordOf
    <3> QED BY <3>1
  <2> QED BY <2>1, <2>2
<1> HIDE DEF new
<1>4. ASSUME NEW x \in AllSlots
      PROVE  entry(new, x) = IF x = s THEN [shard |-> Half(v, s) % masterOnlyFlag,
                                            asking |-> Flagged(Half(v, s))]
                             ELSE entry(words, x)
  BY <1>2, <1>3
<1>5. Table(new) = [x \in AllSlots |-> IF x = s THEN [shard |-> Half(v, s) % masterOnlyFlag,
                                                     asking |-> Flagged(Half(v, s))]
                                      ELSE entry(words, x)]
  BY <1>1, <1>4
<1> QED BY <1>1, <1>5 DEF new

LEMMA SetAsking ==
    ASSUME NEW a, NEW b, NEW c
    PROVE  [[shard |-> a, asking |-> b] EXCEPT !.asking = c] = [shard |-> a, asking |-> c]
BY SMT

LEMMA MarkEntry ==
    ASSUME NEW a, NEW b, NEW t, t = [shard |-> a, asking |-> b]
    PROVE  [t EXCEPT !.asking = TRUE] = [shard |-> a, asking |-> TRUE]
BY SetAsking, Zenon

LEMMA ChangeIsRight ==
    ASSUME NEW words \in [WordNos -> Nat], NEW s \in AllSlots,
           NEW shard \in Nat, shard < masterOnlyFlag
    PROVE  ChangeRight(words, s, shard)
<1> DEFINE w == words[s \div 2]
           table == Table(words)
<1>1. s \in Nat /\ w \in Nat
  BY WordOf
<1>2. table[s] = [shard |-> Half(w, s) % masterOnlyFlag, asking |-> Flagged(Half(w, s))]
  BY DEF Table, slot2shardno, slotIsAsking
<1>3. table = [x \in AllSlots |-> table[x]]
  BY DEF Table
<1>4. slot2shardno(words, s) = table[s].shard /\ slotIsAsking(words, s) = table[s].asking
  BY <1>2 DEF slot2shardno, slotIsAsking
<1> HIDE DEF w, table
<1>5. Table(slotMarkAsking(words, s)) = [table EXCEPT ![s].asking = TRUE]
  <2>1. CASE slotIsAsking(words, s)
    <3>1. slotMarkAsking(words, s) = words
      BY <2>1 DEF slotMarkAsking
    <3>2. table[s] = [shard |-> Half(w, s) % masterOnlyFlag, asking |-> TRUE]
      BY <1>2, <1>4, <2>1
    <3> QED BY <1>3, <3>1, <3>2 DEF table
  <2>2. CASE ~ slotIsAsking(words, s)
    <3>1. ~ Flagged(Half(w, s))
      BY <2>2 DEF slotIsAsking, w
    <3> DEFINE v == w + masterOnlyFlag * Shift(s)
    <3>2. slotMarkAsking(words, s) = [words EXCEPT ![s \div 2] = v]
      BY <2>2 DEF slotMarkAsking, w
    <3>3. /\ v \in Nat /\ Half(v, s) = Half(w, s) + masterOnlyFlag
          /\ \A x \in Nat : Beside(x, s) => Half(v, x) = Half(w, x)
      BY <1>1, <3>1, MarkWord
    <3> HIDE DEF v
    <3>4. Half(v, s) % masterOnlyFlag = Half(w, s) % masterOnlyFlag /\ Flagged(Half(v, s))
      BY <1>1, <3>1, <3>3, HalfParts, HalfType
    <3>5. Table([words EXCEPT ![s \div 2] = v]) =
            [table EXCEPT ![s] = [shard |-> Half(v, s) % masterOnlyFlag,
                                  asking |-> Flagged(Half(v, s))]]
      BY <3>3, StoreWord DEF w, table
    <3>6. [shard |-> Half(v, s) % masterOnlyFlag, asking |-> Flagged(Half(v, s))] =
            [table[s] EXCEPT !.asking = TRUE]
      <4>1. Flagged(Half(v, s)) = TRUE
        BY <3>4 DEF Flagged
      <4>2. [table[s] EXCEPT !.asking = TRUE] =
              [shard |-> Half(w, s) % masterOnlyFlag, asking |-> TRUE]
        BY <1>2, MarkEntry
      <4> QED BY <3>4, <4>1, <4>2
    <3> QED BY <1>3, <3>2, <3>5, <3>6
  <2> QED BY <2>1, <2>2
<1>6. Table(slotSetShard(words, s, shard)) =
        IF table[s].shard = shard THEN table
        ELSE [table EXCEPT ![s] = [shard |-> shard, asking |-> FALSE]]
  <2>1. CASE table[s].shard = shard
    BY <1>4, <2>1 DEF slotSetShard, table
  <2>2. CASE table[s].shard # shard
    <3>0. PICK v : v = Stored(w, s, shard)
      OBVIOUS
    <3>1. slotSetShard(words, s, shard) = [words EXCEPT ![s \div 2] = v]
      BY <1>4, <2>2, <3>0 DEF slotSetShard, w
    <3>2. shard < HalfSize /\ ~ Flagged(shard) /\ shard % masterOnlyFlag = shard
      BY SmallHalf
    <3>3. /\ v \in Nat /\ Half(v, s) = shard
          /\ \A x \in Nat : Beside(x, s) => Half(v, x) = Half(w, x)
      <4>1. shard < HalfSize
        BY <3>2
      <4> QED BY <1>1, <3>0, <4>1, SetWord
    <3>4. Table([words EXCEPT ![s \div 2] = v]) =
            [table EXCEPT ![s] = [shard |-> Half(v, s) % masterOnlyFlag,
                                  asking |-> Flagged(Half(v, s))]]
      BY <3>3, StoreWord DEF w, table
    <3>5. [shard |-> Half(v, s) % masterOnlyFlag, asking |-> Flagged(Half(v, s))] =
            [shard |-> shard, asking |-> FALSE]
      <4>1. Flagged(Half(v, s)) = FALSE
        BY <3>2, <3>3 DEF Flagged
      <4> QED BY <3>2, <3>3, <4>1
    <3> QED BY <2>2, <3>1, <3>4, <3>5
  <2> QED BY <2>1, <2>2
<1> QED BY <1>5, <1>6 DEF ChangeRight, table

-----------------------------------------------------------------------------
(* Ranges *)

\* What is used of the ranges that a cluster reports.
IsAnswer(raw) ==
    /\ raw \subseteq [from: AllSlots, to: AllSlots, master: MasterAddrs]
    /\ \A x \in raw : x.from <= x.to
    /\ \A x, y \in raw : x # y => x.to < y.from \/ y.to < x.from

LEMMA SlotNumbers == NumSlots \in Nat /\ AllSlots \subseteq Nat /\ AllSlots = 0 .. NumSlots - 1
BY WordsAssumption DEF AllSlots

LEMMA RangeEnds ==
    ASSUME NEW owner, NEW cuts, NEW i \in From(owner, cuts)
    PROVE  \E j \in i .. NumSlots - 1 : EndsAt(owner, cuts, i, j)
<1> DEFINE Ends(j) == j + 1 \in AllSlots => owner[j + 1] # owner[i] \/ j + 1 \in From(owner, cuts)
           T == {j \in i .. NumSlots - 1 : Ends(j)}
<1>1. i \in 0 .. NumSlots - 1 /\ NumSlots \in Nat
  BY SlotNumbers DEF From
<1>2. T \in SUBSET Nat
  BY <1>1
<1>3. NumSlots - 1 \in T
  <2>1. NumSlots - 1 \in i .. NumSlots - 1 /\ NumSlots - 1 + 1 \notin AllSlots
    BY <1>1, SlotNumbers
  <2> QED BY <2>1
<1>4. PICK j \in T : \A l \in T : j <= l
  <2> HIDE DEF T
  <2> QED BY <1>2, <1>3, LeastNumber
<1>5. ASSUME NEW l \in i .. j, l # i
      PROVE  owner[l] = owner[i] /\ l \notin From(owner, cuts)
  <2>1. l - 1 \in i .. NumSlots - 1 /\ ~ (j <= l - 1) /\ l - 1 + 1 = l
    BY <1>1, <1>5
  <2>2. l - 1 \notin T
    BY <1>4, <2>1
  <2>3. ~ Ends(l - 1)
    BY <2>1, <2>2
  <2> QED BY <2>1, <2>3
<1>6. EndsAt(owner, cuts, i, j)
  BY <1>5 DEF EndsAt
<1> QED BY <1>6

LEMMA AnswerFacts ==
    ASSUME NEW owner \in Owners, NEW cuts
    PROVE  IsAnswer(RangesOf(owner, cuts))
<1> DEFINE raw == RangesOf(owner, cuts)
           F == From(owner, cuts)
           end(i) == CHOOSE j \in i .. NumSlots - 1 : EndsAt(owner, cuts, i, j)
           range(i) == [from |-> i, master |-> owner[i], to |-> end(i)]
<1>1. \A i \in F : end(i) \in i .. NumSlots - 1 /\ EndsAt(owner, cuts, i, end(i))
  BY RangeEnds
<1>2. raw = {range(i) : i \in F}
  BY DEF RangesOf
<1>3. \A i \in F : i \in AllSlots /\ owner[i] \in MasterAddrs
  BY DEF From, Owners
<1>4. \A i \in F : \A l \in i .. end(i) : l \in F => l = i
  BY <1>1 DEF EndsAt
<1> HIDE DEF end, F, raw
<1>5. \A i \in F : i \in Nat /\ end(i) \in AllSlots /\ i <= end(i)
  BY <1>1, <1>3, SlotNumbers
<1>6. raw \subseteq [from: AllSlots, to: AllSlots, master: MasterAddrs]
  BY <1>2, <1>3, <1>5
<1>7. \A x \in raw : x.from <= x.to
  BY <1>2, <1>5
<1>8. ASSUME NEW i \in F, NEW k \in F, i # k
      PROVE  end(i) < k \/ end(k) < i
  <2>1. k \notin i .. end(i) /\ i \notin k .. end(k)
    BY <1>4, <1>8
  <2>2. i \in Nat /\ k \in Nat /\ end(i) \in Nat /\ end(k) \in Nat
    BY <1>5, SlotNumbers
  <2> QED BY <1>8, <2>1, <2>2
<1>9. \A x, y \in raw : x # y => x.to < y.from \/ y.to < x.from
  <2> SUFFICES ASSUME NEW x \in raw, NEW y \in raw, x # y
               PROVE  x.to < y.from \/ y.to < x.from
    OBVIOUS
  <2>1. PICK i \in F : x = range(i)
    BY <1>2
  <2>2. PICK k \in F : y = range(k)
    BY <1>2
  <2>3. i # k
    BY <2>1, <2>2
  <2> QED BY <1>8, <2>1, <2>2, <2>3
<1> QED BY <1>6, <1>7, <1>9 DEF IsAnswer, raw

\* A range with the addresses that are known for its master.
Entry(x, known) == [from |-> x.from, to |-> x.to, addrs |-> known[x.master]]

LEMMA AnswerFinite ==
    ASSUME NEW raw, IsAnswer(raw)
    PROVE  /\ IsFiniteSet(raw) /\ Cardinality(raw) \in Nat
           /\ \A x, y \in raw : x.from = y.from => x = y
<1>1. \A x, y \in raw : x.from = y.from => x = y
  <2> SUFFICES ASSUME NEW x \in raw, NEW y \in raw, x.from = y.from, x # y PROVE FALSE
    OBVIOUS
  <2>1. x.from \in Nat /\ x.to \in Nat /\ y.to \in Nat /\ x.from <= x.to /\ y.from <= y.to
    BY SlotNumbers DEF IsAnswer
  <2>2. x.to < y.from \/ y.to < x.from
    BY DEF IsAnswer
  <2> QED BY <2>1, <2>2
<1> DEFINE f == [x \in raw |-> x.from]
<1>2. f \in Injection(raw, AllSlots)
  BY <1>1 DEF Injection, IsInjective, IsAnswer
<1>3. IsFiniteSet(AllSlots)
  BY SlotNumbers, FS_Interval
<1>4. IsFiniteSet(raw)
  BY <1>2, <1>3, FS_Injection
<1> QED BY <1>1, <1>4, FS_CardinalityType

\* q holds the n ranges of raw in the order of their first slots.
IsListing(q, n, raw, known) ==
    /\ Len(q) = n /\ DOMAIN q = 1 .. n
    /\ \A i \in 1 .. n : \E x \in raw : q[i] = Entry(x, known)
    /\ \A x \in raw : \E i \in 1 .. n : q[i] = Entry(x, known)
    /\ \A i, j \in 1 .. n : i < j => q[i].from < q[j].from

LEMMA Listed ==
    ASSUME NEW raw, IsAnswer(raw), NEW known, NEW q,
           q = ByFrom({Entry(x, known) : x \in raw})
    PROVE  IsListing(q, Cardinality(raw), raw, known)
<1> DEFINE P == {Entry(x, known) : x \in raw}
           n == Cardinality(raw)
           f == [x \in raw |-> Entry(x, known)]
           key == [x \in P |-> x.from]
<1>1. IsFiniteSet(raw) /\ n \in Nat /\ \A x, y \in raw : x.from = y.from => x = y
  BY AnswerFinite
<1>2. \A x \in raw : x.from \in Nat
  BY SlotNumbers DEF IsAnswer
<1>3. f \in Surjection(raw, P) /\ f \in Injection(raw, P)
  BY <1>1 DEF Surjection, Injection, IsInjective, Entry
<1>4. IsFiniteSet(P) /\ Cardinality(P) = n
  <2> HIDE DEF f, P
  <2> QED BY <1>1, <1>3, FS_Surjection
<1>5. key \in [P -> Int]
  BY <1>2 DEF Entry
<1>6. \A x, y \in P : key[x] = key[y] => x = y
  BY <1>1 DEF Entry
<1>7. q = SortedBy(P, key)
  BY DEF ByFrom
<1>8. /\ q \in [1 .. n -> P] /\ Ordered(q, n, key) /\ \A x \in P : \E i \in 1 .. n : q[i] = x
  <2> HIDE DEF P, key, n
  <2>1. /\ SortedBy(P, key) \in [1 .. Cardinality(P) -> P]
        /\ Ordered(SortedBy(P, key), Cardinality(P), key)
        /\ \A x \in P : \E i \in 1 .. Cardinality(P) : SortedBy(P, key)[i] = x
    BY <1>4, <1>5, <1>6, SortedFacts
  <2> QED BY <1>4, <1>7, <2>1
<1>9. \A i \in 1 .. n : q[i] \in P /\ key[q[i]] = q[i].from
  BY <1>8
<1>10. q \in Seq(P) /\ Len(q) = n /\ DOMAIN q = 1 .. n
  <2> HIDE DEF P, n
  <2> QED BY <1>1, <1>8
<1>11. \A i, j \in 1 .. n : i < j => q[i].from < q[j].from
  <2> HIDE DEF P, n, key
  <2> QED BY <1>8, <1>9 DEF Ordered
<1>12. \A i \in 1 .. n : \E x \in raw : q[i] = Entry(x, known)
  <2> HIDE DEF key, n
  <2> QED BY <1>9
<1>13. \A x \in raw : \E i \in 1 .. n : q[i] = Entry(x, known)
  <2> HIDE DEF key, n
  <2> QED BY <1>8
<1> QED BY <1>10, <1>11, <1>12, <1>13 DEF IsListing

-----------------------------------------------------------------------------
(* The loop of updateMappings *)

\* What the loop gets: n sorted ranges that do not overlap, with addresses, shard
\* numbers that leave room for the flag; want is the shard each slot should go to.
LoopInput(q, n, masters, random, want) ==
    /\ n \in Nat /\ Len(q) = n /\ random \in Nat /\ random < masterOnlyFlag
    /\ \A j \in 1 .. n :
          /\ q[j].from \in AllSlots /\ q[j].to \in AllSlots /\ q[j].from <= q[j].to
          /\ masters[q[j].addrs[1]] \in Nat /\ masters[q[j].addrs[1]] < masterOnlyFlag
    /\ \A j, k \in 1 .. n : j < k => q[j].to < q[k].from
    /\ \A s \in AllSlots : /\ \A j \in 1 .. n : q[j].from <= s /\ s <= q[j].to =>
                                                    want[s] = masters[q[j].addrs[1]]
                           /\ (\A j \in 1 .. n : ~ (q[j].from <= s /\ s <= q[j].to)) =>
                                                    want[s] = random

LoopVars(n) == [next: 1 .. n + 1, sh: Nat, words: [WordNos -> Nat]]

\* slotRanges[0] is the first range that has not ended before slot i.
Positioned(q, n, next, i) ==
    \A j \in 1 .. n : (j < next => q[j].to < i) /\ (j >= next => q[j].to >= i)

HalfFor(want, marked, s) == IF s \in marked THEN want[s] + masterOnlyFlag ELSE want[s]

\* The word that ends with slot s is complete.
WordIs(words, s, want, marked) ==
    words[s \div 2] = HalfFor(want, marked, s) * HalfSize + HalfFor(want, marked, s - 1)

LoopStart == [next |-> 1, sh |-> 0, words |-> [w \in WordNos |-> 0]]

\* ... and the words of the slots before k are complete.
LoopInv(q, n, want, marked, acc, k) ==
    /\ acc \in LoopVars(n)
    /\ \A j \in 1 .. n : (j < acc.next => q[j].to < k) /\ (j >= acc.next => q[j].to >= k - 1)
    /\ \A s \in AllSlots : /\ s = k - 1 /\ Low(s) => acc.sh = HalfFor(want, marked, s)
                           /\ s < k /\ ~ Low(s) => WordIs(acc.words, s, want, marked)

\* "i > slotRanges[0].To" is true for at most one range per slot.
LEMMA NextRange ==
    ASSUME NEW q, NEW n \in Nat, NEW masters, NEW random, NEW want,
           LoopInput(q, n, masters, random, want),
           NEW t \in 1 .. n + 1, NEW i \in AllSlots,
           \A j \in 1 .. n : (j < t => q[j].to < i) /\ (j >= t => q[j].to >= i - 1),
           NEW next, next = Advanced(t, i, q)
    PROVE  next \in 1 .. n + 1 /\ Positioned(q, n, next, i)
<1>1. i \in Nat /\ \A j \in 1 .. n : q[j].from \in Nat /\ q[j].to \in Nat /\ q[j].from <= q[j].to
  BY SlotNumbers DEF LoopInput
<1>2. \A j, k \in 1 .. n : j < k => q[j].to < q[k].from
  BY DEF LoopInput
<1>0. next = IF t <= n /\ Passed(i, q[t]) THEN t + 1 ELSE t
  BY DEF Advanced, LoopInput
<1>3. CASE t <= n /\ Passed(i, q[t])
  <2>1. t \in 1 .. n /\ next = t + 1 /\ q[t].to = i - 1 /\ q[t].to < i
    BY <1>0, <1>1, <1>3 DEF Passed
  <2>2. ASSUME NEW j \in 1 .. n, j < next PROVE q[j].to < i
    BY <2>1, <2>2
  <2>3. ASSUME NEW j \in 1 .. n, j >= next PROVE q[j].to >= i
    <3>1. t < j
      BY <2>1, <2>3
    <3>2. q[t].to < q[j].from
      BY <1>2, <2>1, <3>1
    <3> QED BY <1>1, <2>1, <3>2
  <2> QED BY <2>1, <2>2, <2>3 DEF Positioned
<1>4. CASE ~ (t <= n /\ Passed(i, q[t]))
  <2>1. next = t
    BY <1>0, <1>4
  <2>2. ASSUME NEW j \in 1 .. n, j >= t PROVE q[j].to >= i
    <3>1. t \in 1 .. n /\ q[t].to >= i
      BY <1>1, <1>4, <2>2 DEF Passed
    <3>2. CASE j = t
      BY <3>1, <3>2
    <3>3. CASE j # t
      <4>1. q[t].to < q[j].from
        BY <1>2, <2>2, <3>1, <3>3
      <4> QED BY <1>1, <3>1, <4>1
    <3> QED BY <3>2, <3>3
  <2> QED BY <2>1, <2>2 DEF Positioned
<1> QED BY <1>3, <1>4

\* The shard the iteration picks.
LEMMA ShardPicked ==
    ASSUME NEW q, NEW n \in Nat, NEW masters, NEW random, NEW want,
           LoopInput(q, n, masters, random, want),
           NEW next \in 1 .. n + 1, NEW i \in AllSlots, Positioned(q, n, next, i)
    PROVE  /\ want[i] = Current(next, i, q, masters, random)
           /\ want[i] \in Nat /\ want[i] < masterOnlyFlag
<1>1. i \in Nat /\ \A j \in 1 .. n : q[j].from \in Nat /\ q[j].to \in Nat /\ q[j].from <= q[j].to
  BY SlotNumbers DEF LoopInput
<1>2. \A j, k \in 1 .. n : j < k => q[j].to < q[k].from
  BY DEF LoopInput
<1>3. CASE next > n \/ i < q[next].from
  <2>1. ASSUME NEW j \in 1 .. n PROVE ~ (q[j].from <= i /\ i <= q[j].to)
    <3>1. CASE j < next
      BY <1>1, <3>1 DEF Positioned
    <3>2. CASE j >= next
      <4>1. next \in 1 .. n /\ i < q[next].from
        BY <1>3, <3>2
      <4>2. q[next].from <= q[j].from
        <5>1. CASE j = next
          BY <1>1, <5>1
        <5>2. CASE j # next
          <6>1. q[next].to < q[j].from
            BY <1>2, <3>2, <4>1, <5>2
          <6> QED BY <1>1, <4>1, <6>1
        <5> QED BY <5>1, <5>2
      <4> QED BY <1>1, <4>1, <4>2
    <3> QED BY <3>1, <3>2
  <2>2. want[i] = random
    BY <2>1 DEF LoopInput
  <2> QED BY <1>3, <2>2 DEF LoopInput, Current
<1>4. CASE ~ (next > n \/ i < q[next].from)
  <2>1. next \in 1 .. n /\ q[next].from <= i /\ i <= q[next].to
    BY <1>1, <1>4 DEF Positioned
  <2>2. want[i] = masters[q[next].addrs[1]]
    BY <2>1 DEF LoopInput
  <2> QED BY <1>4, <2>1, <2>2 DEF LoopInput, Current
<1> QED BY <1>3, <1>4

LEMMA WithFlagFacts ==
    ASSUME NEW h \in Nat
    PROVE  WithFlag(h) \in Nat /\ (h < masterOnlyFlag => WithFlag(h) = h + masterOnlyFlag)
BY Sizes, SmallHalf DEF WithFlag

LEMMA FillType ==
    ASSUME NEW q, NEW n \in Nat, NEW masters, NEW random, NEW want, NEW marked,
           LoopInput(q, n, masters, random, want),
           NEW acc \in LoopVars(n), NEW i \in AllSlots
    PROVE  FillSlot(acc, i, q, masters, random, marked) \in LoopVars(n)
<1>1. PICK next : next = Advanced(acc.next, i, q)
  OBVIOUS
<1>2. PICK shard : shard = Current(next, i, q, masters, random)
  OBVIOUS
<1>a. PICK cur : cur = IF i \in marked THEN WithFlag(shard) ELSE shard
  OBVIOUS
<1>b. PICK sh : sh = IF Low(i) THEN cur ELSE acc.sh + cur * HalfSize
  OBVIOUS
<1>c. PICK words : words = IF Low(i) THEN acc.words ELSE [acc.words EXCEPT ![i \div 2] = sh]
  OBVIOUS
<1>d. FillSlot(acc, i, q, masters, random, marked) = [next |-> next, sh |-> sh, words |-> words]
  BY <1>1, <1>2, <1>a, <1>b, <1>c DEF FillSlot
<1>3. acc.next \in 1 .. n + 1 /\ acc.sh \in Nat /\ acc.words \in [WordNos -> Nat]
  BY DEF LoopVars
<1>4. next \in 1 .. n + 1
  BY <1>1, <1>3 DEF Advanced, LoopInput
<1>5. shard \in Nat
  <2>1. next > n \/ next \in 1 .. n
    BY <1>4
  <2> QED BY <1>2, <2>1 DEF LoopInput, Current
<1>6. cur \in Nat
  BY <1>a, <1>5, WithFlagFacts
<1>7. cur * HalfSize \in Nat
  BY <1>6, Sizes, Divide
<1>8. sh \in Nat
  BY <1>b, <1>3, <1>6, <1>7
<1>9. i \div 2 \in WordNos
  BY WordOf
<1>10. words \in [WordNos -> Nat]
  BY <1>c, <1>3, <1>8, <1>9
<1> QED BY <1>d, <1>4, <1>8, <1>10 DEF LoopVars

LEMMA LoopStep ==
    ASSUME NEW q, NEW n \in Nat, NEW masters, NEW random, NEW want, NEW marked,
           LoopInput(q, n, masters, random, want),
           NEW acc, NEW i \in AllSlots, LoopInv(q, n, want, marked, acc, i),
           NEW new, new = FillSlot(acc, i, q, masters, random, marked)
    PROVE  LoopInv(q, n, want, marked, new, i + 1)
<1>a. PICK next : next = Advanced(acc.next, i, q)
  OBVIOUS
<1>b. PICK shard : shard = Current(next, i, q, masters, random)
  OBVIOUS
<1>c. PICK cur : cur = IF i \in marked THEN WithFlag(shard) ELSE shard
  OBVIOUS
<1>d. PICK sh : sh = IF Low(i) THEN cur ELSE acc.sh + cur * HalfSize
  OBVIOUS
<1>e. PICK words : words = IF Low(i) THEN acc.words ELSE [acc.words EXCEPT ![i \div 2] = sh]
  OBVIOUS
<1>1. new = [next |-> next, sh |-> sh, words |-> words]
  BY <1>a, <1>b, <1>c, <1>d, <1>e DEF FillSlot
<1>f. new.next = next /\ new.sh = sh /\ new.words = words
  BY <1>1
<1>2. acc \in LoopVars(n) /\ acc.next \in 1 .. n + 1 /\ acc.words \in [WordNos -> Nat]
  BY DEF LoopInv, LoopVars
<1>3. new \in LoopVars(n)
  BY <1>2, FillType
<1>4. next \in 1 .. n + 1 /\ Positioned(q, n, next, i)
  <2>1. \A j \in 1 .. n : (j < acc.next => q[j].to < i) /\ (j >= acc.next => q[j].to >= i - 1)
    BY DEF LoopInv
  <2> QED BY <1>a, <1>2, <2>1, NextRange
<1>5. shard = want[i] /\ shard \in Nat /\ shard < masterOnlyFlag
  BY <1>b, <1>4, ShardPicked
<1>6. cur = HalfFor(want, marked, i) /\ cur \in Nat
  BY <1>c, <1>5, WithFlagFacts DEF HalfFor
<1>7. i \in Nat /\ i \div 2 \in WordNos /\ \A j \in 1 .. n : q[j].to \in Nat
  BY WordOf, SlotNumbers DEF LoopInput
<1>8. \A j \in 1 .. n : (j < new.next => q[j].to < i + 1) /\ (j >= new.next => q[j].to >= (i + 1) - 1)
  <2>1. ASSUME NEW j \in 1 .. n
        PROVE  (j < next => q[j].to < i + 1) /\ (j >= next => q[j].to >= (i + 1) - 1)
    BY <1>4, <1>7 DEF Positioned
  <2> QED BY <1>f, <2>1
<1>9. ASSUME NEW s \in AllSlots, s = (i + 1) - 1, Low(s) PROVE new.sh = HalfFor(want, marked, s)
  <2>1. s = i
    BY <1>7, <1>9
  <2> QED BY <1>d, <1>f, <1>6, <1>9, <2>1
<1>10. ASSUME NEW s \in AllSlots, s < i + 1, ~ Low(s)
       PROVE  new.words[s \div 2] = HalfFor(want, marked, s) * HalfSize +
                                    HalfFor(want, marked, s - 1)
  <2>1. s \in Nat /\ s \div 2 \in WordNos
    BY WordOf
  <2>2. CASE s = i
    <3>1. i - 1 \in AllSlots /\ Low(i - 1)
      BY <1>7, <1>10, <2>2, SlotNumbers DEF Low
    <3>2. acc.sh = HalfFor(want, marked, i - 1)
      BY <3>1 DEF LoopInv
    <3>3. new.words[s \div 2] = acc.sh + cur * HalfSize
      BY <1>d, <1>e, <1>f, <1>2, <1>7, <1>10, <2>2
    <3>4. acc.sh \in Nat /\ cur * HalfSize \in Nat
      BY <1>2, <1>6, Sizes, Divide DEF LoopVars
    <3>5. acc.sh + cur * HalfSize = cur * HalfSize + acc.sh
      BY <3>4
    <3> QED BY <1>6, <2>2, <3>2, <3>3, <3>5
  <2>3. CASE s # i
    <3>1. s < i
      BY <1>7, <1>10, <2>1, <2>3
    <3>2. acc.words[s \div 2] = HalfFor(want, marked, s) * HalfSize + HalfFor(want, marked, s - 1)
      BY <1>10, <3>1 DEF LoopInv, WordIs
    <3>3. CASE Low(i)
      BY <1>e, <1>f, <3>2, <3>3
    <3>4. CASE ~ Low(i)
      <4>1. i \div 2 # s \div 2
        BY <1>7, <1>10, <2>1, <2>3, <3>4 DEF Low
      <4>2. new.words = [acc.words EXCEPT ![i \div 2] = sh]
        BY <1>e, <1>f, <3>4
      <4>3. new.words[s \div 2] = acc.words[s \div 2]
        BY <1>2, <2>1, <4>1, <4>2
      <4> QED BY <3>2, <4>3
    <3> QED BY <3>3, <3>4
  <2> QED BY <2>2, <2>3
<1>11. \A s \in AllSlots :
          /\ s = (i + 1) - 1 /\ Low(s) => new.sh = HalfFor(want, marked, s)
          /\ s < i + 1 /\ ~ Low(s) => WordIs(new.words, s, want, marked)
  BY <1>9, <1>10 DEF WordIs
<1> QED BY <1>3, <1>8, <1>11, Zenon DEF LoopInv

LEMMA WantBounds ==
    ASSUME NEW q, NEW n \in Nat, NEW masters, NEW random, NEW want,
           LoopInput(q, n, masters, random, want), NEW s \in AllSlots
    PROVE  want[s] \in Nat /\ want[s] < masterOnlyFlag
<1>1. CASE \E j \in 1 .. n : q[j].from <= s /\ s <= q[j].to
  <2>1. PICK j \in 1 .. n : q[j].from <= s /\ s <= q[j].to
    BY <1>1
  <2>2. want[s] = masters[q[j].addrs[1]]
    BY <2>1 DEF LoopInput
  <2> QED BY <2>2 DEF LoopInput
<1>2. CASE ~ \E j \in 1 .. n : q[j].from <= s /\ s <= q[j].to
  BY <1>2 DEF LoopInput
<1> QED BY <1>1, <1>2

\* The table that the loop should leave.
IsFilled(words, want, marked) ==
    Table(words) = [s \in AllSlots |-> [shard |-> want[s], asking |-> s \in marked]]

LEMMA LoopResult ==
    ASSUME NEW q, NEW n \in Nat, NEW masters, NEW random, NEW want, NEW marked,
           LoopInput(q, n, masters, random, want),
           NEW acc, LoopInv(q, n, want, marked, acc, NumSlots)
    PROVE  IsFilled(acc.words, want, marked)
<1>1. ASSUME NEW s \in AllSlots
      PROVE  /\ HalfFor(want, marked, s) \in Nat /\ HalfFor(want, marked, s) < HalfSize
             /\ HalfFor(want, marked, s) % masterOnlyFlag = want[s]
             /\ Flagged(HalfFor(want, marked, s)) <=> s \in marked
  <2>1. want[s] \in Nat /\ want[s] < masterOnlyFlag
    BY WantBounds
  <2>2. want[s] < HalfSize /\ ~ Flagged(want[s]) /\ want[s] % masterOnlyFlag = want[s]
    BY <2>1, SmallHalf
  <2>3. /\ want[s] + masterOnlyFlag \in Nat /\ want[s] + masterOnlyFlag < HalfSize
        /\ Flagged(want[s] + masterOnlyFlag)
        /\ (want[s] + masterOnlyFlag) % masterOnlyFlag = want[s] % masterOnlyFlag
    BY <2>1, <2>2, HalfParts
  <2> QED BY <2>1, <2>2, <2>3 DEF HalfFor
<1>2. ASSUME NEW s \in AllSlots
      PROVE  Half(acc.words[s \div 2], s) = HalfFor(want, marked, s)
  <2>1. s \in Nat /\ NumSlots \in Nat /\ s < NumSlots
    BY SlotNumbers
  <2>2. CASE Low(s)
    <3>1. s + 1 \in AllSlots /\ s + 1 < NumSlots /\ ~ Low(s + 1) /\ (s + 1) \div 2 = s \div 2
      BY <2>1, <2>2, WordsAssumption DEF Low, AllSlots
    <3>2. acc.words[(s + 1) \div 2] = HalfFor(want, marked, s + 1) * HalfSize +
                                      HalfFor(want, marked, (s + 1) - 1)
      <4>1. WordIs(acc.words, s + 1, want, marked)
        BY <3>1, Zenon DEF LoopInv
      <4> QED BY <4>1 DEF WordIs
    <3>3. acc.words[s \div 2] = HalfFor(want, marked, s + 1) * HalfSize + HalfFor(want, marked, s)
      <4>1. (s + 1) - 1 = s
        BY <2>1
      <4> QED BY <3>1, <3>2, <4>1
    <3> QED BY <1>1, <2>1, <2>2, <3>1, <3>3, HalfOf
  <2>3. CASE ~ Low(s)
    <3>1. s - 1 \in AllSlots
      BY <2>1, <2>3, SlotNumbers DEF Low
    <3>2. acc.words[s \div 2] = HalfFor(want, marked, s) * HalfSize + HalfFor(want, marked, s - 1)
      BY <2>1, <2>3 DEF LoopInv, WordIs
    <3>3. HalfFor(want, marked, s) % HalfSize = HalfFor(want, marked, s)
      BY <1>1, SmallRemainder
    <3> QED BY <1>1, <2>1, <2>3, <3>1, <3>2, <3>3, HalfOf
  <2> QED BY <2>2, <2>3
<1>3. ASSUME NEW s \in AllSlots
      PROVE  /\ slot2shardno(acc.words, s) = want[s]
             /\ slotIsAsking(acc.words, s) = (s \in marked)
  <2>1. slot2shardno(acc.words, s) = want[s]
    BY <1>1, <1>2 DEF slot2shardno
  <2>2. slotIsAsking(acc.words, s) <=> s \in marked
    BY <1>1, <1>2 DEF slotIsAsking
  <2>3. slotIsAsking(acc.words, s) \in BOOLEAN
    BY DEF slotIsAsking, Flagged
  <2> QED BY <2>1, <2>2, <2>3
<1> QED BY <1>3 DEF Table, IsFilled

\* The recursive definition of the loop.
Runs(fill, q, masters, random, marked) ==
    /\ fill[0] = LoopStart
    /\ \A i \in 1 .. NumSlots : fill[i] = FillSlot(fill[i - 1], i - 1, q, masters, random, marked)

LEMMA FillingRuns ==
    ASSUME NEW q, NEW n \in Nat, NEW masters, NEW random, NEW want, NEW marked,
           LoopInput(q, n, masters, random, want),
           NEW fill, fill = Filling(q, masters, random, marked)
    PROVE  Runs(fill, q, masters, random, marked)
<1> DEFINE V == LoopVars(n)
           v0 == LoopStart
           body == [x \in (1 .. NumSlots) \X V |-> FillSlot(x[2], x[1] - 1, q, masters, random, marked)]
           Is(g) == g = [i \in 0 .. NumSlots |->
                            IF i = 0 THEN v0
                            ELSE FillSlot(g[i - 1], i - 1, q, masters, random, marked)]
<1>0. NumSlots \in Nat
  BY SlotNumbers
<1>1. NumSlots \in Nat /\ \A i \in 1 .. NumSlots : i - 1 \in AllSlots
  BY SlotNumbers
<1>2. v0 \in V
  BY DEF LoopVars, LoopStart
<1>3. body \in [(1 .. NumSlots) \X V -> V]
  <2> HIDE DEF V
  <2>1. ASSUME NEW x \in (1 .. NumSlots) \X V
        PROVE  FillSlot(x[2], x[1] - 1, q, masters, random, marked) \in V
    <3>1. x[2] \in V /\ x[1] - 1 \in AllSlots
      BY <1>1
    <3> QED BY <3>1, FillType DEF V
  <2> QED BY <2>1
<1>4. PICK f : RunOf(f, V, v0, NumSlots, body)
  <2> HIDE DEF V, v0, body, Is
  <2> QED BY <1>0, <1>2, <1>3, LoopRuns
<1>a. /\ f \in [0 .. NumSlots -> V]
      /\ f[0] = v0 /\ \A i \in 1 .. NumSlots : f[i] = body[<<i, f[i - 1]>>]
  <2> HIDE DEF V, v0, body, Is
  <2> QED BY <1>4 DEF RunOf
<1>5. Is(f)
  <2> HIDE DEF V, v0
  <2>1. ASSUME NEW i \in 0 .. NumSlots, i # 0
        PROVE  f[i] = FillSlot(f[i - 1], i - 1, q, masters, random, marked)
    <3>1. i \in 1 .. NumSlots /\ i - 1 \in 0 .. NumSlots
      BY <1>1, <2>1
    <3>2. f[i - 1] \in V
      BY <1>a, <3>1
    <3> QED BY <1>a, <3>1, <3>2
  <2>2. f = [i \in 0 .. NumSlots |-> f[i]]
    BY <1>a
  <2>3. \A i \in 0 .. NumSlots :
          f[i] = IF i = 0 THEN v0 ELSE FillSlot(f[i - 1], i - 1, q, masters, random, marked)
    BY <1>a, <2>1
  <2> HIDE DEF body
  <2> QED BY <2>2, <2>3
<1>6. fill = CHOOSE g : Is(g)
  BY Zenon DEF Filling, LoopStart
<1>7. Is(fill)
  <2> HIDE DEF Is
  <2> QED BY <1>5, <1>6, Zenon
<1> HIDE DEF v0
<1>8. fill[0] = v0 /\ \A i \in 1 .. NumSlots :
                fill[i] = FillSlot(fill[i - 1], i - 1, q, masters, random, marked)
  BY <1>1, <1>7
<1> QED BY <1>8 DEF v0, Runs

LEMMA FillIsRight ==
    ASSUME NEW q, NEW n \in Nat, NEW masters, NEW random, NEW want, NEW marked,
           LoopInput(q, n, masters, random, want)
    PROVE  IsFilled(FillSlots(q, masters, random, marked), want, marked)
<1>1. PICK fill : fill = Filling(q, masters, random, marked)
  OBVIOUS
<1>2. /\ fill[0] = LoopStart
      /\ \A i \in 1 .. NumSlots : fill[i] = FillSlot(fill[i - 1], i - 1, q, masters, random, marked)
  <2>1. Runs(fill, q, masters, random, marked)
    BY <1>1, FillingRuns
  <2> QED BY <2>1 DEF Runs
<1>3. NumSlots \in Nat
  BY SlotNumbers
<1> DEFINE S == {k \in 0 .. NumSlots : LoopInv(q, n, want, marked, fill[k], k)}
<1>4. 0 \in S
  <2> DEFINE v0 == LoopStart
  <2>1. v0 \in LoopVars(n) /\ v0.next = 1
    BY DEF LoopVars, LoopStart
  <2>2. \A j \in 1 .. n : q[j].to \in Nat /\ ~ (j < 1)
    BY SlotNumbers DEF LoopInput
  <2>3. \A s \in AllSlots : s # 0 - 1 /\ ~ (s < 0)
    BY SlotNumbers
  <2>4. LoopInv(q, n, want, marked, v0, 0)
    BY <2>1, <2>2, <2>3 DEF LoopInv
  <2> HIDE DEF v0
  <2> QED BY <1>2, <1>3, <2>4 DEF v0
<1>5. ASSUME NEW k \in 1 .. NumSlots, k - 1 \in S PROVE k \in S
  <2>1. k - 1 \in AllSlots /\ k - 1 + 1 = k
    BY <1>3, SlotNumbers
  <2>2. LoopInv(q, n, want, marked, fill[k - 1], k - 1)
    BY <1>5
  <2>3. fill[k] = FillSlot(fill[k - 1], k - 1, q, masters, random, marked)
    BY <1>2
  <2>4. LoopInv(q, n, want, marked, fill[k], k - 1 + 1)
    BY <2>1, <2>2, <2>3, LoopStep
  <2> QED BY <2>1, <2>4
<1>6. NumSlots \in S
  <2> HIDE DEF S
  <2> QED BY <1>3, <1>4, <1>5, UpTo
<1>7. IsFilled(fill[NumSlots].words, want, marked)
  BY <1>6, LoopResult
<1> QED BY <1>1, <1>7 DEF FillSlots

-----------------------------------------------------------------------------
(* CLUSTER SLOTS *)

LEMMA AnswersAre ==
    ASSUME NEW raw \in Answers
    PROVE  IsAnswer(raw) /\ raw # {}
<1>1. raw # {} /\ \E x \in Owners \X SUBSET AllSlots : raw = RangesOf(x[1], x[2])
  BY DEF Answers
<1>2. PICK x \in Owners \X SUBSET AllSlots : raw = RangesOf(x[1], x[2])
  BY <1>1
<1>3. IsAnswer(raw)
  <2>1. x[1] \in Owners
    OBVIOUS
  <2> QED BY <1>2, <2>1, AnswerFacts
<1> QED BY <1>1, <1>3

\* There are at most as many masters as slots, and one at least.
LEMMA FewMasters ==
    ASSUME NEW raw, IsAnswer(raw), raw # {}
    PROVE  Cardinality(MastersIn(raw)) - 1 \in Nat /\ Cardinality(MastersIn(raw)) - 1 < masterOnlyFlag
<1> DEFINE M == MastersIn(raw)
           first(m) == CHOOSE x \in raw : x.master = m
           f == [m \in M |-> first(m).from]
<1>1. \A x, y \in raw : x.from = y.from => x = y
  BY AnswerFinite
<1>2. \A m \in M : first(m) \in raw /\ first(m).master = m
  BY DEF MastersIn
<1>3. \A x \in raw : x.from \in AllSlots
  BY DEF IsAnswer
<1>4. f \in Injection(M, AllSlots)
  <2> HIDE DEF M, first
  <2> QED BY <1>1, <1>2, <1>3 DEF Injection, IsInjective
<1>5. IsFiniteSet(AllSlots) /\ Cardinality(AllSlots) = NumSlots
  BY SlotNumbers, FS_Interval
<1>6. IsFiniteSet(M) /\ Cardinality(M) <= NumSlots
  <2> HIDE DEF M, f
  <2> QED BY <1>4, <1>5, FS_Injection
<1>7. M # {}
  BY DEF MastersIn
<1>8. Cardinality(M) \in Nat /\ Cardinality(M) # 0
  <2> HIDE DEF M
  <2> QED BY <1>6, <1>7, FS_CardinalityType, FS_EmptySet
<1>9. NumSlots \in Nat /\ NumSlots <= masterOnlyFlag /\ masterOnlyFlag \in Nat
  BY WordsAssumption, SMT DEF masterOnlyFlag
<1> HIDE DEF M
<1>10. Cardinality(M) - 1 \in Nat /\ Cardinality(M) - 1 < masterOnlyFlag
  BY <1>6, <1>8, <1>9
<1> QED BY <1>10 DEF M

\* The addresses of a shard in CLUSTER SLOTS.
ShardAddrs(m) == <<m>> \o SortedBy(ReplicasOf(m), [x \in ReplicasOf(m) |-> x])

LEMMA ReplicasSorted ==
    ASSUME NEW m \in MasterAddrs, NEW r, r = SortedBy(ReplicasOf(m), [x \in ReplicasOf(m) |-> x])
    PROVE  r \in Seq(ReplicasOf(m)) /\ ToSet(r) = ReplicasOf(m)
<1> DEFINE S == ReplicasOf(m)
           key == [x \in S |-> x]
           n == Cardinality(S)
<1>1. S \subseteq Instances /\ Instances \subseteq Nat /\ IsFiniteSet(Instances)
  BY SMTT(30), WordsAssumption DEF ReplicasOf, Instances
<1>2. IsFiniteSet(S)
  BY <1>1, FS_Subset
<1>3. n \in Nat
  BY <1>2, FS_CardinalityType
<1>4. key \in [S -> Int] /\ \A x, y \in S : key[x] = key[y] => x = y
  <2> HIDE DEF S
  <2>1. \A x \in S : x \in Int
    BY <1>1
  <2> QED BY <2>1
<1>5. r = SortedBy(S, key)
  OBVIOUS
<1>6. r \in [1 .. n -> S] /\ \A x \in S : \E i \in 1 .. n : r[i] = x
  <2> HIDE DEF S, key, n
  <2>1. /\ SortedBy(S, key) \in [1 .. Cardinality(S) -> S]
        /\ \A x \in S : \E i \in 1 .. Cardinality(S) : SortedBy(S, key)[i] = x
    BY <1>2, <1>4, SortedFacts
  <2> QED BY <1>5, <2>1 DEF n
<1> HIDE DEF S, key, n
<1>7. r \in Seq(S) /\ DOMAIN r = 1 .. n
  BY <1>3, <1>6
<1>8. ToSet(r) = S
  BY <1>6, <1>7 DEF ToSet
<1> QED BY <1>7, <1>8 DEF S

NonEmpty(q) == q # <<>>

HeadOr(r, m) == IF NonEmpty(r) THEN r[1] ELSE m

\* q has the addresses of r, and m, and starts with first.
Grown(q, S, m, r, first) ==
    q \in Seq(S) /\ NonEmpty(q) /\ q[1] = first /\ ToSet(q) = {m} \cup ToSet(r)

\* Adding to a list of addresses, in front and at the end.
LEMMA Prepended ==
    ASSUME NEW S, NEW m \in S, NEW r \in Seq(S), NEW q, q = MasterFirst(m, r)
    PROVE  Grown(q, S, m, r, m)
<1>1. Len(r) \in Nat
  OBVIOUS
<1>2. /\ q \in Seq(S) /\ Len(q) = Len(r) + 1
      /\ q[1] = m /\ \A i \in 1 .. Len(r) : q[i + 1] = r[i]
  BY DEF MasterFirst
<1>3. DOMAIN q = 1 .. Len(r) + 1 /\ DOMAIN r = 1 .. Len(r)
  BY <1>2
<1>4. NonEmpty(q)
  BY <1>1, <1>2 DEF NonEmpty
<1>5. ASSUME NEW x \in ToSet(q) PROVE x \in {m} \cup ToSet(r)
  <2>1. PICK i \in 1 .. Len(r) + 1 : x = q[i]
    BY <1>3 DEF ToSet
  <2>2. CASE i = 1
    BY <1>2, <2>1, <2>2
  <2>3. CASE i # 1
    <3>1. PICK j \in 1 .. Len(r) : i = j + 1
      <4>1. i - 1 \in 1 .. Len(r) /\ i = (i - 1) + 1
        BY <1>1, <2>3
      <4> QED BY <4>1
    <3>2. x = r[j]
      BY <1>2, <2>1, <3>1
    <3> QED BY <1>3, <3>2 DEF ToSet
  <2> QED BY <2>2, <2>3
<1>6. ASSUME NEW x \in ToSet(r) PROVE x \in ToSet(q)
  <2>1. PICK j \in 1 .. Len(r) : x = r[j]
    BY <1>3 DEF ToSet
  <2>2. j + 1 \in 1 .. Len(r) + 1 /\ q[j + 1] = x
    BY <1>1, <1>2, <2>1
  <2> QED BY <1>3, <2>2 DEF ToSet
<1>7. m \in ToSet(q)
  <2>1. 1 \in 1 .. Len(r) + 1
    BY <1>1
  <2> QED BY <1>2, <1>3, <2>1 DEF ToSet
<1> QED BY <1>2, <1>4, <1>5, <1>6, <1>7 DEF Grown

LEMMA Appended ==
    ASSUME NEW S, NEW m \in S, NEW r \in Seq(S), NEW q, q = Append(r, m)
    PROVE  Grown(q, S, m, r, HeadOr(r, m))
<1>1. Len(r) \in Nat
  OBVIOUS
<1>2. /\ q \in Seq(S) /\ Len(q) = Len(r) + 1
      /\ q[Len(r) + 1] = m /\ \A i \in 1 .. Len(r) : q[i] = r[i]
  OBVIOUS
<1>3. DOMAIN q = 1 .. Len(r) + 1 /\ DOMAIN r = 1 .. Len(r)
  BY <1>2
<1>4. NonEmpty(q)
  BY <1>1, <1>2 DEF NonEmpty
<1>5. q[1] = IF NonEmpty(r) THEN r[1] ELSE m
  <2>1. CASE NonEmpty(r)
    <3>1. 1 \in 1 .. Len(r)
      BY <1>1, <2>1 DEF NonEmpty
    <3> QED BY <1>2, <2>1, <3>1
  <2>2. CASE ~ NonEmpty(r)
    <3>1. Len(r) = 0
      BY <2>2 DEF NonEmpty
    <3> QED BY <1>2, <2>2, <3>1
  <2> QED BY <2>1, <2>2
<1>6. ASSUME NEW x \in ToSet(q) PROVE x \in {m} \cup ToSet(r)
  <2>1. PICK i \in 1 .. Len(r) + 1 : x = q[i]
    BY <1>3 DEF ToSet
  <2>2. i = Len(r) + 1 \/ i \in 1 .. Len(r)
    BY <1>1
  <2> QED BY <1>2, <1>3, <2>1, <2>2 DEF ToSet
<1>7. ASSUME NEW x \in ToSet(r) PROVE x \in ToSet(q)
  <2>1. PICK j \in 1 .. Len(r) : x = r[j]
    BY <1>3 DEF ToSet
  <2>2. j \in 1 .. Len(r) + 1 /\ q[j] = x
    BY <1>1, <1>2, <2>1
  <2> QED BY <1>3, <2>2 DEF ToSet
<1>8. m \in ToSet(q)
  <2>1. Len(r) + 1 \in 1 .. Len(r) + 1
    BY <1>1
  <2> QED BY <1>2, <1>3, <2>1 DEF ToSet
<1> QED BY <1>2, <1>4, <1>5, <1>6, <1>7, <1>8 DEF Grown, HeadOr

LEMMA ShardAddrsFacts ==
    ASSUME NEW m \in MasterAddrs
    PROVE  ShardAddrs(m)[1] = m /\ ToSet(ShardAddrs(m)) = {m} \cup ReplicasOf(m)
<1>1. PICK r : r = SortedBy(ReplicasOf(m), [x \in ReplicasOf(m) |-> x])
  OBVIOUS
<1>2. r \in Seq(ReplicasOf(m)) /\ ToSet(r) = ReplicasOf(m)
  BY <1>1, ReplicasSorted
<1>3. PICK S : S = ReplicasOf(m) \cup {m}
  OBVIOUS
<1>4. r \in Seq(S) /\ m \in S
  BY <1>2, <1>3
<1>5. ShardAddrs(m) = MasterFirst(m, r)
  BY <1>1 DEF ShardAddrs, MasterFirst
<1>6. Grown(MasterFirst(m, r), S, m, r, m)
  BY <1>4, Prepended
<1> QED BY <1>2, <1>5, <1>6 DEF Grown

\* updateMappings fills the table with what CLUSTER SLOTS says.
LEMMA TableFilled ==
    ASSUME NEW raw \in Answers, NEW masters \in Numberings(raw), NEW marked \in SUBSET AllSlots,
           NEW random, random = Cardinality(MastersIn(raw)) - 1,
           NEW want, want = [s \in AllSlots |->
                                IF Covering(raw, s) = {} THEN random
                                ELSE masters[(CHOOSE x \in Covering(raw, s) : TRUE).master]]
    PROVE  IsFilled(FillSlots(ParseSlotsInfo(raw), masters, random, marked), want, marked)
<1> DEFINE n == Cardinality(raw)
           a == [m \in MasterAddrs |-> ShardAddrs(m)]
<1>1. IsAnswer(raw) /\ raw # {}
  BY AnswersAre
<1>2. /\ \A x \in raw : /\ x.from \in AllSlots /\ x.to \in AllSlots /\ x.master \in MasterAddrs
                        /\ x.from \in Nat /\ x.to \in Nat /\ x.from <= x.to
      /\ \A x, y \in raw : x # y => x.to < y.from \/ y.to < x.from
  BY <1>1, SlotNumbers DEF IsAnswer
<1>3. PICK q : q = ByFrom({Entry(x, a) : x \in raw})
  OBVIOUS
<1>4. ParseSlotsInfo(raw) = q
  <2>1. \A x \in raw : Entry(x, a) = [from |-> x.from, to |-> x.to, addrs |-> ShardAddrs(x.master)]
    BY <1>2 DEF Entry
  <2>2. {Entry(x, a) : x \in raw} =
          {[from |-> x.from, to |-> x.to, addrs |-> ShardAddrs(x.master)] : x \in raw}
    BY <2>1
  <2> QED BY <1>3, <2>2 DEF ParseSlotsInfo, ShardAddrs
<1>5. n \in Nat
  BY <1>1, AnswerFinite
<1>6. /\ Len(q) = n
      /\ \A i \in 1 .. n : \E x \in raw : q[i] = Entry(x, a)
      /\ \A x \in raw : \E i \in 1 .. n : q[i] = Entry(x, a)
      /\ \A i, j \in 1 .. n : i < j => q[i].from < q[j].from
  <2> HIDE DEF a
  <2>1. IsListing(q, Cardinality(raw), raw, a)
    BY <1>1, <1>3, Listed
  <2> QED BY <2>1 DEF IsListing
<1>7. \A x \in raw : /\ Entry(x, a).from = x.from /\ Entry(x, a).to = x.to
                     /\ Entry(x, a).addrs[1] = x.master
  BY <1>2, ShardAddrsFacts DEF Entry
<1> HIDE DEF n, a
<1>8. random \in Nat /\ random < masterOnlyFlag
  BY <1>1, FewMasters
<1>9. \A x \in raw : masters[x.master] \in Nat /\ masters[x.master] < masterOnlyFlag
  <2>1. ASSUME NEW x \in raw PROVE masters[x.master] \in 0 .. random
    BY DEF Numberings, MastersIn
  <2>2. masterOnlyFlag \in Nat
    BY Sizes
  <2> QED BY <1>8, <2>1, <2>2
<1>10. ASSUME NEW s \in AllSlots, NEW x \in raw, x.from <= s, s <= x.to
       PROVE  want[s] = masters[x.master]
  <2>1. s \in Nat
    BY SlotNumbers
  <2>2. ASSUME NEW y \in Covering(raw, s) PROVE y = x
    <3>1. y \in raw /\ y.from <= s /\ s <= y.to
      BY <1>2, <2>1 DEF Covering
    <3> QED BY <1>2, <1>10, <2>1, <3>1
  <2>3. x \in Covering(raw, s)
    BY <1>2, <1>10, <2>1 DEF Covering
  <2>4. (CHOOSE y \in Covering(raw, s) : TRUE) = x
    BY <2>2, <2>3
  <2> QED BY <2>3, <2>4
<1>11. ASSUME NEW s \in AllSlots, \A x \in raw : ~ (x.from <= s /\ s <= x.to)
       PROVE  want[s] = random
  <2>1. s \in Nat
    BY SlotNumbers
  <2>2. Covering(raw, s) = {}
    BY <1>2, <1>11, <2>1 DEF Covering
  <2> QED BY <2>2
<1>12. LoopInput(q, n, masters, random, want)
  <2>1. ASSUME NEW j \in 1 .. n
        PROVE  /\ q[j].from \in AllSlots /\ q[j].to \in AllSlots /\ q[j].from <= q[j].to
               /\ masters[q[j].addrs[1]] \in Nat /\ masters[q[j].addrs[1]] < masterOnlyFlag
    <3>1. PICK x \in raw : q[j] = Entry(x, a)
      BY <1>6
    <3> QED BY <1>2, <1>7, <1>9, <3>1
  <2>2. ASSUME NEW j \in 1 .. n, NEW k \in 1 .. n, j < k PROVE q[j].to < q[k].from
    <3>1. PICK x \in raw : q[j] = Entry(x, a)
      BY <1>6
    <3>2. PICK y \in raw : q[k] = Entry(y, a)
      BY <1>6
    <3>3. q[j].from < q[k].from
      BY <1>6, <2>2
    <3>4. x.from < y.from /\ q[j].to = x.to /\ q[k].from = y.from
      BY <1>7, <3>1, <3>2, <3>3
    <3>5. x # y
      BY <1>2, <3>4
    <3> QED BY <1>2, <3>4, <3>5
  <2>3. ASSUME NEW s \in AllSlots, NEW j \in 1 .. n, q[j].from <= s, s <= q[j].to
        PROVE  want[s] = masters[q[j].addrs[1]]
    <3>1. PICK x \in raw : q[j] = Entry(x, a)
      BY <1>6
    <3>2. x.from <= s /\ s <= x.to /\ q[j].addrs[1] = x.master
      BY <1>7, <2>3, <3>1
    <3> QED BY <1>10, <3>2
  <2>4. ASSUME NEW s \in AllSlots, \A j \in 1 .. n : ~ (q[j].from <= s /\ s <= q[j].to)
        PROVE  want[s] = random
    <3>1. ASSUME NEW x \in raw PROVE ~ (x.from <= s /\ s <= x.to)
      <4>1. PICK j \in 1 .. n : q[j] = Entry(x, a)
        BY <1>6
      <4> QED BY <1>7, <2>4, <4>1
    <3> QED BY <1>11, <3>1
  <2> QED BY <1>5, <1>6, <1>8, <2>1, <2>2, <2>3, <2>4 DEF LoopInput
<1>13. IsFilled(FillSlots(q, masters, random, marked), want, marked)
  BY <1>5, <1>12, FillIsRight
<1> QED BY <1>4, <1>13

LEMMA TablesRight == EveryTableRight
<1> SUFFICES ASSUME NEW raw \in Answers, NEW masters \in Numberings(raw),
                    NEW marked \in SUBSET AllSlots,
                    NEW random, random = Cardinality(MastersIn(raw)) - 1
             PROVE  Table(FillSlots(ParseSlotsInfo(raw), masters, random, marked)) =
                      [s \in AllSlots |->
                        [shard |-> IF Covering(raw, s) = {} THEN random
                                   ELSE masters[(CHOOSE x \in Covering(raw, s) : TRUE).master],
                         asking |-> s \in marked]]
  BY DEF EveryTableRight
<1>1. PICK want : want = [s \in AllSlots |->
                            IF Covering(raw, s) = {} THEN random
                            ELSE masters[(CHOOSE x \in Covering(raw, s) : TRUE).master]]
  OBVIOUS
<1>2. IsFilled(FillSlots(ParseSlotsInfo(raw), masters, random, marked), want, marked)
  BY <1>1, TableFilled
<1>3. PICK t : t = Table(FillSlots(ParseSlotsInfo(raw), masters, random, marked))
  OBVIOUS
<1>4. t = [s \in AllSlots |-> [shard |-> want[s], asking |-> s \in marked]]
  BY <1>2, <1>3 DEF IsFilled
<1> QED BY <1>1, <1>3, <1>4

-----------------------------------------------------------------------------
(* CLUSTER NODES *)

ListType == [MasterAddrs -> Seq(Instances)]

ListStart == [m \in MasterAddrs |-> <<>>]

\* x is one of the first k lines.
Seen(lines, k, x) == \E i \in 1 .. k : lines[i] = x

Family(m) == {m} \cup ReplicasOf(m)

\* What is known of the shards after the first k lines.
ListInv(lines, known, k) ==
    /\ known \in ListType
    /\ \A m \in MasterAddrs :
          /\ ToSet(known[m]) = {x \in Family(m) : Seen(lines, k, x)}
          /\ Seen(lines, k, m) => NonEmpty(known[m]) /\ known[m][1] = m

LEMMA AddLineType ==
    ASSUME NEW known \in ListType, NEW x \in Instances
    PROVE  AddLine(known, x) \in ListType
<1>1. CASE x \in ReplicaAddrs
  <2>1. ReplicaOf[x] \in MasterAddrs
    BY <1>1, WordsAssumption
  <2>2. Append(known[ReplicaOf[x]], x) \in Seq(Instances)
    BY <2>1 DEF ListType
  <2> QED BY <1>1, <2>1, <2>2 DEF AddLine, ListType
<1>2. CASE x \notin ReplicaAddrs
  <2>1. x \in MasterAddrs
    BY <1>2 DEF Instances
  <2>2. <<x>> \o known[x] \in Seq(Instances)
    BY <2>1 DEF ListType
  <2> QED BY <1>2, <2>1, <2>2 DEF AddLine, ListType, MasterFirst
<1> QED BY <1>1, <1>2

LEMMA ListStep ==
    ASSUME NEW lines, NEW known, NEW k \in Nat, ListInv(lines, known, k),
           NEW x \in Instances, x = lines[k + 1],
           NEW new, new = AddLine(known, x)
    PROVE  ListInv(lines, new, k + 1)
<1>1. \A y : Seen(lines, k + 1, y) <=> y = x \/ Seen(lines, k, y)
  <2>1. ASSUME NEW y, Seen(lines, k + 1, y) PROVE y = x \/ Seen(lines, k, y)
    <3>1. PICK i \in 1 .. k + 1 : lines[i] = y
      BY <2>1 DEF Seen
    <3>2. i = k + 1 \/ i \in 1 .. k
      OBVIOUS
    <3> QED BY <3>1, <3>2 DEF Seen
  <2>2. ASSUME NEW y, Seen(lines, k, y) PROVE Seen(lines, k + 1, y)
    <3>1. PICK i \in 1 .. k : lines[i] = y
      BY <2>2 DEF Seen
    <3>2. i \in 1 .. k + 1
      OBVIOUS
    <3> QED BY <3>1, <3>2 DEF Seen
  <2>3. Seen(lines, k + 1, x)
    <3>1. k + 1 \in 1 .. k + 1
      OBVIOUS
    <3> QED BY <3>1 DEF Seen
  <2> QED BY <2>1, <2>2, <2>3
<1>2. known \in ListType /\ new \in ListType
  BY AddLineType DEF ListInv
<1>3. MasterAddrs \cap ReplicaAddrs = {} /\ ReplicaOf \in [ReplicaAddrs -> MasterAddrs]
  BY WordsAssumption
<1>4. \A m \in MasterAddrs :
        /\ known[m] \in Seq(Instances)
        /\ ToSet(known[m]) = {y \in Family(m) : Seen(lines, k, y)}
        /\ Seen(lines, k, m) => NonEmpty(known[m]) /\ known[m][1] = m
  BY <1>2 DEF ListInv, ListType
<1>5. ASSUME NEW m \in MasterAddrs, x \in Family(m), NEW q, new[m] = q,
             NonEmpty(q), ToSet(q) = {x} \cup ToSet(known[m]),
             x = m \/ Seen(lines, k, m) => q[1] = m
      PROVE  /\ ToSet(new[m]) = {y \in Family(m) : Seen(lines, k + 1, y)}
             /\ Seen(lines, k + 1, m) => NonEmpty(new[m]) /\ new[m][1] = m
  <2>1. ToSet(new[m]) = {y \in Family(m) : Seen(lines, k + 1, y)}
    <3>1. ToSet(known[m]) = {y \in Family(m) : Seen(lines, k, y)}
      BY <1>4
    <3> QED BY <1>1, <1>5, <3>1
  <2>2. ASSUME Seen(lines, k + 1, m) PROVE NonEmpty(new[m]) /\ new[m][1] = m
    <3>1. x = m \/ Seen(lines, k, m)
      BY <1>1, <2>2
    <3> QED BY <1>5, <3>1
  <2> QED BY <2>1, <2>2
<1>6. ASSUME NEW m \in MasterAddrs, x \notin Family(m), new[m] = known[m]
      PROVE  /\ ToSet(new[m]) = {y \in Family(m) : Seen(lines, k + 1, y)}
             /\ Seen(lines, k + 1, m) => NonEmpty(new[m]) /\ new[m][1] = m
  <2>1. ToSet(new[m]) = {y \in Family(m) : Seen(lines, k + 1, y)}
    <3>1. ToSet(known[m]) = {y \in Family(m) : Seen(lines, k, y)}
      BY <1>4
    <3> QED BY <1>1, <1>6, <3>1
  <2>2. ASSUME Seen(lines, k + 1, m) PROVE Seen(lines, k, m)
    BY <1>1, <1>6, <2>2 DEF Family
  <2> QED BY <1>4, <1>6, <2>1, <2>2
<1>7. ASSUME NEW m \in MasterAddrs
      PROVE  /\ ToSet(new[m]) = {y \in Family(m) : Seen(lines, k + 1, y)}
             /\ Seen(lines, k + 1, m) => NonEmpty(new[m]) /\ new[m][1] = m
  <2>1. CASE x \in ReplicaAddrs
    <3>1. new = [known EXCEPT ![ReplicaOf[x]] = Append(@, x)]
      BY <2>1 DEF AddLine
    <3>2. CASE ReplicaOf[x] = m
      <4>1. PICK q : q = Append(known[m], x)
        OBVIOUS
      <4>2. new[m] = q
        BY <1>2, <3>1, <3>2, <4>1 DEF ListType
      <4>3. NonEmpty(q) /\ (NonEmpty(known[m]) => q[1] = known[m][1]) /\ ToSet(q) = {x} \cup ToSet(known[m])
        <5>1. Grown(q, Instances, x, known[m], HeadOr(known[m], x))
          BY <1>4, <4>1, Appended
        <5> QED BY <5>1 DEF Grown, HeadOr
      <4>4. x \in Family(m) /\ x # m
        BY <1>3, <2>1, <3>2 DEF Family, ReplicasOf
      <4>5. x = m \/ Seen(lines, k, m) => q[1] = m
        BY <1>4, <4>3, <4>4
      <4> QED BY <1>5, <4>2, <4>3, <4>4, <4>5
    <3>3. CASE ReplicaOf[x] # m
      <4>1. x \notin Family(m)
        BY <1>3, <2>1, <3>3 DEF Family, ReplicasOf
      <4>2. new[m] = known[m]
        BY <1>2, <3>1, <3>3 DEF ListType
      <4> QED BY <1>6, <4>1, <4>2
    <3> QED BY <3>2, <3>3
  <2>2. CASE x \notin ReplicaAddrs
    <3>1. new = [known EXCEPT ![x] = MasterFirst(x, @)] /\ x \in MasterAddrs
      BY <2>2 DEF AddLine, Instances
    <3>2. CASE x = m
      <4>1. PICK q : q = MasterFirst(x, known[m])
        OBVIOUS
      <4>2. new[m] = q
        BY <1>2, <3>1, <3>2, <4>1 DEF ListType
      <4>3. NonEmpty(q) /\ q[1] = x /\ ToSet(q) = {x} \cup ToSet(known[m])
        <5>1. Grown(q, Instances, x, known[m], x)
          BY <1>4, <4>1, Prepended
        <5> QED BY <5>1 DEF Grown
      <4>4. x \in Family(m)
        BY <3>2 DEF Family
      <4> QED BY <1>5, <3>2, <4>2, <4>3, <4>4
    <3>3. CASE x # m
      <4>1. x \notin Family(m)
        BY <2>2, <3>3 DEF Family, ReplicasOf
      <4>2. new[m] = known[m]
        BY <1>2, <3>1, <3>3 DEF ListType
      <4> QED BY <1>6, <4>1, <4>2
    <3> QED BY <3>2, <3>3
  <2> QED BY <2>1, <2>2
<1> QED BY <1>2, <1>7 DEF ListInv

\* The recursive definition of uuid2addrs.
ListRuns(known, lines, n) ==
    known[0] = ListStart /\ \A i \in 1 .. n : known[i] = AddLine(known[i - 1], lines[i])

LEMMA ListingRuns ==
    ASSUME NEW n \in Nat, NEW lines \in [1 .. n -> Instances], Len(lines) = n,
           NEW known, known = Uuid2addrs(lines)
    PROVE  ListRuns(known, lines, n)
<1> DEFINE V == ListType
           v0 == ListStart
           body == [x \in (1 .. n) \X V |-> AddLine(x[2], lines[x[1]])]
           Is(g) == g = [i \in 0 .. n |-> IF i = 0 THEN v0 ELSE AddLine(g[i - 1], lines[i])]
<1>1. v0 \in V
  BY DEF ListType, ListStart
<1>2. body \in [(1 .. n) \X V -> V]
  <2> HIDE DEF V
  <2>1. ASSUME NEW x \in (1 .. n) \X V PROVE AddLine(x[2], lines[x[1]]) \in V
    <3>1. x[2] \in V /\ lines[x[1]] \in Instances
      OBVIOUS
    <3> QED BY <3>1, AddLineType DEF V
  <2> QED BY <2>1
<1>3. PICK f : RunOf(f, V, v0, n, body)
  <2> HIDE DEF V, v0, body, Is
  <2> QED BY <1>1, <1>2, LoopRuns
<1>4. f \in [0 .. n -> V] /\ f[0] = v0 /\ \A i \in 1 .. n : f[i] = body[<<i, f[i - 1]>>]
  <2> HIDE DEF V, v0, body, Is
  <2> QED BY <1>3 DEF RunOf
<1>5. Is(f)
  <2> HIDE DEF V, v0
  <2>1. ASSUME NEW i \in 0 .. n, i # 0 PROVE f[i] = AddLine(f[i - 1], lines[i])
    <3>1. i \in 1 .. n /\ i - 1 \in 0 .. n
      BY <2>1
    <3>2. f[i - 1] \in V
      BY <1>4, <3>1
    <3> QED BY <1>4, <3>1, <3>2
  <2>2. f = [i \in 0 .. n |-> f[i]]
    BY <1>4
  <2>3. \A i \in 0 .. n : f[i] = IF i = 0 THEN v0 ELSE AddLine(f[i - 1], lines[i])
    BY <1>4, <2>1
  <2> HIDE DEF body
  <2> QED BY <2>2, <2>3
<1>6. known = CHOOSE g : Is(g)
  BY Zenon DEF Uuid2addrs, ListStart
<1>7. Is(known)
  <2> HIDE DEF Is
  <2> QED BY <1>5, <1>6, Zenon
<1> HIDE DEF v0
<1>8. known[0] = v0 /\ \A i \in 1 .. n : known[i] = AddLine(known[i - 1], lines[i])
  BY <1>7
<1> QED BY <1>8 DEF v0, ListRuns

\* Once all the instances have been seen each shard has its addresses, and the
\* master's comes first.
LEMMA ListResult ==
    ASSUME NEW lines \in Listings, NEW m \in MasterAddrs, NEW a,
           a = Uuid2addrs(lines)[Len(lines)]
    PROVE  a[m][1] = m /\ ToSet(a[m]) = Family(m)
<1>1. PICK n : n = Cardinality(Instances)
  OBVIOUS
<1>2. IsFiniteSet(Instances) /\ n \in Nat
  BY <1>1, WordsAssumption, FS_CardinalityType
<1>3. lines \in [1 .. n -> Instances] /\ \A i, j \in 1 .. n : lines[i] = lines[j] => i = j
  BY <1>1 DEF Listings
<1>4. Len(lines) = n
  BY <1>2, <1>3
<1>5. \A x \in Instances : Seen(lines, n, x)
  <2>1. lines \in Injection(1 .. n, Instances)
    BY <1>3 DEF Injection, IsInjective
  <2>2. Cardinality(1 .. n) = n
    BY <1>2, FS_Interval
  <2>3. lines \in Surjection(1 .. n, Instances)
    BY <1>1, <1>2, <2>1, <2>2, FS_Injection
  <2> QED BY <2>3 DEF Surjection, Seen
<1>6. PICK known : known = Uuid2addrs(lines)
  OBVIOUS
<1>7. ListRuns(known, lines, n)
  BY <1>2, <1>3, <1>4, <1>6, ListingRuns
<1> DEFINE S == {k \in 0 .. n : ListInv(lines, known[k], k)}
<1>8. 0 \in S
  <2>1. \A x : ~ Seen(lines, 0, x)
    BY DEF Seen
  <2>2. ListStart \in ListType /\ \A p \in MasterAddrs : ListStart[p] = <<>>
    BY DEF ListStart, ListType
  <2>3. \A p \in MasterAddrs : ToSet(ListStart[p]) = {}
    BY <2>2 DEF ToSet
  <2>4. ListInv(lines, ListStart, 0)
    BY <2>1, <2>2, <2>3 DEF ListInv
  <2> QED BY <1>2, <1>7, <2>4 DEF ListRuns
<1>9. ASSUME NEW k \in 1 .. n, k - 1 \in S PROVE k \in S
  <2>1. k - 1 \in Nat /\ (k - 1) + 1 = k /\ lines[k] \in Instances
    BY <1>2, <1>3
  <2>2. ListInv(lines, known[k - 1], k - 1)
    BY <1>9
  <2>3. known[k] = AddLine(known[k - 1], lines[k])
    BY <1>7 DEF ListRuns
  <2>4. ListInv(lines, known[k], (k - 1) + 1)
    BY <2>1, <2>2, <2>3, ListStep
  <2> QED BY <2>1, <2>4
<1>10. n \in S
  <2> HIDE DEF S
  <2> QED BY SMTT(30), <1>2, <1>8, <1>9, UpTo
<1>11. a = known[n]
  BY <1>4, <1>6
<1>12. ListInv(lines, a, n)
  BY <1>10, <1>11
<1>13. Family(m) \subseteq Instances /\ m \in Family(m)
  BY DEF Family, ReplicasOf, Instances
<1> QED BY <1>5, <1>12, <1>13 DEF ListInv

\* Two listings of the same ranges.
LEMMA SameListing ==
    ASSUME NEW raw, IsAnswer(raw), NEW n, n = Cardinality(raw), NEW a, NEW b, NEW p, NEW q,
           IsListing(p, n, raw, a), IsListing(q, n, raw, b),
           \A m \in MasterAddrs : a[m][1] = b[m][1] /\ ToSet(a[m]) = ToSet(b[m])
    PROVE  SameRanges(p, q)
<1>1. n \in Nat /\ \A x, y \in raw : x.from = y.from => x = y
  BY AnswerFinite
<1>2. \A x \in raw : x.from \in Int /\ x.master \in MasterAddrs
  BY SlotNumbers DEF IsAnswer
<1>3. \A x \in raw : Entry(x, a).from = x.from /\ Entry(x, b).from = x.from
  BY DEF Entry
<1> DEFINE f == [i \in 1 .. n |-> p[i].from]
           g == [i \in 1 .. n |-> q[i].from]
<1>4. /\ \A i \in 1 .. n : \E x \in raw : p[i] = Entry(x, a)
      /\ \A x \in raw : \E i \in 1 .. n : p[i] = Entry(x, a)
      /\ \A i \in 1 .. n : \E x \in raw : q[i] = Entry(x, b)
      /\ \A x \in raw : \E i \in 1 .. n : q[i] = Entry(x, b)
  BY DEF IsListing
<1>5. f \in [1 .. n -> Int] /\ g \in [1 .. n -> Int]
  <2>1. ASSUME NEW i \in 1 .. n PROVE p[i].from \in Int /\ q[i].from \in Int
    <3>1. PICK x \in raw : p[i] = Entry(x, a)
      BY <1>4
    <3>2. PICK y \in raw : q[i] = Entry(y, b)
      BY <1>4
    <3> QED BY <1>2, <1>3, <3>1, <3>2
  <2> QED BY <2>1
<1>6. \A i, j \in 1 .. n : i < j => f[i] < f[j]
  BY DEF IsListing
<1>7. \A i, j \in 1 .. n : i < j => g[i] < g[j]
  BY DEF IsListing
<1>8. \A i \in 1 .. n : \E j \in 1 .. n : f[i] = g[j]
  <2> SUFFICES ASSUME NEW i \in 1 .. n PROVE \E j \in 1 .. n : f[i] = g[j]
    OBVIOUS
  <2>1. PICK x \in raw : p[i] = Entry(x, a)
    BY <1>4
  <2>2. PICK j \in 1 .. n : q[j] = Entry(x, b)
    BY <1>4
  <2>3. f[i] = g[j]
    BY <1>3, <2>1, <2>2
  <2> QED BY <2>3
<1>9. \A i \in 1 .. n : \E j \in 1 .. n : g[i] = f[j]
  <2> SUFFICES ASSUME NEW i \in 1 .. n PROVE \E j \in 1 .. n : g[i] = f[j]
    OBVIOUS
  <2>1. PICK x \in raw : q[i] = Entry(x, b)
    BY <1>4
  <2>2. PICK j \in 1 .. n : p[j] = Entry(x, a)
    BY <1>4
  <2>3. g[i] = f[j]
    BY <1>3, <2>1, <2>2
  <2> QED BY <2>3
<1>10. \A i \in 1 .. n : f[i] = g[i]
  <2> HIDE DEF f, g
  <2> QED BY ZenonT(40), <1>1, <1>5, <1>6, <1>7, <1>8, <1>9, SameOrder
<1>11. ASSUME NEW i \in 1 .. n
       PROVE  /\ p[i].from = q[i].from /\ p[i].to = q[i].to
              /\ p[i].addrs[1] = q[i].addrs[1] /\ ToSet(p[i].addrs) = ToSet(q[i].addrs)
  <2>1. PICK x \in raw : p[i] = Entry(x, a)
    BY <1>4
  <2>2. PICK y \in raw : q[i] = Entry(y, b)
    BY <1>4
  <2>3. x = y
    BY <1>1, <1>3, <1>10, <2>1, <2>2
  <2>4. p[i].addrs = a[x.master] /\ q[i].addrs = b[x.master] /\ p[i].to = x.to /\ q[i].to = x.to
    BY <2>1, <2>2, <2>3 DEF Entry
  <2> QED BY <1>2, <1>3, <2>1, <2>2, <2>3, <2>4
<1>12. Len(p) = n /\ Len(q) = n /\ DOMAIN p = 1 .. n
  BY DEF IsListing
<1> QED BY <1>11, <1>12 DEF SameRanges

LEMMA ListsRight == EveryListRight
<1> SUFFICES ASSUME NEW owner \in Owners, NEW lines \in Listings, NEW raw, raw = RangesOf(owner, {})
             PROVE  SameRanges(ParseSlotsInfo(raw), SlotsRanges(lines, raw))
  BY DEF EveryListRight
<1> DEFINE a == [m \in MasterAddrs |-> ShardAddrs(m)]
<1>1. IsAnswer(raw)
  BY AnswerFacts
<1>2. PICK b : b = Uuid2addrs(lines)[Len(lines)]
  OBVIOUS
<1>3. \A m \in MasterAddrs : b[m][1] = m /\ ToSet(b[m]) = Family(m)
  BY <1>2, ListResult
<1>4. \A m \in MasterAddrs : a[m][1] = m /\ ToSet(a[m]) = Family(m)
  BY ShardAddrsFacts DEF Family
<1>5. ParseSlotsInfo(raw) = ByFrom({Entry(x, a) : x \in raw})
  <2>1. \A x \in raw : Entry(x, a) = [from |-> x.from, to |-> x.to, addrs |-> ShardAddrs(x.master)]
    BY <1>1 DEF Entry, IsAnswer
  <2>2. {Entry(x, a) : x \in raw} =
          {[from |-> x.from, to |-> x.to, addrs |-> ShardAddrs(x.master)] : x \in raw}
    BY <2>1
  <2> QED BY <2>2 DEF ParseSlotsInfo, ShardAddrs
<1>6. SlotsRanges(lines, raw) = ByFrom({Entry(x, b) : x \in raw})
  BY <1>2 DEF SlotsRanges, Entry
<1> HIDE DEF a
<1>7. PICK p : p = ParseSlotsInfo(raw)
  OBVIOUS
<1>8. PICK q : q = SlotsRanges(lines, raw)
  OBVIOUS
<1>9. IsListing(p, Cardinality(raw), raw, a) /\ IsListing(q, Cardinality(raw), raw, b)
  BY <1>1, <1>5, <1>6, <1>7, <1>8, Listed
<1>10. \A m \in MasterAddrs : a[m][1] = b[m][1] /\ ToSet(a[m]) = ToSet(b[m])
  BY <1>3, <1>4
<1>11. SameRanges(p, q)
  BY <1>1, <1>9, <1>10, SameListing
<1> QED BY <1>7, <1>8, <1>11

-----------------------------------------------------------------------------
(* Both together *)

\* The shards of a configuration have numbers below NumSlots, and so has the
\* shard of every slot, before the first configuration too.
FewShards == Len(shards) <= NumSlots /\ \A s \in Slots : slots[s].shard \in 0 .. Len(shards)

LEMMA FewShardsStep == ASSUME Inv, Inv', FewShards, [Next]_vars PROVE FewShards'
<1>0. shards \in Seq(Seq(Addrs)) /\ slots \in [Slots -> SlotEntry]
  BY DEF Inv, TypeOK
<1>1. CASE \E t \in Topologies, f \in {force, {}, migrating} : Reload(t, f)
  <2>1. PICK t \in Topologies : shards' = t.shards /\ reloads' = reloads + 1
    BY <1>1 DEF Reload
  <2>2. Len(shards') <= NumSlots
    BY <2>1, ShardsAssumption
  <2>3. reloads' > 0
    BY <2>1 DEF Inv, TypeOK
  <2>4. shards' \in Seq(Seq(Addrs))
    BY DEF Inv, TypeOK
  <2>5. DOMAIN shards' = 1 .. Len(shards') /\ Len(shards') \in Nat
    BY <2>4
  <2>6. \A s \in Slots : slots'[s].shard \in 1 .. Len(shards')
    BY <2>3, <2>5 DEF Inv, SlotsHaveShards
  <2>7. \A s \in Slots : slots'[s].shard \in 0 .. Len(shards')
    BY <2>5, <2>6
  <2> QED BY <2>2, <2>7 DEF FewShards
<1>2. CASE UNCHANGED <<shards, slots>>
  BY <1>2 DEF FewShards
<1>3. CASE MarkAsking
  <2>1. shards' = shards /\ slots' = [s \in Slots |-> IF s \in asking /\ ~stale THEN Marked(s) ELSE slots[s]]
    BY <1>3 DEF MarkAsking
  <2>2. \A s \in Slots : Marked(s).shard = slots[s].shard
    BY <1>0 DEF Marked, SlotEntry
  <2>3. \A s \in Slots : slots'[s].shard = slots[s].shard
    BY <2>1, <2>2
  <2> QED BY <2>1, <2>3 DEF FewShards
<1>4. CASE ExecMoved
  <2>1. UNCHANGED shards
    BY <1>4 DEF ExecMoved
  <2>2. PICK cmd : cmd = Head(commands)
    OBVIOUS
  <2>3. CASE UNCHANGED slots
    BY <2>1, <2>3 DEF FewShards
  <2>4. CASE /\ cmd.addr \in MastersOf(shards)
             /\ slots' = [slots EXCEPT ![cmd.slot] = [shard |-> ShardOf(cmd.addr), asking |-> FALSE]]
    <3>1. ShardOf(cmd.addr) \in DOMAIN shards
      BY <2>4 DEF MastersOf, ShardOf
    <3>2. DOMAIN shards \subseteq 0 .. Len(shards)
      BY <1>0
    <3>3. PICK new : new = ShardOf(cmd.addr)
      OBVIOUS
    <3>4. \A s \in Slots : slots'[s].shard = slots[s].shard \/ slots'[s].shard = new
      BY <1>0, <2>4, <3>3
    <3>5. new \in 0 .. Len(shards)
      BY <3>1, <3>2, <3>3
    <3> QED BY <2>1, <3>4, <3>5 DEF FewShards
  <2> QED BY <1>4, <2>2, <2>3, <2>4 DEF ExecMoved
<1>5. \/ \E t \in Topologies, f \in {force, {}, migrating} : Reload(t, f)
      \/ UNCHANGED <<shards, slots>> \/ MarkAsking \/ ExecMoved
  BY DEF Next, vars, cfgVars, FirstReload, EndReload, FirstReloadFails, TickReload, ForcedReload,
         AllowForced, ForceReloading, Close, ControlDone, ExecAsking, SendAsking, Migrate, SendMoved,
         SendCommand, ctlVars, AddNode
<1> QED BY <1>1, <1>2, <1>3, <1>4, <1>5

LEMMA InitFewShards == Init => FewShards
<1> SUFFICES ASSUME Init PROVE FewShards
  OBVIOUS
<1>1. Len(shards) = 0 /\ \A s \in Slots : slots[s].shard = 0
  BY DEF Init
<1> QED BY <1>1, SlotNumbers DEF FewShards

LEMMA FewShardsFit == FewShards /\ TypeOK => Fits
<1> SUFFICES ASSUME FewShards, TypeOK, NEW s \in Slots PROVE slots[s].shard - 1 < masterOnlyFlag
  BY DEF Fits
<1>1. Len(shards) \in Nat
  BY DEF TypeOK
<1>2. slots[s].shard \in Nat /\ slots[s].shard <= NumSlots
  BY <1>1, SlotNumbers DEF FewShards
<1>3. NumSlots \in Nat /\ NumSlots <= masterOnlyFlag /\ masterOnlyFlag \in Nat
  BY WordsAssumption, SMT DEF masterOnlyFlag
<1> QED BY <1>2, <1>3

LEMMA ChangesRight == EveryChangeRight
<1> DEFINE shardNos == {0, 1, masterOnlyFlag - 1}
           halves == shardNos \cup {x + masterOnlyFlag : x \in shardNos}
           contents == {x[1] + x[2] * HalfSize : x \in halves \X halves}
<1>1. \A x \in shardNos : x \in Nat /\ x < masterOnlyFlag
  BY SMT DEF masterOnlyFlag
<1>2. halves \subseteq Nat
  <2>1. \A x \in shardNos : x + masterOnlyFlag \in Nat
    BY <1>1, Sizes
  <2> HIDE DEF shardNos
  <2> QED BY <1>1, <2>1
<1>3. contents \subseteq Nat
  <2> HIDE DEF halves
  <2>1. ASSUME NEW x \in halves \X halves PROVE x[1] + x[2] * HalfSize \in Nat
    <3>1. x[1] \in Nat /\ x[2] \in Nat
      BY <1>2
    <3>2. x[2] * HalfSize \in Nat
      BY <3>1, Sizes, Divide
    <3> QED BY <3>1, <3>2
  <2> QED BY <2>1
<1> HIDE DEF shardNos, contents
<1>4. ASSUME NEW words \in [WordNos -> contents], NEW s \in AllSlots, NEW shard \in shardNos
      PROVE  ChangeRight(words, s, shard)
  <2>1. words \in [WordNos -> Nat]
    BY <1>3
  <2> QED BY <1>1, <2>1, ChangeIsRight
<1> QED BY <1>4 DEF EveryChangeRight, shardNos, contents

\* The words the table is kept in hold what the table is modelled to hold: for
\* any even number of slots up to 16384, any masters and replicas, any answer
\* of the cluster, any order the shards are numbered in and any slots that are
\* to be read from masters only, updateMappings fills in the reported shards and
\* the flags; CLUSTER NODES and CLUSTER SLOTS give the same ranges; no shard a
\* configuration ever gives to a slot reaches into the flag.
THEOREM TableIsRight == Spec => []TableRight
<1>1. Init => Inv /\ FewShards
  BY InitInv, InitFewShards
<1>2. Inv /\ FewShards /\ [Next]_vars => Inv' /\ FewShards'
  BY NextInv, FewShardsStep
<1>3. Inv /\ FewShards => TableRight
  BY FewShardsFit, TablesRight, ListsRight, ChangesRight DEF TableRight, Inv
<1> QED BY <1>1, <1>2, <1>3, PTL DEF Spec

\* slotSetShard and slotMarkAsking change one entry of the table in the way
\* ExecMoved and MarkAsking do, and leave every other slot alone, the other
\* half of the word too: for every content of the words and every shard that
\* leaves room for the flag, more than the contents TableRight names.
THEOREM EveryWordChangesRight ==
    \A words \in [WordNos -> Nat], s \in AllSlots, shard \in Nat :
        shard < masterOnlyFlag => ChangeRight(words, s, shard)
BY ChangeIsRight

=============================================================================
