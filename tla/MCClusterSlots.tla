--------------------------- MODULE MCClusterSlots ---------------------------
(***************************************************************************)
(* One slot.  It belongs to the first of two shards, fails over to the     *)
(* replica of that shard, or is not covered by the reported ranges.        *)
(***************************************************************************)
EXTENDS SlotTables

CONSTANTS hostA, hostB, hostC

OneSlot == {0}
Topology(shardList, shardOfSlot) == [shards |-> shardList, slots |-> [s \in Slots |-> shardOfSlot]]
Failover == {Topology(<<<<hostA, hostC>>, <<hostB>>>>, 1), Topology(<<<<hostC>>>>, 1),
             Topology(<<<<hostB>>, <<hostC>>>>, 0)}

\* Two masters, the first of them with two replicas.
TwoMasters == {1, 2}
ThreeReplicas == (3 :> 1) @@ (4 :> 1) @@ (5 :> 2)

=============================================================================
