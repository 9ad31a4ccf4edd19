----------------------------- MODULE SlotTables -----------------------------
(* ClusterSlots has one entry per slot, SlotWords the words they are kept in. *)
EXTENDS ClusterSlots, SlotWords

\* A shard is reported for at least one slot.
ASSUME ShardsAssumption == \A t \in Topologies : Len(t.shards) <= NumSlots

\* The number of a shard, which counts from 0 in the code and from 1 in ClusterSlots,
\* does not reach into the flag of its slot.
Fits == \A s \in Slots : slots[s].shard - 1 < masterOnlyFlag

\* Every slot of a reported range leads to the shard of its master, every other
\* slot to some shard, and just the slots of internallyForceMasterOnly are
\* flagged, however the ranges are cut and the shards numbered.  CLUSTER NODES
\* gives the same ranges in whatever order it lists the instances.  slotSetShard
\* and slotMarkAsking do to a word what ExecMoved and MarkAsking do to the table,
\* and leave the other slot of the word alone.
TableRight == Fits /\ EveryTableRight /\ EveryListRight /\ EveryChangeRight

=============================================================================
