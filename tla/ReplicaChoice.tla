--------------------------- MODULE ReplicaChoice ---------------------------
(* Replicas keeps the mask of healthy replicas that ConnChoice reads.       *)
EXTENDS Replicas, ConnChoice

\* Whatever the seed and the mask that answers have left, the search of
\* connForSlot ends; it finds a connection if there is one that is allowed, was
\* not used by the request before and may be connected, and it prefers an
\* established one.
ChoiceRight ==
    /\ \A s \in DOMAIN shards : shards[s].good \in Masks(Len(shards[s].addr))
    /\ EveryChoiceRight

=============================================================================
