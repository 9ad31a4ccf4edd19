--------------------------- MODULE MCClusterNodes ---------------------------
(***************************************************************************)
(* A small cluster: hostA is the seed, the others come and go with         *)
(* failovers and redirects.                                                *)
(***************************************************************************)
EXTENDS ClusterNodes

CONSTANTS hostA, hostB, hostC

Seeds == <<hostA>>
Failovers == {{hostA}, {hostA, hostB}, {hostC}}

=============================================================================
