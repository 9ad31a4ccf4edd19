-------------------------- MODULE MCClusterRequest --------------------------
(***************************************************************************)
(* Small instances of ClusterRequest; the .cfg files give all constants.   *)
(***************************************************************************)
EXTENDS ClusterRequest

=============================================================================
