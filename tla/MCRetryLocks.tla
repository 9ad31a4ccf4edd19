---------------------------- MODULE MCRetryLocks ----------------------------
(* RetryLocks for three connections: the constants are given by the .cfg.   *)
EXTENDS RetryLocks
=============================================================================
