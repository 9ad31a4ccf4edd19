------------------------------ MODULE MCCallers ------------------------------
(* A blocking call or an iteration of every kind over a Sender.             *)
EXTENDS Scanning

Everything == CallKinds \cup ScanKinds

=============================================================================
