--------------------------- MODULE MCReplicaLocks ---------------------------
(* ReplicaLocks for TLC. *)
EXTENDS ReplicaLocks
=============================================================================
