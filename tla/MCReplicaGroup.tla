--------------------------- MODULE MCReplicaGroup ---------------------------
(* Values for the model checker: one row, three servers.                    *)
EXTENDS ReplicaGroup

CONSTANTS admin, u1, root, v1
=============================================================================
