--------------------------- MODULE MCDurableStore ---------------------------
(* Values for the model checker: one or two rows, one or two threads and a  *)
(* short checkpoint interval, so that a few commands reach a checkpoint.    *)
EXTENDS DurableStore

CONSTANTS admin, u1, root, v1, t1, t2
=============================================================================
