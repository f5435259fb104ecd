--------------------------- MODULE MCLoadBalancer ---------------------------
(* Values for the model checker: two browsers and the heartbeat thread.     *)
EXTENDS LoadBalancer

CONSTANTS c1, c2
=============================================================================
