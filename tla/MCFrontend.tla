----------------------------- MODULE MCFrontend -----------------------------
(* Values for the model checker: two users in two groups, two browsers.     *)
EXTENDS Frontend, TLC

CONSTANTS admin, u1, b1, b2

MCHash == admin :> 2 @@ u1 :> 1
Symmetry == Permutations(Browser)
=============================================================================
