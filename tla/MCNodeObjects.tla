--------------------------- MODULE MCNodeObjects ---------------------------
(* A small instance of NodeObjects for TLC. *)
EXTENDS NodeObjects

\* An upgrade: replica 2 has a new template and load balancers.
MCOptionsOf(p) ==
    [template |-> IF p = 1 THEN "old" ELSE "new", EnableCiliumLB |-> p = 2]
===========================================================================
