----------------------------- MODULE MCRollout -----------------------------
(* Small instances of Rollout for TLC. *)
EXTENDS Rollout

\* Every template has an image of its own, except "old" and its variant.
MCImageOf(template) == IF template = "variant" THEN "old" ELSE template

LimitNodes == [restart |-> 0, node |-> 1, fault |-> 1]
LimitRedeploy == [restart |-> 1, node |-> 0, fault |-> 0]
LimitLive == [restart |-> 0, node |-> 0, fault |-> 1]
===========================================================================
