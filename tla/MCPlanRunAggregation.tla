-------------------------- MODULE MCPlanRunAggregation --------------------------
(* A run of two jobs, each on a host of its own. *)
EXTENDS PlanRunAggregation, TLC

CONSTANTS j1, j2, h1, h2, t1, t2

OwnHost == j1 :> h1 @@ j2 :> h2
=============================================================================
