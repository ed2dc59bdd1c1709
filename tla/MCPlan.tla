-------------------------------- MODULE MCPlan --------------------------------
(* A plan for the run of TaskPlan alone: a task beside two in a chain.     *)
EXTENDS TaskPlan

BesideAChain == {<<{}, {1}, {}>>}
=============================================================================
