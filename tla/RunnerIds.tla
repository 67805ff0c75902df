----------------------------- MODULE RunnerIds ------------------------------
(* The runner ids, shared by the planner, the runners and the manager.      *)
CONSTANT Runners
=============================================================================
