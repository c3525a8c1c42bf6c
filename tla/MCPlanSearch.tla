---------------------------- MODULE MCPlanSearch ----------------------------
(***************************************************************************)
(* The tree on which TLC compares the plans of PlanSearch with the best.   *)
(***************************************************************************)
EXTENDS PlanSearch

\* The root has two children, the first of which has one.
MCTree == <<<<2, 3>>, <<4>>, <<>>, <<>>>>
=============================================================================
