-------------------------- MODULE MCPlanningEvents --------------------------
(***************************************************************************)
(* Model-checking instances of PlanningEvents.                             *)
(***************************************************************************)
EXTENDS PlanningEvents, TLC

\* Members are interchangeable.
Symmetry == Permutations(Members)
=============================================================================
