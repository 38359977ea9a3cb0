-------------------------- MODULE MCPlanificador --------------------------
(***************************************************************************)
(* Instances of the scheduler for TLC.                                     *)
(***************************************************************************)
EXTENDS Planificador

Simetria == Permutations(Carpinchos)
=============================================================================
