------------------------------- MODULE MCSwamp -------------------------------
(***************************************************************************)
(* Instances of Swamp for TLC.  Processes, and contents, are               *)
(* interchangeable: no action tells one from another (Terminan is all of   *)
(* them or none where the symmetry is used).                               *)
(***************************************************************************)
EXTENDS Swamp, TLC

Simetria == Permutations(Procesos) \cup Permutations(Contenidos)
=============================================================================
