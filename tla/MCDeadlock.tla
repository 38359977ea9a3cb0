---------------------------- MODULE MCDeadlock ----------------------------
(***************************************************************************)
(* Instances of the deadlock detector for TLC.                             *)
(***************************************************************************)
EXTENDS Deadlock

Simetria == Permutations(Carpinchos)
=============================================================================
