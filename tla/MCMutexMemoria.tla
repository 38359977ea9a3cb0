---------------------------- MODULE MCMutexMemoria ----------------------------
(***************************************************************************)
(* Instances of the mutexes of memoria for TLC.                            *)
(***************************************************************************)
EXTENDS MutexMemoria
=============================================================================
