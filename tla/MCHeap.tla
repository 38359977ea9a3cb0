-------------------------------- MODULE MCHeap --------------------------------
(***************************************************************************)
(* Instances of the heap of a carpincho for TLC.                           *)
(***************************************************************************)
EXTENDS Heap
=============================================================================
