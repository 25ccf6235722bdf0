------------------------------- MODULE MCHeap -------------------------------
(* Model of Heap for TLC.                                                  *)
EXTENDS Heap
=============================================================================
