----------------------------- MODULE MCHeapRace -----------------------------
(* Model of HeapRace for TLC.                                              *)
EXTENDS HeapRace
=============================================================================
