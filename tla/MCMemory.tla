------------------------------ MODULE MCMemory ------------------------------
(* Model of Memory for TLC.                                                *)
EXTENDS Memory
=============================================================================
