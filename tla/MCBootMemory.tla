---------------------------- MODULE MCBootMemory ----------------------------
(* Model of BootMemory for TLC.                                            *)
EXTENDS BootMemory
=============================================================================
