------------------------------ MODULE MCAgent ------------------------------
(* Model of Agent for TLC.                                                 *)
EXTENDS Agent
=============================================================================
