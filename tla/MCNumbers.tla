----------------------------- MODULE MCNumbers -----------------------------
(* Model of Numbers for TLC.                                               *)
EXTENDS Numbers
=============================================================================
