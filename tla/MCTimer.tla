------------------------------ MODULE MCTimer ------------------------------
(* Model of Timer, and with it of Scheduler, for TLC.                      *)
EXTENDS Timer
=============================================================================
