---------------------------- MODULE MCDoubleFree ----------------------------
(* Model of DoubleFree for TLC.                                            *)
EXTENDS DoubleFree
=============================================================================
