--------------------------- MODULE MCConsoleInput ---------------------------
(* Model of ConsoleInput for TLC.                                          *)
EXTENDS ConsoleInput
=============================================================================
