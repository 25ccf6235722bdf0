------------------------------ MODULE MCScreen ------------------------------
(* Model of Screen for TLC: a prompt of one character, and commands that   *)
(* print nothing, a line, a text that wraps, or clear the screen.          *)
EXTENDS Screen

MCPrompt  == <<"a">>
MCOutputs == {<<>>, <<"b", "LF">>, <<"a", "b", "b", "a", "LF">>, <<"CLEAR">>}
=============================================================================
