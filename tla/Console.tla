------------------------------ MODULE Console ------------------------------
(***************************************************************************)
(* What the console input promises, whatever device a character comes from *)
(* and however interrupts fall: characters are handled one at a time in    *)
(* the order they arrived, a character is lost only when Capacity others   *)
(* are waiting, Enter runs exactly the line as it was edited, and that     *)
(* line does not change under the command that reads it.                   *)
(***************************************************************************)
EXTENDS Integers, Sequences

CONSTANTS
  Capacity,   \* characters that can wait
  MaxLine,    \* longest line
  Printable,  \* characters that can be part of a line
  Arriving,   \* all the characters the devices deliver
  None        \* no character, no command

VARIABLES
  queue,      \* characters waiting, oldest first
  got,        \* the character being handled
  line,       \* the line being edited
  cmd,        \* the line being executed
  lost        \* whether the character that arrived last was dropped

consoleVars == <<queue, got, line, cmd, lost>>

Init == queue = <<>> /\ got = None /\ line = <<>> /\ cmd = None /\ lost = FALSE

Arrive ==
  /\ \E c \in Arriving :
       IF Len(queue) < Capacity THEN queue' = Append(queue, c) /\ lost' = FALSE
                                ELSE lost' = TRUE /\ UNCHANGED queue
  /\ UNCHANGED <<got, line, cmd>>

Take ==
  /\ got = None /\ cmd = None /\ queue # <<>>
  /\ got' = Head(queue) /\ queue' = Tail(queue)
  /\ UNCHANGED <<line, cmd, lost>>

Erase ==
  /\ got = "BS"
  /\ line' = IF line = <<>> THEN line ELSE SubSeq(line, 1, Len(line) - 1)
  /\ UNCHANGED cmd

Enter == got = "LF" /\ cmd' = line /\ line' = <<>>

Type ==
  /\ got \in Printable
  /\ line' = IF Len(line) < MaxLine THEN Append(line, got) ELSE line
  /\ UNCHANGED cmd

Ignore == got \notin Printable \cup {"BS", "LF", None} /\ UNCHANGED <<line, cmd>>

Handle == (Erase \/ Enter \/ Type \/ Ignore) /\ got' = None /\ UNCHANGED <<queue, lost>>

Finish == cmd # None /\ cmd' = None /\ UNCHANGED <<queue, got, line, lost>>

Next == Arrive \/ Take \/ Handle \/ Finish

Spec == Init /\ [][Next]_consoleVars
=============================================================================
