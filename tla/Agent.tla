------------------------------- MODULE Agent -------------------------------
(***************************************************************************)
(* The host agent (agent/jarvis_agent.py) driving the shell over the       *)
(* serial line: run() sends a command and takes for its reply whatever     *)
(* arrives until the line goes quiet.                                      *)
(*                                                                         *)
(* The unit of the conversation is a piece of text: the echo of a command, *)
(* what a command prints, the prompt.  The kernel prints them one after    *)
(* the other with no noticeable silence in between, except in the sleep    *)
(* command, which is silent for as long as it was told to; what the agent  *)
(* sends meanwhile waits in the shell's ring.  Time is counted in tenths   *)
(* of a second on the agent's clock, and only while it reads.              *)
(***************************************************************************)
EXTENDS Integers, Sequences

CONSTANTS
  RECV,        \* the socket's timeout (0.5 s)
  QUIET,       \* silence after data that ends a reply (0.4 s)
  FIRST,       \* silence before the banner that ends it (3.0 s)
  START,       \* silence before any other reply that ends it (1.5 s)
  LIMIT,       \* longest time spent on a reply (20 s)
  MaxRuns      \* commands the user has run

\* Pieces of text, and the silence of sleep.
echo(n)   == [kind |-> "echo", of |-> n]
output(n) == [kind |-> "output", of |-> n]
awake(n)  == [kind |-> "awake", of |-> n]
prompt    == [kind |-> "prompt", of |-> 0]
silence   == [kind |-> "silence", of |-> 0]
banner    == output(0)

VARIABLES
  ring,          \* commands sent and not yet read by the shell
  printing,      \* what the shell has still to print
  wire,          \* pieces on their way to the agent
  open,          \* the connection is up
  pc,            \* the agent: "idle", "reading" or "returned"
  sent,          \* commands sent so far: "quick" or "sleep"
  out, now, quiet_until, deadline,  \* locals of _read_until_prompt
  results        \* what run() has returned, one entry for each command

clock  == <<now, quiet_until, deadline>>
kernel == <<ring, printing>>
vars   == <<kernel, wire, open, pc, sent, out, clock, results>>

\* The kernel is booting and the constructor is reading the banner.
Init ==
  /\ ring = <<>> /\ printing = <<banner, prompt>>
  /\ wire = <<>> /\ open = TRUE
  /\ pc = "reading" /\ sent = <<>>
  /\ out = <<>> /\ now = 0 /\ quiet_until = FIRST /\ deadline = LIMIT
  /\ results = <<>>

-----------------------------------------------------------------------------
(* The kernel, as far as the agent can see it.                             *)

\* The shell prints its next piece, or wakes up.
kernel_prints ==
  /\ printing # <<>>
  /\ wire' = IF Head(printing) = silence THEN wire ELSE Append(wire, Head(printing))
  /\ printing' = Tail(printing)
  /\ UNCHANGED <<ring, open, pc, sent, out, clock, results>>

\* The shell, back at its prompt, takes the next command line: it echoes
\* it, runs it and prompts again.
shell_execute ==
  /\ printing = <<>> /\ ring # <<>>
  /\ LET n == Head(ring)
     IN  printing' = IF sent[n] = "sleep"
                       THEN <<echo(n), output(n), silence, awake(n), prompt>>
                       ELSE <<echo(n), output(n), prompt>>
  /\ ring' = Tail(ring)
  /\ UNCHANGED <<wire, open, pc, sent, out, clock, results>>

\* A command that ends the session: QEMU exits on reboot.
reboot ==
  /\ open /\ sent # <<>> /\ printing # <<>>
  /\ open' = FALSE /\ printing' = <<>> /\ ring' = <<>>
  /\ UNCHANGED <<wire, pc, sent, out, clock, results>>

-----------------------------------------------------------------------------
(* The agent.                                                              *)

\* run(command) sends the line and starts to read.
run ==
  /\ pc = "idle" /\ open /\ Len(sent) < MaxRuns
  /\ \E command \in {"quick", "sleep"} : sent' = Append(sent, command)
  /\ ring' = Append(ring, Len(sent'))
  /\ pc' = "reading"
  /\ out' = <<>> /\ now' = 0 /\ quiet_until' = START /\ deadline' = LIMIT
  /\ UNCHANGED <<printing, wire, open, results>>

\* sock.recv returns data, all there is, after less than its timeout.
recv ==
  /\ pc = "reading" /\ now < deadline
  /\ wire # <<>>
  /\ out' = out \o wire /\ wire' = <<>>
  /\ \E d \in 0..(RECV - 1) : now' = now + d
  /\ quiet_until' = now' + QUIET
  /\ UNCHANGED <<kernel, open, pc, sent, deadline, results>>

\* sock.recv returns nothing: the connection is closed.
hangup ==
  /\ pc = "reading" /\ now < deadline
  /\ ~open /\ wire = <<>>
  /\ pc' = "returned"
  /\ UNCHANGED <<kernel, wire, open, sent, out, clock, results>>

\* Nothing is about to come: the shell waits for a line, or sleeps.
Silent == IF printing = <<>> THEN ring = <<>> ELSE Head(printing) = silence

EndsWithPrompt(text) == text # <<>> /\ text[Len(text)] = prompt

\* sock.recv times out: the reply is over if it ends with the prompt or if
\* the silence has lasted.
timeout ==
  /\ pc = "reading" /\ now < deadline
  /\ open /\ wire = <<>> /\ Silent
  /\ now' = now + RECV
  /\ pc' = IF EndsWithPrompt(out) \/ now' > quiet_until THEN "returned" ELSE "reading"
  /\ UNCHANGED <<kernel, wire, open, sent, out, quiet_until, deadline, results>>

\* The loop's own limit.
give_up ==
  /\ pc = "reading" /\ now >= deadline
  /\ pc' = "returned"
  /\ UNCHANGED <<kernel, wire, open, sent, out, clock, results>>

\* The echoed command and the trailing prompt are cut off.
Stripped(text, command) ==
  LET body == IF text # <<>> /\ Head(text) = echo(command) THEN Tail(text) ELSE text
  IN  IF EndsWithPrompt(body) THEN SubSeq(body, 1, Len(body) - 1) ELSE body

\* run() returns the reply; what the constructor read is the banner.
return ==
  /\ pc = "returned"
  /\ pc' = "idle"
  /\ results' = IF sent = <<>> THEN results ELSE Append(results, Stripped(out, Len(sent)))
  /\ out' = <<>> /\ now' = 0 /\ quiet_until' = 0 /\ deadline' = 0
  /\ UNCHANGED <<kernel, wire, open, sent>>

Next ==
  \/ kernel_prints \/ shell_execute \/ reboot
  \/ run \/ recv \/ hangup \/ timeout \/ give_up \/ return

Spec == Init /\ [][Next]_vars

-----------------------------------------------------------------------------
(* Properties.                                                             *)

\* What command n prints between its echo and the prompt.
Printed(n) == IF sent[n] = "sleep" THEN <<output(n), awake(n)>> ELSE <<output(n)>>

\* jarvis_agent.py: run one command and return exactly what it printed.
ReturnsWhatItPrinted == open => \A n \in DOMAIN results : results[n] = Printed(n)
=============================================================================
