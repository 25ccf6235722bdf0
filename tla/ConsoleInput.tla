---------------------------- MODULE ConsoleInput ----------------------------
(***************************************************************************)
(* The path of a character from the keyboard or the serial port to a       *)
(* command: keyboard_handler and serial_handler run in interrupts and push *)
(* characters into the ring of shell.c; task 0 drains it in shell_poll,    *)
(* edits the line, runs the command, and halts until the next interrupt    *)
(* when the ring is empty.                                                 *)
(*                                                                         *)
(* Interrupt handlers run with interrupts disabled: task 0 makes no step   *)
(* while one is in progress.  Every access of task 0 to the shared ring is *)
(* a step of its own.  Echo (putchar, backspace) writes only the screen,   *)
(* which nothing here reads; the commands themselves are one step of       *)
(* unknown length.  Characters beyond those the line editor tells apart    *)
(* are represented by "CTL" (control codes and bytes with the top bit set, *)
(* which are negative as a signed char).                                   *)
(***************************************************************************)
EXTENDS Integers, Sequences

CONSTANTS
  RING_SIZE,  \* slots of the ring (256)
  LINE_MAX,   \* bytes of line_buf (128)
  FIFO_SIZE,  \* bytes the UART can hold (16)
  Bytes,      \* bytes the host sends
  Scancodes,  \* scan codes the keyboard sends
  None

ASSUME RingAssumption == RING_SIZE \in Nat /\ RING_SIZE >= 2
ASSUME LineAssumption == LINE_MAX \in Nat \ {0}
ASSUME FifoAssumption == FIFO_SIZE \in Nat \ {0}

Printable == {"a", "A"}
Controls  == {"BS", "LF", "CTL"}
Chars     == Printable \cup Controls
NUL       == "NUL"

ASSUME BytesAssumption == Bytes \subseteq {"a", "LF", "CR", "DEL", "CTL"}
ASSUME ScancodesAssumption ==
  Scancodes \subseteq {"shift", "unshift", "release", "backspace", "a", "enter", "tab", "dead"}
ASSUME NoneAssumption == None \notin Chars \cup {NUL} /\ None \notin Seq(Printable)

VARIABLES
  shift_down,  \* keyboard.c
  uart,        \* received bytes the UART still holds
  ring, ring_head, ring_tail,
  line_buf, line_len,
  pc,          \* where task 0 is: in shell_poll, shell_input_char, a command, or hlt
  c,           \* shell_poll's local
  inIrq,       \* serial_handler is in progress
  lost         \* history: whether the last character pushed was dropped

ringVars == <<ring, ring_head, ring_tail>>
lineVars == <<line_buf, line_len>>
vars     == <<shift_down, uart, ringVars, lineVars, pc, c, inIrq, lost>>

Init ==
  /\ shift_down = FALSE
  /\ uart = <<>>
  /\ ring = [i \in 0..(RING_SIZE - 1) |-> NUL] /\ ring_head = 0 /\ ring_tail = 0
  /\ line_buf = [i \in 0..(LINE_MAX - 1) |-> NUL] /\ line_len = 0
  /\ pc = "poll"
  /\ c = None
  /\ inIrq = FALSE
  /\ lost = FALSE

-----------------------------------------------------------------------------
(* The producers, in interrupt context.                                    *)

\* Mutant: the test for a full ring is missing.
shell_push_char_NoFullTest(ch) ==
  /\ ring'      = [ring EXCEPT ![ring_head] = ch]
  /\ ring_head' = (ring_head + 1) % RING_SIZE
  /\ lost'      = FALSE
  /\ UNCHANGED ring_tail

shell_push_char(ch) ==
  LET next == (ring_head + 1) % RING_SIZE
  IN
  /\ IF next = ring_tail
       THEN lost' = TRUE /\ UNCHANGED <<ring, ring_head>>
       ELSE /\ ring'      = [ring EXCEPT ![ring_head] = ch]
            /\ ring_head' = next
            /\ lost'      = FALSE
  /\ UNCHANGED ring_tail

\* The interrupt ends hlt: the main loop goes round again.
Wake == pc' = IF pc = "halted" THEN "poll" ELSE pc

normal_map == [a |-> "a", enter |-> "LF", tab |-> "CTL", dead |-> NUL]
shift_map  == [a |-> "A", enter |-> "LF", tab |-> "CTL", dead |-> NUL]

\* IRQ1. Releases of other keys, and keys with no character, push nothing.
keyboard_handler(sc) ==
  LET map == IF shift_down THEN shift_map ELSE normal_map
  IN
  /\ ~inIrq
  /\ \/ sc = "shift"     /\ shift_down' = TRUE  /\ UNCHANGED <<ringVars, lost>>
     \/ sc = "unshift"   /\ shift_down' = FALSE /\ UNCHANGED <<ringVars, lost>>
     \/ sc = "release"   /\ UNCHANGED <<shift_down, ringVars, lost>>
     \/ sc = "backspace" /\ shell_push_char("BS") /\ UNCHANGED shift_down
     \/ /\ sc \in DOMAIN map
        /\ IF map[sc] = NUL THEN UNCHANGED <<ringVars, lost>> ELSE shell_push_char(map[sc])
        /\ UNCHANGED shift_down
  /\ Wake
  /\ UNCHANGED <<uart, lineVars, c, inIrq>>

\* The host sends a byte; one that finds the UART full is lost on the wire.
\* A byte that arrives while serial_handler runs is read by the same loop as
\* one that arrived just before, and the handler is much faster than the
\* line (38400 baud), so arrivals are placed outside it.
receive ==
  /\ ~inIrq /\ Len(uart) < FIFO_SIZE
  /\ \E byte \in Bytes : uart' = Append(uart, byte)
  /\ UNCHANGED <<shift_down, ringVars, lineVars, pc, c, inIrq, lost>>

\* IRQ4 is raised while the UART holds data.
serial_irq ==
  /\ ~inIrq /\ uart # <<>>
  /\ inIrq' = TRUE
  /\ Wake
  /\ UNCHANGED <<shift_down, uart, ringVars, lineVars, c, lost>>

\* What serial_handler makes of a byte.
Translate(byte) == CASE byte = "DEL" -> "BS" [] byte = "CR" -> "LF" [] OTHER -> byte

\* One round of serial_handler's loop, or its end.
serial_handler ==
  /\ inIrq
  /\ IF uart # <<>>
       THEN /\ shell_push_char(Translate(Head(uart)))
            /\ uart' = Tail(uart)
            /\ UNCHANGED inIrq
       ELSE inIrq' = FALSE /\ UNCHANGED <<uart, ringVars, lost>>
  /\ UNCHANGED <<shift_down, lineVars, pc, c>>

\* Mutant: the tick does not end hlt.
timer_irq_NoWake == ~inIrq /\ FALSE /\ UNCHANGED vars

\* IRQ0, as far as the console is concerned: it ends hlt.
timer_irq ==
  /\ ~inIrq /\ pc = "halted"
  /\ Wake
  /\ UNCHANGED <<shift_down, uart, ringVars, lineVars, c, inIrq, lost>>

-----------------------------------------------------------------------------
(* The consumer, task 0.                                                   *)

\* The loop test of shell_poll.
poll ==
  /\ ~inIrq /\ pc = "poll"
  /\ pc' = IF ring_tail # ring_head THEN "read" ELSE "hlt"
  /\ UNCHANGED <<shift_down, uart, ringVars, lineVars, c, inIrq, lost>>

\* c = ring[ring_tail]
read ==
  /\ ~inIrq /\ pc = "read"
  /\ c' = ring[ring_tail] /\ pc' = "advance"
  /\ UNCHANGED <<shift_down, uart, ringVars, lineVars, inIrq, lost>>

\* ring_tail = (ring_tail + 1) % RING_SIZE
advance ==
  /\ ~inIrq /\ pc = "advance"
  /\ ring_tail' = (ring_tail + 1) % RING_SIZE /\ pc' = "input"
  /\ UNCHANGED <<shift_down, uart, ring, ring_head, lineVars, c, inIrq, lost>>

\* line_buf[line_len] = '\0'
Terminated == [line_buf EXCEPT ![line_len] = NUL]

\* Mutant: the last byte of line_buf is filled too.
HasRoom_ToTheEnd == line_len < LINE_MAX

HasRoom == line_len < LINE_MAX - 1

shell_input_char ==
  /\ ~inIrq /\ pc = "input"
  /\ \/ /\ c = "BS"
        /\ line_len' = IF line_len > 0 THEN line_len - 1 ELSE 0
        /\ pc' = "poll" /\ UNCHANGED line_buf
     \/ /\ c = "LF"
        /\ line_buf' = Terminated /\ line_len' = 0 /\ pc' = "execute"
     \/ /\ c \in Printable /\ HasRoom
        /\ line_buf' = [line_buf EXCEPT ![line_len] = c] /\ line_len' = line_len + 1
        /\ pc' = "poll"
     \/ /\ c \in Printable /\ ~HasRoom
        /\ pc' = "poll" /\ UNCHANGED lineVars
     \/ /\ c \notin Printable \cup {"BS", "LF"}
        /\ pc' = "poll" /\ UNCHANGED lineVars
  /\ c' = None
  /\ UNCHANGED <<shift_down, uart, ringVars, inIrq, lost>>

\* shell_execute returns. It reads the line in place: line_buf is the
\* argument string of the command.
shell_execute ==
  /\ ~inIrq /\ pc = "execute"
  /\ pc' = "poll"
  /\ UNCHANGED <<shift_down, uart, ringVars, lineVars, c, inIrq, lost>>

\* The ring was empty when shell_poll looked; an interrupt may have filled
\* it since.
hlt ==
  /\ ~inIrq /\ pc = "hlt"
  /\ pc' = "halted"
  /\ UNCHANGED <<shift_down, uart, ringVars, lineVars, c, inIrq, lost>>

Task0 == poll \/ read \/ advance \/ shell_input_char \/ shell_execute \/ hlt

Next ==
  \/ receive \/ serial_irq \/ serial_handler \/ timer_irq
  \/ \E sc \in Scancodes : keyboard_handler(sc)
  \/ Task0

\* A pending interrupt is taken and its handler finishes; the PIT never
\* stops; task 0 gets the processor again and again (Scheduler's
\* ReadyTaskRuns), also between the interrupts of a busy serial line, which
\* are short compared with the time from byte to byte; and its commands
\* return. Nothing makes anybody type.
Spec     == Init /\ [][Next]_vars
FairSpec == Spec /\ WF_vars(serial_irq) /\ WF_vars(serial_handler)
                 /\ WF_vars(timer_irq) /\ SF_vars(Task0)

-----------------------------------------------------------------------------
(* Properties.                                                             *)

Slots == 0..(RING_SIZE - 1)

\* The types of the ring, the line and the locals; the indices stay inside
\* their arrays.
TypeOK ==
  /\ shift_down \in BOOLEAN
  /\ uart \in Seq(Bytes) /\ Len(uart) <= FIFO_SIZE
  /\ ring \in [Slots -> Chars \cup {NUL}]
  /\ ring_head \in Slots /\ ring_tail \in Slots
  /\ line_buf \in [0..(LINE_MAX - 1) -> Printable \cup {NUL}]
  /\ line_len \in 0..(LINE_MAX - 1)
  /\ pc \in {"poll", "read", "advance", "input", "execute", "hlt", "halted"}
  /\ c \in Chars \cup {None}
  /\ inIrq \in BOOLEAN /\ lost \in BOOLEAN

\* The characters between tail and head.
Waiting ==
  [i \in 1..((ring_head - ring_tail) % RING_SIZE) |-> ring[(ring_tail + i - 1) % RING_SIZE]]

\* The string a C function reads at line_buf.
CString ==
  LET n == CHOOSE k \in 0..LINE_MAX : /\ \A i \in 0..(k - 1) : line_buf[i] # NUL
                                      /\ k < LINE_MAX => line_buf[k] = NUL
  IN  [i \in 1..n |-> line_buf[i - 1]]

\* The ring, the line buffer and task 0 implement the console: order, loss
\* only when RING_SIZE - 1 characters wait, and a command that sees exactly
\* the line that was edited for as long as it runs.
Abstract == INSTANCE Console WITH
  Capacity <- RING_SIZE - 1,
  MaxLine  <- LINE_MAX - 1,
  Arriving <- Chars,
  queue    <- Waiting,
  got      <- IF pc = "input" THEN c ELSE None,
  line     <- IF pc = "execute" THEN <<>> ELSE [i \in 1..line_len |-> line_buf[i - 1]],
  cmd      <- IF pc = "execute" THEN CString ELSE None

ImplementsConsole == Abstract!Spec

\* A character in the ring is handled, although task 0 may go to sleep just
\* after it arrived: the next tick wakes it.
InputIsHandled == ring_tail # ring_head ~> pc = "input"
=============================================================================
