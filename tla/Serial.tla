------------------------------- MODULE Serial -------------------------------
(***************************************************************************)
(* The output side of serial.c: serial_write_char with its bounded wait    *)
(* for the transmitter, and the terminal at the other end of the line.     *)
(*                                                                         *)
(* The transmitter is free to stop for any time, or for good.  The host's  *)
(* terminal is wider than any line the kernel prints; of a row that misses *)
(* a byte all that matters is whether the terminal's cursor is in column   *)
(* 0.  (Input is in module ConsoleInput.  tx_count only counts.)           *)
(***************************************************************************)
EXTENDS Integers, Sequences

CONSTANT TX_SPIN_LIMIT   \* polls of the line status before a byte is dropped

ASSUME SpinAssumption == TX_SPIN_LIMIT \in Nat

VARIABLES
  ready,      \* serial_init's loopback test found a UART
  thrEmpty,   \* the transmitter can take a byte
  txq,        \* bytes the call in progress has still to pass to tx()
  spins,      \* tx()'s local
  \* --- the host's terminal, which the kernel cannot see
  row,        \* the cells of its current row
  col,        \* cells left of its cursor
  garbled     \* a byte of this row was dropped

hostVars   == <<row, col, garbled>>
serialVars == <<ready, thrEmpty, txq, spins, hostVars>>

Blank == " "

\* After serial_init, with or without a UART.
InitSerial ==
  /\ ready \in BOOLEAN
  /\ thrEmpty = TRUE /\ txq = <<>> /\ spins = 0
  /\ row = <<>> /\ col = 0 /\ garbled = FALSE

\* Mutant: the terminal is sent a bare line feed.
Bytes_NoCR(ch) == <<ch>>

\* What serial_write_char passes to tx() for one character.
Bytes(ch) == IF ch = "LF" THEN <<"CR", "LF">> ELSE <<ch>>

\* serial_write_char and serial_write: nothing without a UART.
serial_write(bytes) == txq' = IF ready THEN bytes ELSE <<>>

Blanks(n) == [i \in 1..n |-> Blank]

\* The row after character c is written at the cursor.
Written(c) == [i \in 1..(IF col < Len(row) THEN Len(row) ELSE col + 1) |->
                 IF i = col + 1 THEN c ELSE row[i]]

\* The terminal obeys a byte. A line feed moves down in the same column.
receive(c) ==
  /\ col' = CASE c = "CR" -> 0
              [] c = "LF" -> col
              [] c = "BS" -> IF col = 0 \/ garbled THEN col ELSE col - 1
              [] OTHER    -> IF garbled THEN 1 ELSE col + 1
  /\ garbled' = (garbled /\ ~(c = "LF" /\ col = 0))
  /\ row' = IF garbled THEN <<>>
            ELSE CASE c = "LF"           -> Blanks(col)
                   [] c \in {"CR", "BS"} -> row
                   [] OTHER              -> Written(c)

\* Mutant: the polls are not counted.
NextSpin_NotCounted == spins

\* ++spins
NextSpin == spins + 1

GivesUp == NextSpin > TX_SPIN_LIMIT

\* One round of tx(): the byte leaves, or the status is polled again, or
\* the byte is dropped.
tx ==
  /\ txq # <<>>
  /\ \/ /\ thrEmpty
        /\ thrEmpty' = FALSE /\ receive(Head(txq))
        /\ txq' = Tail(txq) /\ spins' = 0
     \/ /\ ~thrEmpty /\ ~GivesUp
        /\ spins' = NextSpin
        /\ UNCHANGED <<thrEmpty, txq, hostVars>>
     \/ /\ ~thrEmpty /\ GivesUp
        /\ txq' = Tail(txq) /\ spins' = 0
        /\ garbled' = TRUE /\ row' = <<>> /\ col' = IF col = 0 THEN 0 ELSE 1
        /\ UNCHANGED thrEmpty
  /\ UNCHANGED ready

\* The UART has shifted the byte out.
transmitted ==
  /\ ~thrEmpty /\ thrEmpty' = TRUE
  /\ UNCHANGED <<ready, txq, spins, hostVars>>
=============================================================================
