------------------------------- MODULE Screen -------------------------------
(***************************************************************************)
(* The text screen of vga.c and what the line editor and the commands of   *)
(* shell.c put on it: echo, erasing, line wrap, scrolling and clear, each  *)
(* character first mirrored to the serial port.                            *)
(*                                                                         *)
(* Everything is printed by task 0.  A call of putchar or backspace starts *)
(* with the caller's bookkeeping, sends its bytes one by one (module       *)
(* Serial) and then changes the screen in one step.  Every cell has the    *)
(* same colour.  Module ConsoleInput has the editor's buffer in full; here *)
(* the line is the sequence it holds.                                      *)
(***************************************************************************)
EXTENDS Serial

CONSTANTS
  VGA_WIDTH,   \* columns (80)
  VGA_HEIGHT,  \* rows (25)
  LINE_MAX,    \* bytes of line_buf (128)
  Glyphs,      \* printable characters
  Prompt,      \* the prompt's characters
  Outputs      \* what a command may print: characters, "LF" and "CLEAR"

ASSUME SizesAssumption ==
  /\ VGA_WIDTH \in Nat \ {0} /\ VGA_HEIGHT \in Nat \ {0} /\ LINE_MAX \in Nat \ {0}

ASSUME GlyphsAssumption ==
  /\ {"CR", "LF", "BS", "CLEAR", "BACKSPACE", "ENTER", "NONE"} \cap Glyphs = {}
  /\ Prompt \in Seq(Glyphs) /\ Outputs \subseteq Seq(Glyphs \cup {"LF", "CLEAR"})

\* Every command ends what it prints with a line feed.
ASSUME LinesAssumption ==
  \A text \in Outputs : \A i \in DOMAIN text :
    text[i] \in Glyphs => \E j \in (i + 1)..Len(text) : text[j] = "LF"

VARIABLES
  vga,                     \* the screen's cells, row after row
  cursor_row, cursor_col,
  line,                    \* line_buf[0..line_len - 1]
  call,                    \* the call in progress: a character for putchar, or
                           \* "BACKSPACE", "ENTER" (putchar of a typed LF) or "NONE"
  out,                     \* what the command in progress has still to print
  swallowed                \* history: a character of this line was erased at column 0

screenVars == <<vga, cursor_row, cursor_col>>
vars       == <<screenVars, line, call, out, swallowed, serialVars>>

Cells       == 0..(VGA_WIDTH * VGA_HEIGHT - 1)
BlankScreen == [i \in Cells |-> Blank]

\* clear_screen at the start of kernel_main; then the boot messages and
\* shell_init print.
Init ==
  /\ InitSerial
  /\ vga = BlankScreen /\ cursor_row = 0 /\ cursor_col = 0
  /\ line = <<>> /\ call = "NONE"
  /\ \E boot \in Outputs : out = boot \o <<"LF">> \o Prompt
  /\ swallowed = FALSE

-----------------------------------------------------------------------------
(* vga.c                                                                   *)

clear_screen == vga' = BlankScreen /\ cursor_row' = 0 /\ cursor_col' = 0

\* Mutant: the new last row keeps the characters it had.
scroll_NotCleared(cells) ==
  [i \in Cells |-> IF i + VGA_WIDTH \in Cells THEN cells[i + VGA_WIDTH] ELSE cells[i]]

\* Mutant: the copy starts one cell late.
scroll_OffByOne(cells) ==
  [i \in Cells |-> IF i + VGA_WIDTH + 1 \in Cells THEN cells[i + VGA_WIDTH + 1] ELSE Blank]

\* The cells after scroll().
scroll(cells) ==
  [i \in Cells |-> IF i + VGA_WIDTH \in Cells THEN cells[i + VGA_WIDTH] ELSE Blank]

\* Mutant: the row is left one column too late.
RowFull_Late(x) == x > VGA_WIDTH

RowFull(x) == x >= VGA_WIDTH

\* putchar(), once the character has been sent.
putchar(ch) ==
  LET wraps == ch = "LF" \/ RowFull(cursor_col + 1)
      cells == IF ch = "LF" THEN vga
               ELSE [vga EXCEPT ![cursor_row * VGA_WIDTH + cursor_col] = ch]
      below == IF wraps THEN cursor_row + 1 ELSE cursor_row
  IN
  /\ cursor_col' = IF wraps THEN 0 ELSE cursor_col + 1
  /\ IF below >= VGA_HEIGHT
       THEN vga' = scroll(cells) /\ cursor_row' = VGA_HEIGHT - 1
       ELSE vga' = cells /\ cursor_row' = below

\* Mutant: the test of the column comes before the bytes are sent.
EraseBytes_ColumnFirst == IF cursor_col = 0 THEN <<>> ELSE <<"BS", Blank, "BS">>

\* What backspace() sends, wherever the cursor is.
EraseBytes == <<"BS", Blank, "BS">>

\* backspace(), once these have been sent: nothing on the screen when the
\* cursor is in column 0.
backspace ==
  IF cursor_col = 0
    THEN UNCHANGED screenVars
    ELSE /\ cursor_col' = cursor_col - 1
         /\ vga' = [vga EXCEPT ![cursor_row * VGA_WIDTH + cursor_col - 1] = Blank]
         /\ UNCHANGED cursor_row

-----------------------------------------------------------------------------
(* shell.c                                                                 *)

\* The editor takes a character once the last command has printed its prompt.
Editing == call = "NONE" /\ out = <<>>

\* Begin a call: its bytes go to the serial port first.
Call(name, bytes) == call' = name /\ serial_write(bytes)

\* What the beginning of a call leaves alone.
CallOnly == UNCHANGED <<screenVars, ready, thrEmpty, spins, hostVars>>

\* Mutant: a character is echoed although the line is full.
type_EchoAlways(ch) ==
  /\ Editing
  /\ line' = IF Len(line) < LINE_MAX - 1 THEN Append(line, ch) ELSE line
  /\ Call(ch, Bytes(ch)) /\ CallOnly
  /\ UNCHANGED <<out, swallowed>>

\* A printable character: stored and echoed. A full line ignores it.
type(ch) ==
  /\ Editing
  /\ Len(line) < LINE_MAX - 1
  /\ line' = Append(line, ch)
  /\ Call(ch, Bytes(ch)) /\ CallOnly
  /\ UNCHANGED <<out, swallowed>>

\* Backspace. An empty line ignores it.
erase ==
  /\ Editing
  /\ line # <<>>
  /\ line' = SubSeq(line, 1, Len(line) - 1)
  /\ Call("BACKSPACE", EraseBytes) /\ CallOnly
  /\ swallowed' = (swallowed \/ cursor_col = 0)
  /\ UNCHANGED out

\* Enter is echoed before the line is run.
enter ==
  /\ Editing
  /\ Call("ENTER", Bytes("LF")) /\ CallOnly
  /\ UNCHANGED <<line, out, swallowed>>

\* print(): the next character.
print ==
  /\ call = "NONE" /\ out # <<>> /\ Head(out) # "CLEAR"
  /\ Call(Head(out), Bytes(Head(out))) /\ CallOnly
  /\ out' = Tail(out)
  /\ UNCHANGED <<line, swallowed>>

\* The clear command; the serial line is not told.
cmd_clear ==
  /\ call = "NONE" /\ out # <<>> /\ Head(out) = "CLEAR"
  /\ clear_screen
  /\ out' = Tail(out)
  /\ UNCHANGED <<line, call, swallowed, serialVars>>

\* The bytes are out (or dropped) and the call does its work on the screen.
\* After Enter the command prints what it prints, and the prompt follows;
\* an empty line is the prompt alone.
finish ==
  /\ call # "NONE" /\ txq = <<>>
  /\ call' = "NONE"
  /\ \/ call = "BACKSPACE" /\ backspace /\ UNCHANGED <<line, out, swallowed>>
     \/ /\ call = "ENTER" /\ putchar("LF")
        /\ line' = <<>> /\ swallowed' = FALSE
        /\ \/ line = <<>> /\ out' = Prompt
           \/ line # <<>> /\ \E text \in Outputs : out' = text \o Prompt
     \/ /\ call \notin {"BACKSPACE", "ENTER"} /\ putchar(call)
        /\ UNCHANGED <<line, out, swallowed>>
  /\ UNCHANGED serialVars

\* The call in progress sends.
sends == tx /\ UNCHANGED <<screenVars, line, call, out, swallowed>>

\* The UART works on its own.
uart == transmitted /\ UNCHANGED <<screenVars, line, call, out, swallowed>>

\* Task 0's own steps, as opposed to the operator's and the UART's.
Printing == print \/ cmd_clear \/ sends \/ finish

Next == (\E ch \in Glyphs : type(ch)) \/ erase \/ enter \/ Printing \/ uart

\* What has been begun goes on, because task 0 is scheduled again and again
\* (Scheduler's ReadyTaskRuns). Nothing is assumed of the UART.
Spec == Init /\ [][Next]_vars /\ WF_vars(Printing)

-----------------------------------------------------------------------------
(* Properties.                                                             *)

\* The cell the next character goes to.
Cursor == cursor_row * VGA_WIDTH + cursor_col

\* The types of the screen and the line: between two calls the cursor is on
\* the screen, so that putchar never writes past its last cell.
TypeOK ==
  /\ vga \in [Cells -> Glyphs \cup {Blank}]
  /\ cursor_row \in 0..(VGA_HEIGHT - 1) /\ cursor_col \in 0..(VGA_WIDTH - 1)
  /\ line \in Seq(Glyphs) /\ Len(line) < LINE_MAX
  /\ call \in Glyphs \cup {"LF", "BACKSPACE", "ENTER", "NONE"}
  /\ out \in Seq(Glyphs \cup {"LF", "CLEAR"})
  /\ swallowed \in BOOLEAN
  /\ ready \in BOOLEAN /\ thrEmpty \in BOOLEAN /\ garbled \in BOOLEAN
  /\ txq \in Seq(Glyphs \cup {"CR", "LF", "BS", Blank}) /\ spins \in 0..TX_SPIN_LIMIT
  /\ row \in Seq(Glyphs \cup {Blank}) /\ (~garbled => col \in 0..Len(row))

\* Nothing is shown at or after the cursor: no scroll, wrap or erasure
\* leaves old text where new text will be written or that never was there.
NothingAhead == \A i \in Cells : i >= Cursor => vga[i] = Blank

\* The cells before the cursor spell the line that Enter would run, across
\* line wraps and scrolls, as far as they are still on the screen. (An
\* erasure at column 0 breaks this until Enter: see swallowed.)
EchoShown ==
  Editing /\ ~swallowed =>
    \A k \in 1..Len(line) : LET cell == Cursor - Len(line) + k - 1
                            IN  cell >= 0 => vga[cell] = line[k]

\* The text moves as a whole: a step writes one cell, and it may also move
\* every row up by exactly one, or it clears the screen. No step loses or
\* repeats a row.
TextMovesTogether ==
  [][\/ vga' = BlankScreen
     \/ \E i \in Cells, ch \in Glyphs \cup {Blank} :
          LET cells == [vga EXCEPT ![i] = ch]
          IN  \/ vga' = cells
              \/ /\ \A j \in Cells : j >= VGA_WIDTH => vga'[j - VGA_WIDTH] = cells[j]
                 /\ \A j \in Cells : j + VGA_WIDTH \notin Cells => vga'[j] = Blank]_vars

\* The host's terminal shows the prompt and the line that Enter would run,
\* and nothing else in that row: also where the screen itself has gone wrong
\* after an erasure at column 0, and also after bytes were dropped, from the
\* next line that arrives whole.
EchoOnHost ==
  Editing /\ ready /\ ~garbled =>
    /\ SubSeq(row, 1, col) = Prompt \o line
    /\ \A i \in (col + 1)..Len(row) : row[i] = Blank

\* Printing ends and the prompt comes back, whatever the UART does: a
\* transmitter that never becomes empty costs bytes, not the kernel.
PrintReturns == ~Editing ~> Editing
=============================================================================
