---------------------------- MODULE ScreenProofs ----------------------------
(***************************************************************************)
(* Proofs about Screen, for every size of the screen and of the line, any  *)
(* prompt, any output and any limit on the polls of the UART.              *)
(***************************************************************************)
EXTENDS Screen, SequenceTheorems, TLAPS

-----------------------------------------------------------------------------
(* The inductive invariant.                                                *)

\* Characters the command still prints before the prompt; negative once the
\* prompt is being printed.
Left == Len(out) - Len(Prompt)

\* A line feed is still to come before the prompt.
Breaks == \E j \in 1..Left : out[j] = "LF"

\* What is left to print ends with the prompt or is a part of it, and what
\* comes before the prompt ends with a line feed.
EndsWithPrompt(o) ==
  LET left == Len(o) - Len(Prompt)
  IN  /\ \A i \in 1..Len(o) : i > left => o[i] = Prompt[i - left]
      /\ \A i \in 1..left : o[i] \in Glyphs => \E j \in (i + 1)..left : o[j] = "LF"

OutInv == EndsWithPrompt(out)

\* Nothing is typed while a command prints, and the call in progress is that
\* of the character typed, erased or printed last.
CallInv ==
  /\ out # <<>> => line = <<>>
  /\ call = "LF" => line = <<>> /\ Left >= 0
  /\ call \in {"BACKSPACE", "ENTER"} => out = <<>>
  /\ call \in Glyphs /\ line # <<>> => line[Len(line)] = call
  /\ call \in Glyphs /\ line = <<>> /\ ~Breaks => Left < 0 /\ call = Prompt[-Left]

\* The bytes still to be sent are the last ones of the call.
QueueInv ==
  /\ ~ready \/ call = "NONE" => txq = <<>>
  /\ call \in Glyphs => txq \in {<<>>, <<call>>}
  /\ call \in {"LF", "ENTER"} => txq \in {<<>>, <<"LF">>, <<"CR", "LF">>}
  /\ call = "BACKSPACE" => txq \in {<<>>, <<"BS">>, <<Blank, "BS">>, <<"BS", Blank, "BS">>}

\* The n cells before cell at spell the first n characters of the line.
Spelled(n, at) ==
  \A k \in 1..n : at - n + k - 1 >= 0 => vga[at - n + k - 1] = line[k]

\* The line on the screen, before and after the call in progress does its
\* work.
EchoInv ==
  ~swallowed =>
    /\ call = "BACKSPACE" => cursor_col # 0 /\ Spelled(Len(line), Cursor - 1)
    /\ call \in Glyphs /\ line # <<>> => Spelled(Len(line) - 1, Cursor)
    /\ call \in {"NONE", "ENTER", "LF"} => Spelled(Len(line), Cursor)

\* What the terminal's row is to hold once the call's bytes have arrived:
\* the part of the prompt printed so far, and the line.
Prompted == IF Left >= 0 THEN 0 ELSE -Left
Goal     == IF call = "ENTER" THEN 0 ELSE Prompted + Len(line)

\* The row's first n cells are as they are to be, and from cell m on it is
\* blank.
RowHolds(n)  == \A i \in 1..n : row[i] = IF i <= Prompted THEN Prompt[i] ELSE line[i - Prompted]
BlankFrom(m)  == \A i \in m..Len(row) : row[i] = Blank

\* The terminal's row, by the number of bytes the call has still to send.
\* While a line feed is still to be printed it does not matter.
HostInv ==
  ready /\ ~garbled =>
    /\ Len(txq) = 0 /\ ~Breaks => col = Goal /\ RowHolds(Goal) /\ BlankFrom(Goal + 1)
    /\ call \in {"LF", "ENTER"} /\ Len(txq) = 1 => col = 0
    /\ call \in Glyphs /\ Len(txq) = 1 /\ ~Breaks
         => col = Goal - 1 /\ RowHolds(Goal - 1) /\ BlankFrom(Goal)
    /\ call = "BACKSPACE" =>
         /\ Len(txq) = 3 => col = Goal + 1 /\ RowHolds(Goal) /\ BlankFrom(Goal + 2)
         /\ Len(txq) = 2 => col = Goal /\ RowHolds(Goal) /\ BlankFrom(Goal + 2)
         /\ Len(txq) = 1 => col = Goal + 1 /\ RowHolds(Goal) /\ BlankFrom(Goal + 1)

IInv ==
  /\ TypeOK
  /\ NothingAhead
  /\ OutInv
  /\ CallInv
  /\ QueueInv
  /\ EchoInv
  /\ HostInv

-----------------------------------------------------------------------------
(* Lemmas.                                                                 *)

Chars == Glyphs \cup {"CR", "LF", "BS", Blank}
Texts == Glyphs \cup {"LF", "CLEAR"}

\* Glyphs are none of the names that stand for something else.
LEMMA Names ==
  /\ "CR" \notin Glyphs /\ "LF" \notin Glyphs /\ "BS" \notin Glyphs /\ "CLEAR" \notin Glyphs
  /\ "BACKSPACE" \notin Glyphs /\ "ENTER" \notin Glyphs /\ "NONE" \notin Glyphs
BY GlyphsAssumption

\* The prompt and the outputs.
LEMMA PromptFacts ==
  /\ Prompt \in Seq(Glyphs) /\ Len(Prompt) \in Nat
  /\ \A i \in 1..Len(Prompt) : Prompt[i] \in Glyphs
BY GlyphsAssumption, LenProperties, ElementOfSeq

\* A row of the screen lies inside it, and only the last one ends with it.
LEMMA RowFacts ==
  ASSUME NEW y \in 0..(VGA_HEIGHT - 1)
  PROVE  /\ y * VGA_WIDTH \in Nat /\ VGA_WIDTH * VGA_HEIGHT \in Nat
         /\ (y + 1) * VGA_WIDTH = y * VGA_WIDTH + VGA_WIDTH
         /\ y * VGA_WIDTH + VGA_WIDTH <= VGA_WIDTH * VGA_HEIGHT
         /\ y = VGA_HEIGHT - 1 => y * VGA_WIDTH + VGA_WIDTH = VGA_WIDTH * VGA_HEIGHT
<1> DEFINE w == VGA_WIDTH
           h == VGA_HEIGHT
<1>1. w \in Nat \ {0} /\ h \in Nat \ {0} /\ y \in Nat /\ y + 1 <= h /\ h - (y + 1) \in Nat
  BY SizesAssumption
<1> HIDE DEF w, h
<1>2. y * w \in Nat /\ w * h \in Nat /\ (y + 1) * w = y * w + w
  BY <1>1
<1>3. (h - (y + 1)) * w \in Nat
  BY <1>1
<1>4. (h - (y + 1)) * w = w * h - (y * w + w)
  BY <1>1
<1>5. y = h - 1 => y * w + w = w * h
  BY <1>1
<1>6. y * w + w <= w * h
  BY <1>1, <1>2, <1>3, <1>4
<1> QED
  BY <1>2, <1>5, <1>6 DEF w, h

\* The cells before a cell.
LEMMA CellsBefore ==
  ASSUME NEW a \in Cells, NEW x \in Int, 0 <= x, x <= a
  PROVE  x \in Cells
<1> DEFINE n == VGA_WIDTH * VGA_HEIGHT
<1>1. n \in Int
  BY SizesAssumption
<1> HIDE DEF n
<1>2. Cells = 0..(n - 1)
  BY DEF Cells, n
<1> QED
  BY <1>1, <1>2

\* The cursor is on the screen.
LEMMA CursorFacts ==
  ASSUME TypeOK
  PROVE  /\ Cursor \in Nat /\ Cursor \in Cells
         /\ VGA_WIDTH * VGA_HEIGHT \in Nat /\ VGA_WIDTH \in Nat \ {0}
         /\ Cursor = cursor_row * VGA_WIDTH + cursor_col /\ cursor_row * VGA_WIDTH \in Nat
<1>1. /\ cursor_row \in 0..(VGA_HEIGHT - 1) /\ cursor_col \in 0..(VGA_WIDTH - 1)
      /\ VGA_WIDTH \in Nat \ {0}
  BY SizesAssumption DEF TypeOK
<1>2. /\ cursor_row * VGA_WIDTH \in Nat /\ VGA_WIDTH * VGA_HEIGHT \in Nat
      /\ cursor_row * VGA_WIDTH + VGA_WIDTH <= VGA_WIDTH * VGA_HEIGHT
  BY <1>1, RowFacts
<1> QED
  BY <1>1, <1>2 DEF Cursor, Cells

\* putchar writes at the cursor, moves it on, and moves all rows up by one
\* when it has left the last.
LEMMA PutcharFacts ==
  ASSUME TypeOK, NEW ch \in Glyphs \cup {"LF"}, putchar(ch)
  PROVE  /\ vga' \in [Cells -> Glyphs \cup {Blank}]
         /\ cursor_row' \in 0..(VGA_HEIGHT - 1) /\ cursor_col' \in 0..(VGA_WIDTH - 1)
         /\ \E up \in {0, VGA_WIDTH} :
              /\ Cursor' + up > Cursor
              /\ ch # "LF" => Cursor' + up = Cursor + 1
              /\ \A i \in Cells : vga'[i] =
                   IF i + up \notin Cells THEN Blank
                   ELSE IF ch # "LF" /\ i + up = Cursor THEN ch ELSE vga[i + up]
<1> DEFINE w     == VGA_WIDTH
           p     == cursor_row * VGA_WIDTH
           wraps == ch = "LF" \/ RowFull(cursor_col + 1)
           cells == IF ch = "LF" THEN vga ELSE [vga EXCEPT ![p + cursor_col] = ch]
           below == IF wraps THEN cursor_row + 1 ELSE cursor_row
           up    == IF below >= VGA_HEIGHT THEN w ELSE 0
<1>1. /\ cursor_col' = IF wraps THEN 0 ELSE cursor_col + 1
      /\ IF below >= VGA_HEIGHT THEN vga' = scroll(cells) /\ cursor_row' = VGA_HEIGHT - 1
                                ELSE vga' = cells /\ cursor_row' = below
  BY DEF putchar
<1>2. /\ w \in Nat \ {0} /\ VGA_HEIGHT \in Nat \ {0} /\ vga \in [Cells -> Glyphs \cup {Blank}]
      /\ cursor_row \in 0..(VGA_HEIGHT - 1) /\ cursor_col \in 0..(w - 1)
  BY SizesAssumption DEF TypeOK
<1>3. /\ Cursor \in Cells /\ Cursor = p + cursor_col /\ p \in Nat
  BY CursorFacts
<1>4. cells \in [Cells -> Glyphs \cup {Blank}]
      /\ \A i \in Cells : cells[i] = IF ch # "LF" /\ i = Cursor THEN ch ELSE vga[i]
  BY <1>2, <1>3
<1>5. wraps <=> ch = "LF" \/ cursor_col + 1 = w
  BY <1>2 DEF RowFull
<1> HIDE DEF cells, wraps
<1>6. /\ below \in 0..VGA_HEIGHT
      /\ cursor_row' \in 0..(VGA_HEIGHT - 1) /\ cursor_col' \in 0..(w - 1)
  BY <1>1, <1>2, <1>5
<1>7. cursor_row' * w + up = below * w /\ cursor_row' * w \in Nat /\ up \in {0, w}
  <2>1. CASE below >= VGA_HEIGHT
    <3>1. cursor_row' = VGA_HEIGHT - 1 /\ below = cursor_row' + 1
      <4>1. cursor_row' = VGA_HEIGHT - 1
        BY <1>1, <2>1
      <4>2. below = VGA_HEIGHT
        BY ONLY <1>2, <1>6, <2>1
      <4> QED
        BY ONLY <1>2, <4>1, <4>2
    <3>2. (cursor_row' + 1) * w = cursor_row' * w + w /\ cursor_row' * w \in Nat
      BY <1>6, RowFacts
    <3> QED
      BY <2>1, <3>1, <3>2
  <2>2. CASE ~(below >= VGA_HEIGHT)
    <3>1. cursor_row' = below /\ cursor_row' * w \in Nat
      BY <1>1, <1>6, <2>2, RowFacts
    <3> QED
      BY <2>2, <3>1
  <2> QED
    BY <2>1, <2>2
<1>8. below * w = IF wraps THEN p + w ELSE p
  BY <1>2, RowFacts
<1> HIDE DEF below
<1>9. Cursor' + up = below * w + cursor_col'
  <2>1. Cursor' = cursor_row' * w + cursor_col'
    BY DEF Cursor
  <2>2. up \in Int /\ cursor_col' \in Int
    BY ONLY <1>2, <1>6, <1>7
  <2> HIDE DEF up, w
  <2> QED
    BY ONLY <1>7, <2>1, <2>2
<1>10. Cursor' + up > Cursor /\ (ch # "LF" => Cursor' + up = Cursor + 1)
  BY <1>1, <1>2, <1>3, <1>5, <1>8, <1>9
<1>11. /\ vga' \in [Cells -> Glyphs \cup {Blank}]
       /\ \A i \in Cells : vga'[i] = IF i + up \notin Cells THEN Blank ELSE cells[i + up]
  <2>1. CASE below >= VGA_HEIGHT
    BY <1>1, <1>4, <2>1 DEF scroll
  <2>2. CASE ~(below >= VGA_HEIGHT)
    <3>1. vga' = cells /\ \A i \in Cells : i + up = i
      BY <1>1, <2>2 DEF Cells
    <3> QED
      BY <1>4, <3>1
  <2> QED
    BY <2>1, <2>2
<1>12. \A i \in Cells : vga'[i] =
         IF i + up \notin Cells THEN Blank
         ELSE IF ch # "LF" /\ i + up = Cursor THEN ch ELSE vga[i + up]
  BY <1>4, <1>11
<1> HIDE DEF up
<1> QED
  BY <1>6, <1>7, <1>10, <1>11, <1>12

\* backspace moves the cursor back and blanks the cell it was behind, or
\* does nothing.
LEMMA BackspaceFacts ==
  ASSUME TypeOK, backspace
  PROVE  /\ vga' \in [Cells -> Glyphs \cup {Blank}]
         /\ cursor_row' \in 0..(VGA_HEIGHT - 1) /\ cursor_col' \in 0..(VGA_WIDTH - 1)
         /\ cursor_col = 0 => Cursor' = Cursor /\ vga' = vga
         /\ cursor_col # 0 => /\ Cursor' = Cursor - 1 /\ Cursor - 1 \in Cells
                              /\ vga' = [vga EXCEPT ![Cursor - 1] = Blank]
<1>1. /\ cursor_row \in 0..(VGA_HEIGHT - 1) /\ cursor_col \in 0..(VGA_WIDTH - 1)
      /\ VGA_WIDTH \in Nat \ {0} /\ vga \in [Cells -> Glyphs \cup {Blank}]
  BY SizesAssumption DEF TypeOK
<1>2. /\ Cursor \in Cells /\ Cursor \in Nat /\ VGA_WIDTH * VGA_HEIGHT \in Nat
      /\ Cursor = cursor_row * VGA_WIDTH + cursor_col /\ cursor_row * VGA_WIDTH \in Nat
  BY CursorFacts
<1>3. CASE cursor_col = 0
  BY <1>1, <1>3 DEF backspace, screenVars, Cursor
<1>4. CASE cursor_col # 0
  <2>1. /\ cursor_col' = cursor_col - 1 /\ cursor_row' = cursor_row
        /\ vga' = [vga EXCEPT ![cursor_row * VGA_WIDTH + cursor_col - 1] = Blank]
    BY <1>4 DEF backspace
  <2>2. Cursor - 1 = cursor_row * VGA_WIDTH + cursor_col - 1 /\ Cursor' = Cursor - 1
    BY <1>1, <1>2, <2>1 DEF Cursor
  <2>3. Cursor - 1 \in Cells
    <3>1. Cursor - 1 >= 0
      BY <1>1, <1>2, <1>4
    <3> QED
      BY <1>2, <3>1 DEF Cells
  <2>4. vga' = [vga EXCEPT ![Cursor - 1] = Blank]
    BY <2>1, <2>2
  <2>5. vga' \in [Cells -> Glyphs \cup {Blank}]
    BY <1>1, <2>3, <2>4
  <2>6. cursor_col' \in 0..(VGA_WIDTH - 1)
    BY <1>1, <1>4, <2>1
  <2> QED
    BY <1>1, <1>4, <2>1, <2>2, <2>3, <2>4, <2>5, <2>6
<1> QED
  BY <1>3, <1>4

\* A sum grows with its first part.
LEMMA AddOrder ==
  ASSUME NEW a \in Int, NEW b \in Int, NEW u \in Int, NEW x \in Int, a >= b, b + u > x
  PROVE  a + u > x
OBVIOUS

\* A row with one character written over it, and a blank row.
LEMMA RowOps ==
  ASSUME row \in Seq(Glyphs \cup {Blank}), col \in 0..Len(row)
  PROVE  /\ \A c \in Glyphs \cup {Blank} :
              /\ Written(c) \in Seq(Glyphs \cup {Blank})
              /\ Len(Written(c)) = IF col < Len(row) THEN Len(row) ELSE col + 1
              /\ \A i \in 1..Len(Written(c)) : Written(c)[i] = IF i = col + 1 THEN c ELSE row[i]
         /\ Blanks(col) \in Seq(Glyphs \cup {Blank}) /\ Len(Blanks(col)) = col
         /\ \A i \in 1..col : Blanks(col)[i] = Blank
<1>1. Len(row) \in Nat /\ \A i \in 1..Len(row) : row[i] \in Glyphs \cup {Blank}
  BY LenProperties, ElementOfSeq
<1>2. ASSUME NEW c \in Glyphs \cup {Blank}
      PROVE  /\ Written(c) \in Seq(Glyphs \cup {Blank})
             /\ Len(Written(c)) = IF col < Len(row) THEN Len(row) ELSE col + 1
             /\ \A i \in 1..Len(Written(c)) : Written(c)[i] = IF i = col + 1 THEN c ELSE row[i]
  <2> DEFINE n == IF col < Len(row) THEN Len(row) ELSE col + 1
  <2>1. n \in Nat /\ \A i \in 1..n : i # col + 1 => i \in 1..Len(row)
    BY <1>1
  <2>2. Written(c) = [i \in 1..n |-> IF i = col + 1 THEN c ELSE row[i]]
    BY DEF Written
  <2> HIDE DEF n
  <2>3. \A i \in 1..n : (IF i = col + 1 THEN c ELSE row[i]) \in Glyphs \cup {Blank}
    BY <1>1, <2>1
  <2>4. Written(c) \in [1..n -> Glyphs \cup {Blank}]
    BY <2>2, <2>3
  <2>5. Written(c) \in Seq(Glyphs \cup {Blank}) /\ Len(Written(c)) = n
    BY <2>1, <2>4, SeqDef, LenProperties
  <2> QED
    BY <2>2, <2>5 DEF n
<1>3. /\ Blanks(col) \in Seq(Glyphs \cup {Blank}) /\ Len(Blanks(col)) = col
      /\ \A i \in 1..col : Blanks(col)[i] = Blank
  <2>1. Blanks(col) \in [1..col -> Glyphs \cup {Blank}] /\ col \in Nat
    BY <1>1 DEF Blanks
  <2> QED
    BY <2>1, SeqDef, LenProperties DEF Blanks
<1> QED
  BY <1>2, <1>3

-----------------------------------------------------------------------------
(* The types.                                                              *)

ScreenType ==
  /\ vga \in [Cells -> Glyphs \cup {Blank}]
  /\ cursor_row \in 0..(VGA_HEIGHT - 1) /\ cursor_col \in 0..(VGA_WIDTH - 1)

EditType ==
  /\ line \in Seq(Glyphs) /\ Len(line) < LINE_MAX
  /\ call \in Glyphs \cup {"LF", "BACKSPACE", "ENTER", "NONE"}
  /\ out \in Seq(Texts)
  /\ swallowed \in BOOLEAN

SerialType ==
  /\ ready \in BOOLEAN /\ thrEmpty \in BOOLEAN /\ garbled \in BOOLEAN
  /\ txq \in Seq(Chars) /\ spins \in 0..TX_SPIN_LIMIT
  /\ row \in Seq(Glyphs \cup {Blank}) /\ (~garbled => col \in 0..Len(row))

\* The type invariant in three parts.
LEMMA TypeParts == TypeOK <=> ScreenType /\ EditType /\ SerialType
BY DEF TypeOK, ScreenType, EditType, SerialType, Chars, Texts

\* The lengths of the sequences, and their elements.
LEMMA SeqFacts ==
  ASSUME TypeOK
  PROVE  /\ Len(line) \in Nat /\ Len(out) \in Nat /\ Len(row) \in Nat /\ Left \in Int
         /\ \A i \in 1..Len(line) : line[i] \in Glyphs
         /\ \A i \in 1..Len(out) : out[i] \in Texts
         /\ out # <<>> <=> Len(out) > 0
         /\ line # <<>> <=> Len(line) > 0
<1>1. line \in Seq(Glyphs) /\ out \in Seq(Texts) /\ row \in Seq(Glyphs \cup {Blank})
  BY TypeParts DEF EditType, SerialType
<1>2. Len(line) \in Nat /\ Len(out) \in Nat /\ Len(row) \in Nat
  BY <1>1, LenProperties
<1>3. Left \in Int
  BY <1>2, PromptFacts DEF Left
<1>4. (out # <<>> <=> Len(out) > 0) /\ (line # <<>> <=> Len(line) > 0)
  BY <1>1, <1>2, EmptySeq
<1> QED
  BY <1>1, <1>2, <1>3, <1>4, ElementOfSeq

\* The line without its last character.
LEMMA Shortened ==
  ASSUME TypeOK, line # <<>>
  PROVE  LET s == SubSeq(line, 1, Len(line) - 1)
         IN  /\ Len(line) > 0 /\ s \in Seq(Glyphs) /\ Len(s) = Len(line) - 1
             /\ \A k \in 1..(Len(line) - 1) : s[k] = line[k]
<1> DEFINE n == Len(line) - 1
           s == SubSeq(line, 1, n)
<1>1. n \in Nat /\ Len(line) > 0 /\ \A i \in 1..n : line[i] \in Glyphs
  BY SeqFacts
<1> HIDE DEF n
<1>2. s \in Seq(Glyphs) /\ Len(s) = n /\ \A k \in 1..(n - 1 + 1) : s[k] = line[1 + k - 1]
  BY <1>1, SubSeqProperties
<1> HIDE DEF s
<1>3. \A k \in 1..n : s[k] = line[k]
  BY <1>1, <1>2
<1> QED
  BY <1>1, <1>2, <1>3 DEF n, s

\* What a call passes to the UART.
LEMMA BytesType ==
  /\ \A ch \in Glyphs \cup {"LF"} : Bytes(ch) \in Seq(Chars)
  /\ EraseBytes \in Seq(Chars)
<1>1. <<"CR", "LF">> \in Seq(Chars) /\ <<"BS", Blank, "BS">> \in Seq(Chars)
  BY DEF Chars
<1>2. \A ch \in Glyphs : <<ch>> \in Seq(Chars)
  BY DEF Chars
<1> QED
  BY <1>1, <1>2 DEF Bytes, EraseBytes

\* The UART and the terminal.
LEMMA SerialTypeStep ==
  ASSUME IInv, Next
  PROVE  SerialType'
<1> USE DEF SerialType
<1>0. SerialType /\ TypeOK
  BY TypeParts DEF IInv
<1>1. ASSUME NEW name, NEW bytes \in Seq(Chars), Call(name, bytes), CallOnly
      PROVE  SerialType'
  <2>1. /\ txq' \in {bytes, <<>>} /\ UNCHANGED <<ready, thrEmpty, spins>>
        /\ UNCHANGED <<row, col, garbled>>
    BY <1>1 DEF Call, serial_write, CallOnly, hostVars
  <2>2. txq' \in Seq(Chars)
    BY <2>1, EmptySeq
  <2> QED
    BY <1>0, <2>1, <2>2
<1>2. ASSUME UNCHANGED serialVars PROVE SerialType'
  BY <1>0, <1>2 DEF serialVars, hostVars
<1>3. CASE \E ch \in Glyphs : type(ch)
  BY <1>1, <1>3, BytesType DEF type
<1>4. CASE erase
  BY <1>1, <1>4, BytesType DEF erase
<1>5. CASE enter
  BY <1>1, <1>5, BytesType DEF enter
<1>6. CASE print
  <2>1. out # <<>> /\ Head(out) # "CLEAR" /\ Call(Head(out), Bytes(Head(out))) /\ CallOnly
    BY <1>6 DEF print
  <2>2. Head(out) \in Texts
    BY <1>0, <2>1, TypeParts, HeadTailProperties DEF EditType
  <2>3. Bytes(Head(out)) \in Seq(Chars)
    BY <2>1, <2>2, BytesType DEF Texts
  <2> QED
    BY <1>1, <2>1, <2>3
<1>7. CASE cmd_clear
  BY <1>2, <1>7 DEF cmd_clear
<1>8. CASE finish
  BY <1>2, <1>8 DEF finish
<1>9. CASE sends
  <2>1. tx
    BY <1>9 DEF sends
  <2>2. txq # <<>> /\ Head(txq) \in Chars /\ Tail(txq) \in Seq(Chars) /\ ready' = ready
    BY <1>0, <2>1, HeadTailProperties DEF tx
  <2>3. CASE thrEmpty /\ receive(Head(txq)) /\ thrEmpty' = FALSE /\ txq' = Tail(txq) /\ spins' = 0
    <3> DEFINE c == Head(txq)
    <3>0. /\ ready' \in BOOLEAN /\ thrEmpty' \in BOOLEAN
          /\ txq' \in Seq(Chars) /\ spins' \in 0..TX_SPIN_LIMIT
      <4>1. spins' \in 0..TX_SPIN_LIMIT
        BY <2>3, SpinAssumption
      <4>2. txq' \in Seq(Chars) /\ ready' \in BOOLEAN /\ thrEmpty' \in BOOLEAN
        BY <1>0, <2>2, <2>3
      <4> QED
        BY <4>1, <4>2
    <3> SUFFICES /\ garbled' \in BOOLEAN /\ row' \in Seq(Glyphs \cup {Blank})
                 /\ (~garbled' => col' \in 0..Len(row'))
      BY <3>0
    <3>1. garbled' = (garbled /\ ~(c = "LF" /\ col = 0))
      BY <2>3 DEF receive
    <3>2. CASE garbled
      <4>1. row' = <<>> /\ (~garbled' => c = "LF" /\ col = 0)
        BY <2>3, <3>1, <3>2 DEF receive
      <4>2. ~garbled' => col' = 0
        BY <2>3, <4>1 DEF receive
      <4>3. row' \in Seq(Glyphs \cup {Blank}) /\ Len(row') = 0
        BY <4>1
      <4> QED
        BY <1>0, <3>1, <4>2, <4>3
    <3>3. CASE ~garbled
      <4>1. col \in 0..Len(row) /\ Len(row) \in Nat
        BY <1>0, <3>3, SeqFacts
      <4>2. CASE c = "CR"
        <5>1. col' = 0 /\ row' = row /\ garbled' = FALSE
          BY <2>3, <3>3, <4>2 DEF receive
        <5> QED
          <6>1. col' \in 0..Len(row') /\ row' \in Seq(Glyphs \cup {Blank})
            BY <1>0, <4>1, <5>1
          <6> QED
            BY <5>1, <6>1
      <4>3. CASE c = "LF"
        <5>1. col' = col /\ row' = Blanks(col) /\ garbled' = FALSE
          BY <2>3, <3>3, <4>3 DEF receive
        <5>2. row' \in Seq(Glyphs \cup {Blank}) /\ Len(row') = col
          BY <1>0, <4>1, <5>1, RowOps
        <5>3. col' \in 0..Len(row')
          BY <4>1, <5>1, <5>2
        <5> QED
          BY <5>1, <5>2, <5>3
      <4>4. CASE c = "BS"
        <5>1. col' = (IF col = 0 THEN col ELSE col - 1) /\ row' = row /\ garbled' = FALSE
          BY <2>3, <3>3, <4>4 DEF receive
        <5>2. col' \in 0..Len(row)
          BY <4>1, <5>1
        <5> QED
          BY <1>0, <5>1, <5>2
      <4>5. CASE c \in Glyphs \cup {Blank}
        <5>0. c # "CR" /\ c # "LF" /\ c # "BS"
          BY <4>5, Names DEF Blank
        <5>1. col' = col + 1 /\ row' = Written(c) /\ garbled' = FALSE
          BY <2>3, <3>3, <5>0 DEF receive
        <5>2. /\ row' \in Seq(Glyphs \cup {Blank})
              /\ Len(row') = IF col < Len(row) THEN Len(row) ELSE col + 1
          BY <1>0, <4>1, <4>5, <5>1, RowOps
        <5>3. col' \in 0..Len(row')
          BY <4>1, <5>1, <5>2
        <5> QED
          BY <5>1, <5>2, <5>3
      <4> QED
        BY <2>2, <4>2, <4>3, <4>4, <4>5 DEF Chars
    <3> QED
      BY <3>2, <3>3
  <2>4. CASE ~thrEmpty /\ ~GivesUp /\ spins' = NextSpin /\ UNCHANGED <<thrEmpty, txq, hostVars>>
    <3>1. spins' \in 0..TX_SPIN_LIMIT
      BY <1>0, <2>4, SpinAssumption DEF GivesUp, NextSpin
    <3> QED
      BY <1>0, <2>2, <2>4, <3>1 DEF hostVars
  <2>5. CASE txq' = Tail(txq) /\ spins' = 0 /\ garbled' = TRUE /\ row' = <<>> /\ UNCHANGED thrEmpty
    <3>1. row' \in Seq(Glyphs \cup {Blank})
      BY <2>5
    <3> QED
      BY <1>0, <2>2, <2>5, <3>1, SpinAssumption
  <2> QED
    BY <2>1, <2>3, <2>4, <2>5 DEF tx
<1>10. CASE uart
  BY <1>0, <1>10 DEF uart, transmitted, hostVars
<1> QED
  BY <1>3, <1>4, <1>5, <1>6, <1>7, <1>8, <1>9, <1>10 DEF Next, Printing

\* The three ways a call ends.
LEMMA FinishCases ==
  ASSUME TypeOK, finish
  PROVE  /\ call # "NONE" /\ call' = "NONE" /\ txq = <<>> /\ UNCHANGED serialVars
         /\ \/ call = "BACKSPACE" /\ backspace /\ UNCHANGED <<line, out, swallowed>>
            \/ /\ call = "ENTER" /\ putchar("LF") /\ line' = <<>> /\ swallowed' = FALSE
               /\ \E text \in Outputs \cup {<<>>} : out' = text \o Prompt
            \/ call \in Glyphs \cup {"LF"} /\ putchar(call) /\ UNCHANGED <<line, out, swallowed>>
<1>1. <<>> \o Prompt = Prompt
  BY PromptFacts
<1> QED
  BY <1>1 DEF finish, TypeOK

\* Only cmd_clear and the end of a call change the screen.
LEMMA ScreenSteps ==
  ASSUME [Next]_vars
  PROVE  UNCHANGED screenVars \/ cmd_clear \/ finish
BY DEF Next, Printing, vars, type, erase, enter, print, sends, uart, CallOnly

\* The cursor stays on the screen, so that no step writes past it, and what
\* is at or behind the cursor stays blank.
LEMMA ScreenStep ==
  ASSUME IInv, [Next]_vars
  PROVE  ScreenType' /\ NothingAhead'
<1>0. TypeOK /\ ScreenType /\ NothingAhead
  BY TypeParts DEF IInv
<1>1. CASE UNCHANGED screenVars
  BY <1>0, <1>1 DEF screenVars, ScreenType, NothingAhead, Cursor
<1>2. CASE cmd_clear
  <2>1. vga' = BlankScreen /\ cursor_row' = 0 /\ cursor_col' = 0
    BY <1>2 DEF cmd_clear, clear_screen
  <2>2. vga' \in [Cells -> Glyphs \cup {Blank}] /\ \A i \in Cells : vga'[i] = Blank
    BY <2>1 DEF BlankScreen
  <2>3. cursor_row' \in 0..(VGA_HEIGHT - 1) /\ cursor_col' \in 0..(VGA_WIDTH - 1)
    BY <2>1, SizesAssumption
  <2> QED
    BY <2>2, <2>3 DEF ScreenType, NothingAhead
<1>3. ASSUME NEW ch \in Glyphs \cup {"LF"}, putchar(ch) PROVE ScreenType' /\ NothingAhead'
  <2>1. ScreenType'
    BY <1>0, <1>3, PutcharFacts DEF ScreenType
  <2>2. PICK up \in {0, VGA_WIDTH} :
              /\ Cursor' + up > Cursor
              /\ \A i \in Cells : vga'[i] =
                   IF i + up \notin Cells THEN Blank
                   ELSE IF ch # "LF" /\ i + up = Cursor THEN ch ELSE vga[i + up]
    BY <1>0, <1>3, PutcharFacts
  <2>3. \A i \in Cells : i >= Cursor' => vga'[i] = Blank
    <3>0. SUFFICES ASSUME NEW i \in Cells, i >= Cursor' PROVE vga'[i] = Blank
      OBVIOUS
    <3>1. Cursor' \in Int /\ up \in Int /\ Cursor \in Int /\ i \in Int
      <4>2. cursor_row' \in 0..(VGA_HEIGHT - 1) /\ cursor_col' \in 0..(VGA_WIDTH - 1)
        BY <2>1 DEF ScreenType
      <4>3. Cursor' \in Int
        BY <4>2, SizesAssumption DEF Cursor
      <4> QED
        BY <1>0, <4>3, SizesAssumption, CursorFacts DEF Cells
    <3>2. i + up > Cursor
      <4>1. Cursor' + up > Cursor
        BY <2>2
      <4> QED
        BY ONLY <3>0, <3>1, <4>1, AddOrder
    <3>3. i + up \in Cells => vga[i + up] = Blank
      BY <1>0, <3>1, <3>2 DEF NothingAhead
    <3> QED
      BY <2>2, <3>1, <3>2, <3>3
  <2> QED
    BY <2>1, <2>3 DEF NothingAhead
<1>4. ASSUME backspace PROVE ScreenType' /\ NothingAhead'
  <2>1. ScreenType'
    BY <1>0, <1>4, BackspaceFacts DEF ScreenType
  <2>2. CASE cursor_col = 0
    BY <1>0, <1>4, <2>1, <2>2, BackspaceFacts DEF NothingAhead
  <2>3. CASE cursor_col # 0
    <3>1. Cursor' = Cursor - 1 /\ vga' = [vga EXCEPT ![Cursor - 1] = Blank] /\ Cursor \in Nat
      BY <1>0, <1>4, <2>3, BackspaceFacts, CursorFacts
    <3>2. \A i \in Cells : i >= Cursor' => vga'[i] = Blank
      BY <1>0, <3>1 DEF NothingAhead, ScreenType, Cells
    <3> QED
      BY <2>1, <3>2 DEF NothingAhead
  <2> QED
    BY <2>2, <2>3
<1>5. CASE finish
  BY <1>0, <1>3, <1>4, <1>5, FinishCases
<1> QED
  BY <1>1, <1>2, <1>5, ScreenSteps

\* The line, the call and what is left to print.
LEMMA EditTypeStep ==
  ASSUME IInv, Next
  PROVE  EditType'
<1> USE DEF EditType
<1>0. TypeOK /\ EditType /\ Len(line) \in Nat /\ LINE_MAX \in Nat \ {0}
  BY TypeParts, SeqFacts, SizesAssumption DEF IInv
<1>1. CASE \E ch \in Glyphs : type(ch)
  <2>1. PICK ch \in Glyphs : type(ch)
    BY <1>1
  <2>2. /\ Len(line) < LINE_MAX - 1 /\ line' = Append(line, ch) /\ call' = ch
        /\ out' = out /\ swallowed' = swallowed
    BY <2>1 DEF type, Call
  <2>3. line' \in Seq(Glyphs) /\ Len(line') = Len(line) + 1
    BY <1>0, <2>2, AppendProperties
  <2> QED
    BY <1>0, <2>2, <2>3
<1>2. CASE erase
  <2>1. /\ line # <<>> /\ line' = SubSeq(line, 1, Len(line) - 1) /\ call' = "BACKSPACE"
        /\ out' = out /\ swallowed' = (swallowed \/ cursor_col = 0)
    BY <1>2 DEF erase, Call
  <2>2. line' \in Seq(Glyphs) /\ Len(line') = Len(line) - 1
    BY <1>0, <2>1, Shortened
  <2>3. Len(line') < LINE_MAX
    BY <1>0, <2>2
  <2> QED
    BY <1>0, <2>1, <2>2, <2>3
<1>3. CASE enter
  BY <1>0, <1>3 DEF enter, Call
<1>4. CASE print
  <2>1. /\ out # <<>> /\ Head(out) # "CLEAR" /\ call' = Head(out) /\ out' = Tail(out)
        /\ UNCHANGED <<line, swallowed>>
    BY <1>4 DEF print, Call
  <2>2. Head(out) \in Texts /\ Tail(out) \in Seq(Texts)
    BY <1>0, <2>1, HeadTailProperties
  <2> QED
    BY <1>0, <2>1, <2>2 DEF Texts
<1>5. CASE cmd_clear
  <2>1. out # <<>> /\ out' = Tail(out) /\ UNCHANGED <<line, call, swallowed>>
    BY <1>5 DEF cmd_clear
  <2>2. Tail(out) \in Seq(Texts)
    BY <1>0, <2>1, HeadTailProperties
  <2> QED
    BY <1>0, <2>1, <2>2
<1>6. CASE finish
  <2>1. CASE UNCHANGED <<line, out, swallowed>>
    BY <1>0, <1>6, <2>1, FinishCases
  <2>2. ASSUME NEW text \in Outputs \cup {<<>>}, out' = text \o Prompt,
               line' = <<>>, swallowed' = FALSE
        PROVE  EditType'
    <3>1. text \in Seq(Texts) /\ Prompt \in Seq(Texts)
      <4>1. text \in Seq(Texts)
        BY <2>2, GlyphsAssumption, EmptySeq DEF Texts
      <4>2. Prompt \in Seq(Texts)
        BY GlyphsAssumption, SeqDef DEF Texts
      <4> QED
        BY <4>1, <4>2
    <3>2. out' \in Seq(Texts)
      BY <2>2, <3>1, ConcatProperties
    <3>3. line' \in Seq(Glyphs) /\ Len(line') = 0
      BY <2>2
    <3>4. Len(line') < LINE_MAX
      BY <1>0, <3>3
    <3>5. call' = "NONE"
      BY <1>0, <1>6, FinishCases
    <3> QED
      BY <2>2, <3>2, <3>3, <3>4, <3>5
  <2> QED
    BY <1>0, <1>6, <2>1, <2>2, FinishCases
<1>7. CASE sends \/ uart
  BY <1>0, <1>7 DEF sends, uart
<1> QED
  BY <1>1, <1>2, <1>3, <1>4, <1>5, <1>6, <1>7 DEF Next, Printing

-----------------------------------------------------------------------------
(* What is left to print.                                                  *)

\* A text whose lines are complete, followed by the prompt.
LEMMA TextThenPrompt ==
  ASSUME NEW t \in Seq(Texts),
         \A i \in 1..Len(t) : t[i] \in Glyphs => \E j \in (i + 1)..Len(t) : t[j] = "LF"
  PROVE  EndsWithPrompt(t \o Prompt) /\ Len(t \o Prompt) = Len(t) + Len(Prompt)
<1> DEFINE o == t \o Prompt
<1>1. Prompt \in Seq(Texts) /\ Len(Prompt) \in Nat /\ Len(t) \in Nat
  BY PromptFacts, SeqDef, LenProperties DEF Texts
<1>2. /\ Len(o) = Len(t) + Len(Prompt)
      /\ \A i \in 1..(Len(t) + Len(Prompt)) : o[i] = IF i <= Len(t) THEN t[i] ELSE Prompt[i - Len(t)]
  BY <1>1, ConcatProperties
<1> HIDE DEF o
<1>3. Len(o) - Len(Prompt) = Len(t)
  BY <1>1, <1>2
<1>4. ASSUME NEW i \in 1..Len(o), i > Len(t) PROVE o[i] = Prompt[i - Len(t)]
  BY <1>1, <1>2, <1>4
<1>5. \A i \in 1..Len(t) : o[i] = t[i]
  BY <1>1, <1>2
<1>6. ASSUME NEW i \in 1..Len(t), o[i] \in Glyphs PROVE \E j \in (i + 1)..Len(t) : o[j] = "LF"
  <2>1. PICK j \in (i + 1)..Len(t) : t[j] = "LF"
    BY <1>5, <1>6
  <2>2. j \in 1..Len(t)
    BY <1>1
  <2> QED
    BY <1>5, <2>1, <2>2
<1>7. EndsWithPrompt(o)
  BY <1>3, <1>4, <1>6 DEF EndsWithPrompt
<1> QED
  BY <1>2, <1>7 DEF o

\* What an output followed by the prompt is.
LEMMA NewOut ==
  ASSUME NEW text \in Outputs \cup {<<>>}
  PROVE  /\ EndsWithPrompt(text \o Prompt) /\ Len(text \o Prompt) >= Len(Prompt)
         /\ Len(text \o Prompt) \in Nat
<1>1. text \in Seq(Texts) /\ Len(text) \in Nat /\ DOMAIN text = 1..Len(text)
  BY GlyphsAssumption, EmptySeq, LenProperties DEF Texts
<1>2. \A i \in 1..Len(text) : text[i] \in Glyphs => \E j \in (i + 1)..Len(text) : text[j] = "LF"
  <2>1. CASE text \in Outputs
    BY <1>1, <2>1, LinesAssumption
  <2>2. CASE text = <<>>
    BY <2>2
  <2> QED
    BY <2>1, <2>2
<1>3. EndsWithPrompt(text \o Prompt) /\ Len(text \o Prompt) = Len(text) + Len(Prompt)
  BY <1>1, <1>2, TextThenPrompt
<1> QED
  BY <1>1, <1>3, PromptFacts

\* One character of it is printed.
LEMMA PopFacts ==
  ASSUME TypeOK, OutInv, out # <<>>, out' = Tail(out)
  PROVE  /\ OutInv' /\ Left' = Left - 1
         /\ Head(out) \in {"LF", "CLEAR"} => Left >= 1
         /\ Head(out) \in Glyphs /\ Left >= 1 => Breaks'
         /\ Head(out) \in Glyphs /\ Left < 1 => Head(out) = Prompt[-Left']
         /\ Head(out) = "CLEAR" => (Breaks' <=> Breaks)
<1> DEFINE n == Len(out)
           m == Len(Prompt)
<1>1. /\ out \in Seq(Texts) /\ n \in Nat /\ n > 0 /\ m \in Nat /\ Left = n - m
  BY SeqFacts, TypeParts, PromptFacts DEF EditType, Left
<1>2. /\ Len(out') = n - 1 /\ \A i \in 1..(n - 1) : out'[i] = out[i + 1]
      /\ Head(out) = out[1]
  BY <1>1, HeadTailProperties
<1>3. /\ \A i \in 1..n : i > n - m => out[i] = Prompt[i - (n - m)]
      /\ \A i \in 1..(n - m) : out[i] \in Glyphs => \E j \in (i + 1)..(n - m) : out[j] = "LF"
  BY DEF OutInv, EndsWithPrompt
<1>4. Left' = n - 1 - m
  BY <1>2 DEF Left
<1> HIDE DEF n, m
<1>5. ASSUME NEW i \in 1..(n - 1), i > n - 1 - m
      PROVE  out'[i] = Prompt[i - (n - 1 - m)]
  <2>1. i + 1 \in 1..n /\ i + 1 > n - m /\ (i + 1) - (n - m) = i - (n - 1 - m)
    BY <1>1, <1>5
  <2> QED
    BY <1>2, <1>3, <2>1
<1>6. \A j \in 2..(n - m) : j - 1 \in 1..(n - 1 - m) /\ out'[j - 1] = out[j]
  <2> TAKE j \in 2..(n - m)
  <2>1. j - 1 \in 1..(n - 1) /\ j - 1 \in 1..(n - 1 - m) /\ (j - 1) + 1 = j
    BY <1>1
  <2> QED
    BY <1>2, <2>1
<1>7. ASSUME NEW i \in 1..(n - 1 - m), out'[i] \in Glyphs
      PROVE  \E j \in (i + 1)..(n - 1 - m) : out'[j] = "LF"
  <2>1. i + 1 \in 1..(n - m) /\ out[i + 1] \in Glyphs
    BY <1>1, <1>2, <1>7
  <2>2. PICK j \in (i + 2)..(n - m) : out[j] = "LF"
    BY <1>1, <1>3, <2>1
  <2>3. j \in 2..(n - m) /\ j - 1 \in (i + 1)..(n - 1 - m)
    BY <1>1
  <2> QED
    BY <1>6, <2>2, <2>3
<1>8. OutInv'
  <2>1. EndsWithPrompt(out')
    BY <1>2, <1>5, <1>7 DEF EndsWithPrompt, m
  <2> QED
    BY <2>1 DEF OutInv
<1>9. Left' = Left - 1
  BY <1>1, <1>4
<1>10. ASSUME Left < 1 PROVE Head(out) = Prompt[-Left'] /\ Head(out) \in Glyphs
  <2>1. 1 \in 1..n /\ 1 > n - m /\ 1 - (n - m) = -Left' /\ -Left' \in 1..m
    BY <1>1, <1>4, <1>10
  <2>2. out[1] = Prompt[-Left']
    BY <1>3, <2>1
  <2> QED
    BY <1>2, <2>1, <2>2, PromptFacts DEF m
<1>11. ASSUME Head(out) \in {"LF", "CLEAR"} PROVE Left >= 1
  BY <1>1, <1>10, <1>11, Names
<1>12. Breaks' <=> \E j \in 2..(n - m) : out[j] = "LF"
  <2>1. Breaks' <=> \E j \in 1..(n - 1 - m) : out'[j] = "LF"
    BY <1>4 DEF Breaks
  <2>2. \A j \in 1..(n - 1 - m) : j + 1 \in 2..(n - m) /\ out'[j] = out[j + 1]
    BY <1>1, <1>2
  <2>3. ASSUME NEW j \in 1..(n - 1 - m), out'[j] = "LF" PROVE \E k \in 2..(n - m) : out[k] = "LF"
    BY <2>2, <2>3
  <2>4. ASSUME NEW j \in 2..(n - m), out[j] = "LF" PROVE \E k \in 1..(n - 1 - m) : out'[k] = "LF"
    BY <1>6, <2>4
  <2> QED
    BY <2>1, <2>3, <2>4
<1>13. ASSUME Head(out) \in Glyphs, Left >= 1 PROVE Breaks'
  <2>1. 1 \in 1..(n - m) /\ out[1] \in Glyphs
    BY <1>1, <1>2, <1>13
  <2>2. \E j \in (1 + 1)..(n - m) : out[j] = "LF"
    BY <1>3, <2>1
  <2> QED
    BY <1>12, <2>2
<1>14. ASSUME Head(out) = "CLEAR" PROVE Breaks' <=> Breaks
  <2>1. Breaks <=> \E j \in 1..(n - m) : out[j] = "LF"
    BY <1>1 DEF Breaks
  <2>2. out[1] # "LF"
    BY <1>2, <1>14
  <2>3. \A j \in 1..(n - m) : j # 1 => j \in 2..(n - m)
    BY <1>1
  <2>4. \A j \in 2..(n - m) : j \in 1..(n - m)
    BY <1>1
  <2> QED
    BY <1>12, <2>1, <2>2, <2>3, <2>4
<1> QED
  BY <1>8, <1>9, <1>10, <1>11, <1>13, <1>14

-----------------------------------------------------------------------------
(* The call in progress and its bytes.                                     *)

\* Between two calls, with nothing left to print.
LEMMA IdleFacts ==
  ASSUME IInv, Editing
  PROVE  /\ call = "NONE" /\ txq = <<>> /\ out = <<>>
         /\ Len(out) = 0 /\ Left = -Len(Prompt) /\ Left <= 0 /\ ~Breaks
<1>1. call = "NONE" /\ txq = <<>> /\ out = <<>>
  BY DEF Editing, IInv, QueueInv
<1>2. Len(out) = 0 /\ Len(Prompt) \in Nat
  BY <1>1, EmptySeq, PromptFacts
<1>3. Left = -Len(Prompt) /\ Left <= 0
  BY <1>2 DEF Left
<1>4. 1..Left = {}
  BY <1>2, <1>3
<1> QED
  BY <1>1, <1>2, <1>3, <1>4 DEF Breaks

\* The steps of the UART and of tx leave the caller alone.
LEMMA SerialOnly ==
  ASSUME sends \/ uart
  PROVE  UNCHANGED <<vga, cursor_row, cursor_col, line, call, out, swallowed, ready>>
BY DEF sends, uart, screenVars, tx, transmitted

\* The bytes of a call, one after the other.
LEMMA Queues ==
  /\ \A ch : Head(<<ch>>) = ch /\ Tail(<<ch>>) = <<>> /\ <<ch>> # <<>>
  /\ \A ch, d : Head(<<ch, d>>) = ch /\ Tail(<<ch, d>>) = <<d>> /\ <<ch, d>> # <<>>
  /\ \A ch, d, e : /\ Head(<<ch, d, e>>) = ch /\ Tail(<<ch, d, e>>) = <<d, e>>
                   /\ <<ch, d, e>> # <<>>
<1>1. \A ch : Head(<<ch>>) = ch /\ Tail(<<ch>>) = <<>> /\ <<ch>> # <<>>
  OBVIOUS
<1>2. \A ch, d : Head(<<ch, d>>) = ch /\ Tail(<<ch, d>>) = <<d>> /\ <<ch, d>> # <<>>
  OBVIOUS
<1>3. \A ch, d, e : /\ Head(<<ch, d, e>>) = ch /\ Tail(<<ch, d, e>>) = <<d, e>>
                   /\ <<ch, d, e>> # <<>>
  OBVIOUS
<1> QED
  BY <1>1, <1>2, <1>3

\* The bytes belong to the call.
LEMMA QueueStep ==
  ASSUME IInv, Next
  PROVE  QueueInv'
<1>0. TypeOK /\ QueueInv
  BY DEF IInv
<1>1. CASE \E ch \in Glyphs : type(ch)
  <2>1. PICK ch \in Glyphs : type(ch)
    BY <1>1
  <2>2. call' = ch /\ txq' = (IF ready THEN <<ch>> ELSE <<>>) /\ ready' = ready /\ ch # "LF"
    BY <2>1, Names DEF type, Call, serial_write, CallOnly, Bytes
  <2> QED
    BY <2>2, Names DEF QueueInv
<1>2. CASE erase
  <2>1. call' = "BACKSPACE" /\ txq' = (IF ready THEN <<"BS", Blank, "BS">> ELSE <<>>) /\ ready' = ready
    BY <1>2 DEF erase, Call, serial_write, CallOnly, EraseBytes
  <2> QED
    BY <2>1, Names DEF QueueInv
<1>3. CASE enter
  <2>1. call' = "ENTER" /\ txq' = (IF ready THEN <<"CR", "LF">> ELSE <<>>) /\ ready' = ready
    BY <1>3 DEF enter, Call, serial_write, CallOnly, Bytes
  <2> QED
    BY <2>1, Names DEF QueueInv
<1>4. CASE print
  <2>1. /\ call' = Head(out) /\ txq' = (IF ready THEN Bytes(Head(out)) ELSE <<>>) /\ ready' = ready
        /\ out # <<>> /\ Head(out) # "CLEAR"
    BY <1>4 DEF print, Call, serial_write, CallOnly
  <2>2. Head(out) \in Glyphs \cup {"LF"}
    BY <1>0, <2>1, TypeParts, HeadTailProperties DEF EditType, Texts
  <2>3. CASE Head(out) = "LF"
    BY <2>1, <2>3, Names DEF QueueInv, Bytes
  <2>4. CASE Head(out) \in Glyphs
    BY <2>1, <2>4, Names DEF QueueInv, Bytes
  <2> QED
    BY <2>2, <2>3, <2>4
<1>5. CASE cmd_clear
  BY <1>0, <1>5 DEF cmd_clear, serialVars, QueueInv
<1>6. CASE finish
  <2>1. call' = "NONE" /\ txq' = <<>> /\ ready' = ready
    BY <1>0, <1>6, FinishCases DEF serialVars
  <2> QED
    BY <2>1, Names DEF QueueInv
<1>7. CASE sends \/ uart
  <2>1. call' = call /\ ready' = ready
    BY <1>7, SerialOnly
  <2>2. txq' = txq \/ (txq # <<>> /\ txq' = Tail(txq))
    BY <1>7 DEF sends, uart, tx, transmitted
  <2>3. CASE txq' = txq
    BY <1>0, <2>1, <2>3 DEF QueueInv
  <2>4. CASE txq # <<>> /\ txq' = Tail(txq)
    <3>1. ready /\ call # "NONE"
      BY <1>0, <2>4 DEF QueueInv
    <3>2. CASE call \in Glyphs
      BY <1>0, <2>1, <2>4, <3>1, <3>2, Names DEF QueueInv
    <3>3. CASE call \in {"LF", "ENTER"}
      <4>1. txq \in {<<"LF">>, <<"CR", "LF">>}
        BY <1>0, <2>4, <3>3 DEF QueueInv
      <4>2. txq' \in {<<>>, <<"LF">>}
        BY <2>4, <4>1, Queues
      <4> QED
        BY <2>1, <3>1, <3>3, <4>2, Names DEF QueueInv
    <3>4. CASE call = "BACKSPACE"
      <4>1. txq \in {<<"BS">>, <<Blank, "BS">>, <<"BS", Blank, "BS">>}
        BY <1>0, <2>4, <3>4 DEF QueueInv
      <4>2. txq' \in {<<>>, <<"BS">>, <<Blank, "BS">>}
        <5>1. /\ Tail(<<"BS">>) = <<>> /\ Tail(<<Blank, "BS">>) = <<"BS">>
              /\ Tail(<<"BS", Blank, "BS">>) = <<Blank, "BS">>
          <6>1. Tail(<<"BS">>) = <<>>
            OBVIOUS
          <6>2. Tail(<<Blank, "BS">>) = <<"BS">>
            OBVIOUS
          <6>3. Tail(<<"BS", Blank, "BS">>) = <<Blank, "BS">>
            OBVIOUS
          <6> QED
            BY <6>1, <6>2, <6>3
        <5> QED
          BY ONLY <2>4, <4>1, <5>1, Zenon
      <4> QED
        BY <2>1, <3>1, <3>4, <4>2, Names DEF QueueInv
    <3> QED
      BY <1>0, <3>1, <3>2, <3>3, <3>4 DEF TypeOK
  <2> QED
    BY <2>2, <2>3, <2>4
<1> QED
  BY <1>1, <1>2, <1>3, <1>4, <1>5, <1>6, <1>7 DEF Next, Printing

\* The call belongs to the line or to what is printed.
LEMMA CallStep ==
  ASSUME IInv, Next
  PROVE  OutInv' /\ CallInv'
<1>0. TypeOK /\ OutInv /\ CallInv
  BY DEF IInv
<1>1. CASE \E ch \in Glyphs : type(ch)
  <2>1. PICK ch \in Glyphs : type(ch)
    BY <1>1
  <2>2. Editing /\ call' = ch /\ line' = Append(line, ch) /\ out' = out
    BY <2>1 DEF type, Call
  <2>3. out = <<>>
    BY <2>2 DEF Editing
  <2>4. line' # <<>> /\ line'[Len(line')] = ch
    <3>1. line \in Seq(Glyphs)
      BY <1>0, TypeParts DEF EditType
    <3>2. /\ Append(line, ch) # <<>> /\ Len(Append(line, ch)) = Len(line) + 1
          /\ Append(line, ch)[Len(line) + 1] = ch
      BY <3>1, AppendProperties
    <3> QED
      BY <2>2, <3>2
  <2> QED
    BY <1>0, <2>2, <2>3, <2>4, Names DEF OutInv, CallInv
<1>2. CASE erase \/ enter
  <2>1. call' \in {"BACKSPACE", "ENTER"} /\ out' = out /\ out = <<>>
    BY <1>2 DEF erase, enter, Call, Editing
  <2> QED
    BY <1>0, <2>1, Names DEF OutInv, CallInv
<1>3. CASE print
  <2>1. /\ call' = Head(out) /\ out # <<>> /\ Head(out) # "CLEAR"
        /\ out' = Tail(out) /\ line' = line /\ line = <<>>
    BY <1>0, <1>3 DEF print, Call, CallInv
  <2>2. Head(out) \in Glyphs \cup {"LF"}
    BY <1>0, <2>1, TypeParts, HeadTailProperties DEF EditType, Texts
  <2>3. OutInv' /\ Left' = Left - 1 /\ Left \in Int
    BY <1>0, <2>1, PopFacts, SeqFacts
  <2>4. CASE Head(out) = "LF"
    <3>1. Left' >= 0
      BY <1>0, <2>1, <2>3, <2>4, PopFacts
    <3> QED
      BY <2>1, <2>3, <2>4, <3>1, Names DEF CallInv
  <2>5. CASE Head(out) \in Glyphs
    <3>1. ~Breaks' => Left' < 0 /\ call' = Prompt[-Left']
      <4>1. CASE Left >= 1
        BY <1>0, <2>1, <2>5, <4>1, PopFacts
      <4>2. CASE Left < 1
        <5>1. Head(out) = Prompt[-Left']
          BY <1>0, <2>1, <2>5, <4>2, PopFacts
        <5>2. Left' < 0
          BY <2>3, <4>2
        <5> QED
          BY <2>1, <5>1, <5>2
      <4> QED
        BY <2>3, <4>1, <4>2
    <3> QED
      BY <2>1, <2>3, <2>5, <3>1, Names DEF CallInv
  <2> QED
    BY <2>2, <2>4, <2>5
<1>4. CASE cmd_clear
  <2>1. /\ call' = "NONE" /\ out # <<>> /\ out' = Tail(out) /\ line' = line /\ line = <<>>
    BY <1>0, <1>4 DEF cmd_clear, CallInv
  <2>2. OutInv'
    BY <1>0, <2>1, PopFacts
  <2> QED
    BY <2>1, <2>2, Names DEF CallInv
<1>5. CASE finish
  <2>1. call' = "NONE"
    BY <1>0, <1>5, FinishCases
  <2>2. CASE UNCHANGED <<line, out>>
    BY <1>0, <2>1, <2>2, Names DEF OutInv, CallInv
  <2>3. ASSUME line' = <<>>, NEW text \in Outputs \cup {<<>>}, out' = text \o Prompt
        PROVE  OutInv' /\ CallInv'
    <3>1. EndsWithPrompt(out')
      BY <2>3, NewOut
    <3> QED
      BY <2>1, <2>3, <3>1, Names DEF OutInv, CallInv
  <2> QED
    BY <1>0, <1>5, <2>2, <2>3, FinishCases
<1>6. CASE sends \/ uart
  BY <1>0, <1>6, SerialOnly DEF OutInv, CallInv, Left, Breaks
<1> QED
  BY <1>1, <1>2, <1>3, <1>4, <1>5, <1>6 DEF Next, Printing

-----------------------------------------------------------------------------
(* The line on the screen.                                                 *)

\* The cells before the cursor follow the line through every step.
LEMMA EchoStep ==
  ASSUME IInv, Next
  PROVE  EchoInv'
<1>0. TypeOK /\ EchoInv /\ CallInv /\ Len(line) \in Nat /\ line \in Seq(Glyphs)
  BY SeqFacts, TypeParts DEF IInv, EditType
<1>1. Cursor \in Nat /\ Cursor \in Cells /\ vga \in [Cells -> Glyphs \cup {Blank}]
  BY <1>0, CursorFacts DEF TypeOK
<1>2. ASSUME Len(line') = 0 PROVE Spelled(Len(line), Cursor)'
  BY <1>2 DEF Spelled
<1>3. CASE \E ch \in Glyphs : type(ch)
  <2>1. PICK ch \in Glyphs : type(ch)
    BY <1>3
  <2>2. /\ Editing /\ call' = ch /\ line' = Append(line, ch)
        /\ UNCHANGED <<vga, cursor_row, cursor_col, swallowed>>
    BY <2>1 DEF type, Call, CallOnly, screenVars
  <2>3. Len(line') = Len(line) + 1 /\ \A k \in 1..Len(line) : line'[k] = line[k]
    BY <1>0, <2>2, AppendProperties
  <2>4. ASSUME ~swallowed PROVE Spelled(Len(line) - 1, Cursor)'
    <3>1. Spelled(Len(line), Cursor)
      BY <1>0, <2>2, <2>4 DEF EchoInv, Editing
    <3>2. Cursor' = Cursor /\ vga' = vga /\ Len(line') - 1 = Len(line)
      BY <1>0, <2>2, <2>3 DEF Cursor
    <3> QED
      BY <2>3, <3>1, <3>2 DEF Spelled
  <2> QED
    BY <2>2, <2>4, Names DEF EchoInv
<1>4. CASE erase
  <2>1. /\ Editing /\ line # <<>> /\ line' = SubSeq(line, 1, Len(line) - 1) /\ call' = "BACKSPACE"
        /\ swallowed' = (swallowed \/ cursor_col = 0)
        /\ UNCHANGED <<vga, cursor_row, cursor_col>>
    BY <1>4 DEF erase, Call, CallOnly, screenVars
  <2>2. /\ Len(line) > 0 /\ Len(line') = Len(line) - 1
        /\ \A k \in 1..(Len(line) - 1) : line'[k] = line[k]
    BY <1>0, <2>1, Shortened
  <2>3. ASSUME ~swallowed, cursor_col # 0 PROVE Spelled(Len(line), Cursor - 1)'
    <3>1. Spelled(Len(line), Cursor)
      BY <1>0, <2>1, <2>3 DEF EchoInv, Editing
    <3>2. Cursor' = Cursor /\ vga' = vga
      BY <2>1 DEF Cursor
    <3>3. \A k \in 1..Len(line') : /\ k \in 1..Len(line) /\ line'[k] = line[k]
                                   /\ Cursor - 1 - Len(line') + k - 1 = Cursor - Len(line) + k - 1
      BY <1>0, <1>1, <2>2
    <3> QED
      BY <3>1, <3>2, <3>3 DEF Spelled
  <2> QED
    BY <2>1, <2>3, Names DEF EchoInv
<1>5. CASE enter
  <2>1. Editing /\ call' = "ENTER" /\ UNCHANGED <<vga, cursor_row, cursor_col, swallowed, line>>
    BY <1>5 DEF enter, Call, CallOnly, screenVars
  <2> QED
    BY <1>0, <2>1, Names DEF EchoInv, Editing, Spelled, Cursor
<1>6. CASE print \/ cmd_clear
  <2>1. line' = line /\ line = <<>> /\ call' # "BACKSPACE"
    <3>1. out # <<>> /\ line' = line
      BY <1>6 DEF print, cmd_clear
    <3>2. Head(out) \in Texts
      BY <1>0, <3>1, TypeParts, HeadTailProperties DEF EditType
    <3> QED
      BY <1>0, <1>6, <3>1, <3>2, Names DEF print, cmd_clear, Call, CallInv, Texts
  <2>2. Len(line') = 0
    BY <2>1, EmptySeq
  <2> QED
    BY <1>2, <2>1, <2>2 DEF EchoInv
<1>7. CASE finish
  <2>0. call' = "NONE"
    BY <1>0, <1>7, FinishCases
  <2>1. CASE call = "BACKSPACE" /\ backspace /\ UNCHANGED <<line, out, swallowed>>
    <3>1. ASSUME ~swallowed PROVE Spelled(Len(line), Cursor)'
      <4>1. cursor_col # 0 /\ Spelled(Len(line), Cursor - 1)
        BY <1>0, <2>1, <3>1 DEF EchoInv
      <4>2. Cursor' = Cursor - 1 /\ Cursor - 1 \in Cells /\ vga' = [vga EXCEPT ![Cursor - 1] = Blank]
        BY <1>0, <2>1, <4>1, BackspaceFacts
      <4>3. \A i \in Cells : i # Cursor - 1 => vga'[i] = vga[i]
        BY <1>1, <4>2
      <4>4. \A k \in 1..Len(line) : LET x == Cursor - 1 - Len(line) + k - 1
                                    IN  x >= 0 => x \in Cells /\ x # Cursor - 1
        <5> TAKE k \in 1..Len(line)
        <5> DEFINE x == Cursor - 1 - Len(line) + k - 1
        <5>1. x \in Int /\ x <= Cursor /\ x # Cursor - 1
          BY <1>0, <1>1
        <5> HIDE DEF x
        <5>2. x >= 0 => x \in Cells
          BY <1>1, <5>1, CellsBefore
        <5> QED
          BY <5>1, <5>2 DEF x
      <4> QED
        BY <2>1, <4>1, <4>2, <4>3, <4>4 DEF Spelled
    <3> QED
      BY <2>0, <2>1, <3>1, Names DEF EchoInv
  <2>2. CASE line' = <<>>
    <3>1. Len(line') = 0
      BY <2>2, EmptySeq
    <3> QED
      BY <1>2, <2>0, <3>1, Names DEF EchoInv
  <2>3. CASE call \in Glyphs \cup {"LF"} /\ putchar(call) /\ UNCHANGED <<line, out, swallowed>>
    <3>1. CASE line = <<>>
      BY <2>2, <2>3, <3>1
    <3>2. CASE line # <<>>
      <4>1. call \in Glyphs /\ call # "LF" /\ line[Len(line)] = call /\ Len(line) > 0
        BY <1>0, <2>3, <3>2, Names, SeqFacts DEF CallInv
      <4>2. PICK up \in {0, VGA_WIDTH} :
              /\ Cursor' + up = Cursor + 1
              /\ \A i \in Cells : vga'[i] =
                   IF i + up \notin Cells THEN Blank
                   ELSE IF i + up = Cursor THEN call ELSE vga[i + up]
        BY <1>0, <2>3, <4>1, PutcharFacts
      <4>3. ScreenType'
        BY ScreenStep
      <4>4. up \in Nat /\ Cursor' \in Nat /\ Cursor' \in Cells
        <5>1. /\ cursor_row' \in 0..(VGA_HEIGHT - 1) /\ cursor_col' \in 0..(VGA_WIDTH - 1)
          BY <4>3 DEF ScreenType
        <5>2. /\ cursor_row' * VGA_WIDTH \in Nat /\ VGA_WIDTH * VGA_HEIGHT \in Nat
              /\ cursor_row' * VGA_WIDTH + VGA_WIDTH <= VGA_WIDTH * VGA_HEIGHT
          BY <5>1, RowFacts
        <5>3. Cursor' = cursor_row' * VGA_WIDTH + cursor_col'
          BY DEF Cursor
        <5> DEFINE p == cursor_row' * VGA_WIDTH
                   n == VGA_WIDTH * VGA_HEIGHT
                   C == Cursor'
                   x == cursor_col'
        <5>4. p \in Nat /\ n \in Nat /\ p + VGA_WIDTH <= n /\ C = p + x /\ x \in 0..(VGA_WIDTH - 1)
          BY <5>1, <5>2, <5>3
        <5> HIDE DEF p, n, C, x
        <5>5. C \in 0..(n - 1) /\ C \in Nat
          BY ONLY <5>4, SizesAssumption
        <5> QED
          BY <5>5, SizesAssumption DEF Cells, n, C
      <4>5. ASSUME ~swallowed PROVE Spelled(Len(line), Cursor)'
        <5>1. Spelled(Len(line) - 1, Cursor)
          BY <1>0, <3>2, <4>1, <4>5 DEF EchoInv
        <5> DEFINE C == Cursor'
        <5>2. SUFFICES ASSUME NEW k \in 1..Len(line), C - Len(line) + k - 1 >= 0
                       PROVE  vga'[C - Len(line) + k - 1] = line[k]
          BY <2>3 DEF Spelled
        <5>3. C \in Nat /\ C \in Cells /\ C + up = Cursor + 1
          BY <4>2, <4>4
        <5> HIDE DEF C
        <5> DEFINE x == C - Len(line) + k - 1
        <5>4. x \in Cells /\ x + up = Cursor - (Len(line) - 1) + k - 1 /\ x + up \in Cells
          <6>1. x \in Int /\ x >= 0 /\ x <= C
            BY <1>0, <5>2, <5>3
          <6>2. x + up = Cursor - (Len(line) - 1) + k - 1
            BY <1>0, <1>1, <4>4, <5>3
          <6>3. x + up \in Int /\ x + up >= 0 /\ x + up <= Cursor
            BY <1>0, <1>1, <4>4, <6>1, <6>2
          <6> HIDE DEF x
          <6> QED
            BY <1>1, <5>3, <6>1, <6>2, <6>3, CellsBefore
        <5>5. CASE k = Len(line)
          <6>1. x + up = Cursor
            BY <1>0, <1>1, <5>4, <5>5
          <6> QED
            BY <4>1, <4>2, <5>4, <5>5, <6>1
        <5>6. CASE k # Len(line)
          <6>1. k \in 1..(Len(line) - 1) /\ x + up # Cursor /\ x + up >= 0
            BY <1>0, <1>1, <5>4, <5>6 DEF Cells
          <6>2. vga[x + up] = line[k]
            BY <5>1, <5>4, <6>1 DEF Spelled
          <6> QED
            BY <4>2, <5>4, <6>1, <6>2
        <5> QED
          BY <5>5, <5>6
      <4> QED
        BY <2>0, <2>3, <4>5, Names DEF EchoInv
    <3> QED
      BY <3>1, <3>2
  <2> QED
    BY <1>0, <1>7, <2>1, <2>2, <2>3, FinishCases
<1>8. CASE sends \/ uart
  BY <1>0, <1>8, SerialOnly DEF EchoInv, Spelled, Cursor
<1> QED
  BY <1>3, <1>4, <1>5, <1>6, <1>7, <1>8 DEF Next, Printing

-----------------------------------------------------------------------------
(* The line on the host's terminal.                                        *)

\* The numbers the row is measured with.
LEMMA GoalFacts ==
  ASSUME TypeOK
  PROVE  /\ Prompted \in Nat /\ Goal \in Nat /\ Len(line) \in Nat /\ Left \in Int
         /\ Prompted = IF Left >= 0 THEN 0 ELSE -Left
         /\ Goal = IF call = "ENTER" THEN 0 ELSE Prompted + Len(line)
<1>1. Left \in Int /\ Len(line) \in Nat
  BY SeqFacts
<1>2. Prompted \in Nat
  BY <1>1 DEF Prompted
<1>3. Goal \in Nat
  BY <1>1, <1>2 DEF Goal
<1> QED
  BY <1>1, <1>2, <1>3 DEF Prompted, Goal

\* A new call begins on a row that is as it should be.
LEMMA HostCall ==
  ASSUME IInv, Next, call = "NONE", call' # "NONE"
  PROVE  HostInv'
<1>0. /\ TypeOK /\ OutInv /\ CallInv /\ HostInv /\ txq = <<>> /\ Len(txq) = 0
      /\ row \in Seq(Glyphs \cup {Blank})
  <2>1. txq = <<>>
    BY DEF IInv, QueueInv
  <2> QED
    BY <2>1, EmptySeq DEF IInv, TypeOK
<1>1. /\ Prompted \in Nat /\ Len(line) \in Nat /\ Left \in Int
      /\ Prompted = (IF Left >= 0 THEN 0 ELSE -Left) /\ Goal = Prompted + Len(line)
  BY <1>0, GoalFacts
<1>2. ASSUME ready, ~garbled, ~Breaks
      PROVE  col = Goal /\ RowHolds(Goal) /\ BlankFrom(Goal + 1)
  BY <1>0, <1>2 DEF HostInv
<1>3. CASE \E ch \in Glyphs : type(ch)
  <2>1. PICK ch \in Glyphs : type(ch)
    BY <1>3
  <2>2. /\ Editing /\ call' = ch /\ line' = Append(line, ch) /\ out' = out
        /\ txq' = (IF ready THEN <<ch>> ELSE <<>>)
        /\ UNCHANGED <<ready, row, col, garbled>>
    BY <2>1, Names DEF type, Call, CallOnly, serial_write, Bytes, hostVars
  <2>3. Len(line') = Len(line) + 1 /\ \A k \in 1..Len(line) : line'[k] = line[k]
    <3>1. line \in Seq(Glyphs)
      BY <1>0, TypeParts DEF EditType
    <3> QED
      BY <2>2, <3>1, AppendProperties
  <2>4. ~Breaks /\ Prompted' = Prompted
    BY <2>2, IdleFacts DEF Prompted, Left
  <2>5. Goal' = Goal + 1
    <3>1. Goal' = Prompted' + Len(line')
      BY <2>2, Names DEF Goal
    <3> QED
      BY <1>1, <2>3, <2>4, <3>1
  <2>6. ASSUME ready, ~garbled
        PROVE  Len(txq') = 1 /\ col' = Goal' - 1 /\ RowHolds(Goal - 1)' /\ BlankFrom(Goal)'
    <3>1. col = Goal /\ RowHolds(Goal) /\ BlankFrom(Goal + 1)
      BY <1>2, <2>4, <2>6
    <3>2. Goal' - 1 = Goal
      BY <1>1, <2>5
    <3>3. \A i \in 1..Goal : ~(i <= Prompted) => i - Prompted \in 1..Len(line)
      BY <1>1
    <3>4. RowHolds(Goal - 1)'
      BY <2>2, <2>3, <2>4, <3>1, <3>2, <3>3 DEF RowHolds
    <3>5. BlankFrom(Goal)'
      BY <2>2, <2>5, <3>1 DEF BlankFrom
    <3> QED
      BY <2>2, <2>6, <3>1, <3>2, <3>4, <3>5
  <2> QED
    BY <2>2, <2>6, Names DEF HostInv
<1>4. CASE erase
  <2>1. /\ Editing /\ call' = "BACKSPACE" /\ line # <<>> /\ line' = SubSeq(line, 1, Len(line) - 1)
        /\ out' = out /\ txq' = (IF ready THEN <<"BS", Blank, "BS">> ELSE <<>>)
        /\ UNCHANGED <<ready, row, col, garbled>>
    BY <1>4 DEF erase, Call, CallOnly, serial_write, EraseBytes, hostVars
  <2>2. /\ Len(line) > 0 /\ Len(line') = Len(line) - 1
        /\ \A k \in 1..(Len(line) - 1) : line'[k] = line[k]
    BY <1>0, <2>1, Shortened
  <2>3. ~Breaks /\ Prompted' = Prompted
    BY <2>1, IdleFacts DEF Prompted, Left
  <2>4. Goal' = Goal - 1
    <3>1. Goal' = Prompted' + Len(line')
      BY <2>1 DEF Goal
    <3> QED
      BY <1>1, <2>2, <2>3, <3>1
  <2>5. ASSUME ready, ~garbled
        PROVE  Len(txq') = 3 /\ col' = Goal' + 1 /\ RowHolds(Goal)' /\ BlankFrom(Goal + 2)'
    <3>1. col = Goal /\ RowHolds(Goal) /\ BlankFrom(Goal + 1)
      BY <1>2, <2>3, <2>5
    <3>2. Goal' + 1 = Goal /\ Goal' + 2 = Goal + 1 /\ Goal' \in Nat
      BY <1>1, <2>2, <2>4
    <3>3. \A i \in 1..Goal' : i \in 1..Goal /\ (~(i <= Prompted) => i - Prompted \in 1..(Len(line) - 1))
      BY <1>1, <2>4
    <3>4. RowHolds(Goal)'
      BY <2>1, <2>2, <2>3, <3>1, <3>3 DEF RowHolds
    <3>5. BlankFrom(Goal + 2)'
      BY <2>1, <3>1, <3>2 DEF BlankFrom
    <3> QED
      BY <2>1, <2>5, <3>1, <3>2, <3>4, <3>5
  <2>6. ready' = ready /\ garbled' = garbled
    BY <2>1
  <2> QED
    BY <2>1, <2>5, <2>6, Names DEF HostInv
<1>5. CASE enter
  <2>1. call' = "ENTER" /\ txq' = (IF ready THEN <<"CR", "LF">> ELSE <<>>) /\ ready' = ready
    BY <1>5 DEF enter, Call, CallOnly, serial_write, Bytes
  <2>2. ready => Len(txq') = 2
    BY <2>1
  <2> QED
    BY <2>1, <2>2, Names DEF HostInv
<1>6. CASE print
  <2>1. /\ call' = Head(out) /\ out # <<>> /\ Head(out) # "CLEAR"
        /\ out' = Tail(out) /\ line' = line /\ line = <<>>
        /\ txq' = (IF ready THEN Bytes(Head(out)) ELSE <<>>)
        /\ UNCHANGED <<ready, row, col, garbled>>
    BY <1>0, <1>6 DEF print, Call, CallOnly, serial_write, CallInv, hostVars
  <2>2. Head(out) \in Glyphs \cup {"LF"}
    BY <1>0, <2>1, TypeParts, HeadTailProperties DEF EditType, Texts
  <2>3. CASE Head(out) = "LF"
    <3>1. ready => Len(txq') = 2
      BY <2>1, <2>3 DEF Bytes
    <3> QED
      BY <2>1, <2>3, <3>1, Names DEF HostInv
  <2>4. CASE Head(out) \in Glyphs
    <3>1. ready => Len(txq') = 1
      BY <2>1, <2>4, Names DEF Bytes
    <3>2. ASSUME ready, ~garbled, ~Breaks'
          PROVE  col' = Goal' - 1 /\ RowHolds(Goal - 1)' /\ BlankFrom(Goal)'
      <4>1. Left < 1 /\ Left' = Left - 1
        BY <1>0, <1>1, <2>1, <2>4, <3>2, PopFacts
      <4>2. ~Breaks
        <5>1. 1..Left = {}
          BY <1>1, <4>1
        <5> QED
          BY <5>1 DEF Breaks
      <4>3. col = Goal /\ RowHolds(Goal) /\ BlankFrom(Goal + 1)
        BY <1>2, <3>2, <4>2
      <4>4. Prompted' = Prompted + 1
        <5>1. Prompted' = IF Left' >= 0 THEN 0 ELSE -Left'
          BY DEF Prompted
        <5> QED
          BY <1>1, <4>1, <5>1
      <4>5. Len(line) = 0 /\ Goal = Prompted
        BY <1>1, <2>1, EmptySeq
      <4>6. Goal' = Goal + 1
        <5>1. Goal' = Prompted' + Len(line')
          BY <2>1, <2>4, Names DEF Goal
        <5> QED
          BY <1>1, <2>1, <4>4, <4>5, <5>1
      <4>7. Goal' - 1 = Goal
        BY <1>1, <4>6
      <4>8. \A i \in 1..Goal : i <= Prompted /\ i <= Prompted'
        BY <1>1, <4>4, <4>5
      <4>9. RowHolds(Goal - 1)'
        BY <2>1, <4>3, <4>7, <4>8 DEF RowHolds
      <4>10. BlankFrom(Goal)'
        BY <2>1, <4>3, <4>6 DEF BlankFrom
      <4> QED
        BY <2>1, <4>3, <4>7, <4>9, <4>10
    <3> QED
      BY <2>1, <2>4, <3>1, <3>2, Names DEF HostInv
  <2> QED
    BY <2>2, <2>3, <2>4
<1>7. ~(cmd_clear \/ finish \/ sends \/ uart)
  BY SerialOnly DEF cmd_clear, finish
<1> QED
  BY <1>3, <1>4, <1>5, <1>6, <1>7 DEF Next, Printing

\* A call ends, or the screen is cleared, once all bytes have been sent.
LEMMA HostEnd ==
  ASSUME IInv, cmd_clear \/ finish
  PROVE  HostInv'
<1>0. TypeOK /\ OutInv /\ CallInv /\ HostInv
  BY DEF IInv
<1>1. Prompted \in Nat /\ Len(line) \in Nat /\ Left \in Int
  BY <1>0, GoalFacts
<1>2. txq = <<>> /\ call' = "NONE" /\ UNCHANGED <<ready, txq, row, col, garbled>>
  <2>1. CASE cmd_clear
    BY <2>1 DEF cmd_clear, serialVars, hostVars, IInv, QueueInv
  <2>2. CASE finish
    BY <1>0, <2>2, FinishCases DEF serialVars, hostVars
  <2> QED
    BY <2>1, <2>2
<1>3. Len(txq) = 0 /\ Len(txq') = 0
  BY <1>2, EmptySeq
<1>4. SUFFICES ASSUME ready, ~garbled, ~Breaks'
               PROVE  col' = Goal' /\ RowHolds(Goal)' /\ BlankFrom(Goal + 1)'
  BY <1>2, <1>3, Names DEF HostInv
<1>5. ~Breaks => col = Goal /\ RowHolds(Goal) /\ BlankFrom(Goal + 1)
  BY <1>0, <1>3, <1>4 DEF HostInv
<1>6. CASE cmd_clear
  <2>1. out # <<>> /\ Head(out) = "CLEAR" /\ out' = Tail(out) /\ line' = line /\ line = <<>> /\ call = "NONE"
    BY <1>0, <1>6 DEF cmd_clear, CallInv
  <2>2. Left >= 1 /\ Left' = Left - 1 /\ ~Breaks
    BY <1>0, <1>4, <2>1, PopFacts
  <2>3. Prompted = 0 /\ Prompted' = 0
    BY <1>1, <2>2 DEF Prompted
  <2>4. Goal' = Goal
    BY <1>2, <2>1, <2>3 DEF Goal
  <2> QED
    BY <1>2, <1>5, <2>1, <2>2, <2>3, <2>4 DEF RowHolds, BlankFrom
<1>7. CASE finish
  <2>1. CASE call # "ENTER" /\ UNCHANGED <<line, out, swallowed>>
    <3>1. Prompted' = Prompted /\ Goal' = Goal /\ ~Breaks
      BY <1>2, <1>4, <2>1 DEF Prompted, Left, Goal, Breaks
    <3> QED
      BY <1>2, <1>5, <2>1, <3>1 DEF RowHolds, BlankFrom
  <2>2. ASSUME call = "ENTER", line' = <<>>, NEW text \in Outputs \cup {<<>>}, out' = text \o Prompt
        PROVE  col' = Goal' /\ RowHolds(Goal)' /\ BlankFrom(Goal + 1)'
    <3>1. out = <<>> /\ Goal = 0
      BY <1>0, <2>2 DEF CallInv, Goal
    <3>2. ~Breaks
      <4>1. Left <= 0
        BY <3>1, PromptFacts, EmptySeq DEF Left
      <4>2. 1..Left = {}
        BY <1>1, <4>1
      <4> QED
        BY <4>2 DEF Breaks
    <3>3. Left' >= 0
      <4>1. Len(out') >= Len(Prompt) /\ Len(out') \in Nat
        BY <2>2, NewOut
      <4> QED
        BY <4>1, PromptFacts DEF Left
    <3>4. Prompted' = 0 /\ Len(line') = 0
      BY <2>2, <3>3, EmptySeq DEF Prompted
    <3>5. Goal' = 0
      BY <1>2, <3>4 DEF Goal
    <3>6. RowHolds(Goal)'
      BY <3>5 DEF RowHolds
    <3>7. BlankFrom(Goal + 1)'
      BY <1>2, <1>5, <3>1, <3>2, <3>5 DEF BlankFrom
    <3> QED
      BY <1>2, <1>5, <3>1, <3>2, <3>5, <3>6, <3>7
  <2> QED
    BY <1>0, <1>7, <2>1, <2>2, FinishCases, Names
<1> QED
  BY <1>6, <1>7

\* One byte reaches the terminal.
LEMMA HostReceive ==
  ASSUME IInv, sends, receive(Head(txq)), txq' = Tail(txq), ready, ~garbled'
  PROVE  HostInv'
<1>0. TypeOK /\ CallInv /\ HostInv /\ QueueInv /\ txq # <<>>
  BY DEF IInv, sends, tx
<1>1. UNCHANGED <<line, call, out, ready>>
  BY SerialOnly
<1>2. /\ Prompted \in Nat /\ Goal \in Nat /\ Len(line) \in Nat /\ Left \in Int
      /\ Prompted = (IF Left >= 0 THEN 0 ELSE -Left)
      /\ Goal = IF call = "ENTER" THEN 0 ELSE Prompted + Len(line)
  BY <1>0, GoalFacts
<1>3. Prompted' = Prompted /\ Goal' = Goal /\ (Breaks' <=> Breaks)
  BY <1>1 DEF Prompted, Goal, Left, Breaks
<1>4. ASSUME ~garbled
      PROVE  /\ row \in Seq(Glyphs \cup {Blank}) /\ Len(row) \in Nat /\ col \in 0..Len(row)
             /\ \A c \in Glyphs \cup {Blank} : c \notin {"CR", "LF", "BS"}
  BY <1>0, <1>4, SeqFacts, Names DEF TypeOK, Blank
<1>5. CASE call \in Glyphs
  <2>1. txq = <<call>> /\ Head(txq) = call /\ txq' = <<>> /\ Len(txq) = 1 /\ Len(txq') = 0
    <3>1. txq = <<call>>
      BY <1>0, <1>5 DEF QueueInv
    <3> QED
      BY <3>1, Queues, EmptySeq
  <2>2. ~garbled
    BY <1>5, <2>1, Names DEF receive
  <2>3. col' = col + 1 /\ row' = Written(call)
    BY <1>4, <1>5, <2>1, <2>2, Names DEF receive
  <2>4. SUFFICES ASSUME ~Breaks PROVE col' = Goal /\ RowHolds(Goal)' /\ BlankFrom(Goal + 1)'
    BY <1>1, <1>3, <1>5, <2>1, Names DEF HostInv
  <2>5. col = Goal - 1 /\ RowHolds(Goal - 1) /\ BlankFrom(Goal)
    BY <1>0, <1>5, <2>1, <2>2, <2>4 DEF HostInv
  <2>6. /\ Len(row') = (IF col < Len(row) THEN Len(row) ELSE col + 1)
        /\ \A i \in 1..Len(row') : row'[i] = IF i = col + 1 THEN call ELSE row[i]
    BY <1>4, <1>5, <2>2, <2>3, RowOps
  <2>7. Goal \in 1..Len(row') /\ col + 1 = Goal /\ Len(row') \in Nat
    BY <1>2, <1>4, <2>2, <2>5, <2>6
  <2>8. call = IF Goal <= Prompted THEN Prompt[Goal] ELSE line[Goal - Prompted]
    <3>1. Goal = Prompted + Len(line)
      BY <1>2, <1>5, Names
    <3>2. CASE line = <<>>
      <4>1. Left < 0 /\ call = Prompt[-Left] /\ Len(line) = 0
        BY <1>0, <1>5, <2>4, <3>2, EmptySeq DEF CallInv
      <4>2. Goal = Prompted /\ Goal = -Left
        BY <1>2, <3>1, <4>1
      <4> QED
        BY <1>2, <4>1, <4>2
    <3>3. CASE line # <<>>
      <4>1. Len(line) > 0 /\ call = line[Len(line)]
        BY <1>0, <1>5, <3>3, SeqFacts DEF CallInv
      <4>2. ~(Goal <= Prompted) /\ Goal - Prompted = Len(line)
        BY <1>2, <3>1, <4>1
      <4> QED
        BY <4>1, <4>2
    <3> QED
      BY <3>2, <3>3
  <2>9. \A i \in 1..Goal : row'[i] = IF i <= Prompted THEN Prompt[i] ELSE line[i - Prompted]
    <3> TAKE i \in 1..Goal
    <3>1. i \in 1..Len(row')
      BY <1>2, <2>7
    <3>2. CASE i = Goal
      BY <2>6, <2>7, <2>8, <3>1, <3>2
    <3>3. CASE i # Goal
      <4>1. i \in 1..(Goal - 1)
        BY <1>2, <3>3
      <4> QED
        BY <2>5, <2>6, <2>7, <3>1, <3>3, <4>1 DEF RowHolds
    <3> QED
      BY <3>2, <3>3
  <2>10. \A i \in (Goal + 1)..Len(row') : row'[i] = Blank
    <3> TAKE i \in (Goal + 1)..Len(row')
    <3>1. i \in 1..Len(row') /\ i # col + 1 /\ i \in Goal..Len(row)
      BY <1>2, <1>4, <2>2, <2>5, <2>6, <2>7
    <3> QED
      BY <2>5, <2>6, <3>1 DEF BlankFrom
  <2>11. RowHolds(Goal)' /\ BlankFrom(Goal + 1)'
    BY <1>1, <1>3, <2>9, <2>10 DEF RowHolds, BlankFrom
  <2> QED
    BY <2>3, <2>7, <2>11
<1>6. CASE call \in {"LF", "ENTER"}
  <2>0. Goal = 0
    <3>1. CASE call = "ENTER"
      BY <1>2, <3>1
    <3>2. CASE call = "LF"
      <4>1. line = <<>> /\ Left >= 0
        BY <1>0, <3>2 DEF CallInv
      <4>2. Len(line) = 0
        BY <4>1, EmptySeq
      <4> QED
        BY <1>2, <3>2, <4>1, <4>2
    <3> QED
      BY <1>6, <3>1, <3>2
  <2>1. CASE txq = <<"CR", "LF">>
    <3>1. Head(txq) = "CR" /\ txq' = <<"LF">> /\ Len(txq') = 1
      BY <2>1
    <3>2. col' = 0
      BY <3>1 DEF receive
    <3> QED
      BY <1>1, <1>6, <3>1, <3>2, Names DEF HostInv
  <2>2. CASE txq = <<"LF">>
    <3>1. Head(txq) = "LF" /\ txq' = <<>> /\ Len(txq') = 0 /\ Len(txq) = 1
      BY <2>2
    <3>2. col = 0
      BY <1>0, <1>6, <3>1 DEF receive, HostInv
    <3>3. col' = 0 /\ Len(row') = 0
      <4>1. CASE garbled
        <5>1. row' = <<>> /\ col' = col
          BY <3>1, <4>1 DEF receive
        <5> QED
          BY <3>2, <5>1, EmptySeq
      <4>2. CASE ~garbled
        <5>1. row' = Blanks(col) /\ col' = col
          BY <3>1, <4>2 DEF receive
        <5>2. Len(Blanks(col)) = col
          BY <1>4, <4>2, RowOps
        <5> QED
          BY <3>2, <5>1, <5>2
      <4> QED
        BY <4>1, <4>2
    <3>4. RowHolds(Goal)' /\ BlankFrom(Goal + 1)'
      BY <1>3, <2>0, <3>3 DEF RowHolds, BlankFrom
    <3> QED
      BY <1>1, <1>3, <1>6, <2>0, <3>1, <3>3, <3>4, Names DEF HostInv
  <2> QED
    BY <1>0, <1>6, <2>1, <2>2 DEF QueueInv
<1>7. CASE call = "BACKSPACE"
  <2>0. Goal = Prompted + Len(line) /\ (Breaks' => FALSE)
    <3>1. out = <<>>
      BY <1>0, <1>7 DEF CallInv
    <3>2. Left <= 0
      BY <3>1, PromptFacts, EmptySeq DEF Left
    <3>3. 1..Left = {}
      BY <1>2, <3>2
    <3> QED
      BY <1>2, <1>3, <1>7, <3>3 DEF Breaks
  <2>4. call' = "BACKSPACE" /\ call' \notin Glyphs /\ call' \notin {"LF", "ENTER"}
    BY <1>1, <1>7, Names
  <2>1. CASE txq = <<"BS", Blank, "BS">>
    <3>1. Head(txq) = "BS" /\ Len(txq') = 2 /\ Len(txq) = 3
      BY <2>1
    <3>2. ~garbled
      BY <3>1 DEF receive
    <3>3. col = Goal + 1 /\ RowHolds(Goal) /\ BlankFrom(Goal + 2)
      BY <1>0, <1>7, <3>1, <3>2 DEF HostInv
    <3>4. row' = row /\ col' = (IF col = 0 THEN col ELSE col - 1)
      BY <3>1, <3>2 DEF receive
    <3>5. col' = Goal
      BY <1>2, <3>3, <3>4
    <3>6. RowHolds(Goal)' /\ BlankFrom(Goal + 2)'
      BY <1>1, <1>3, <3>3, <3>4 DEF RowHolds, BlankFrom
    <3>7. col' = Goal'
      BY <1>3, <3>5
    <3> QED
      BY ONLY <2>4, <3>1, <3>6, <3>7 DEF HostInv
  <2>2. CASE txq = <<Blank, "BS">>
    <3>1. Head(txq) = Blank /\ Len(txq') = 1 /\ Len(txq) = 2
      BY <2>2
    <3>2. ~garbled
      BY <3>1 DEF receive, Blank
    <3>3. col = Goal /\ RowHolds(Goal) /\ BlankFrom(Goal + 2)
      BY <1>0, <1>7, <3>1, <3>2 DEF HostInv
    <3>4. row' = Written(Blank) /\ col' = col + 1
      BY <3>1, <3>2 DEF receive, Blank
    <3>5. /\ Len(row') = (IF col < Len(row) THEN Len(row) ELSE col + 1)
          /\ \A i \in 1..Len(row') : row'[i] = IF i = col + 1 THEN Blank ELSE row[i]
      BY <1>4, <3>2, <3>4, RowOps
    <3>6. \A i \in 1..Goal : i \in 1..Len(row') /\ i # col + 1
      BY <1>2, <1>4, <3>2, <3>3, <3>5
    <3>7. \A i \in (Goal + 1)..Len(row') : i \in 1..Len(row') /\ (i # col + 1 => i \in (Goal + 2)..Len(row))
      <4>1. Len(row') \in Nat /\ Goal \in Nat /\ col = Goal /\ Len(row) \in Nat
        BY <1>2, <1>4, <3>2, <3>3, <3>5
      <4>2. Len(row') = IF Goal < Len(row) THEN Len(row) ELSE Goal + 1
        BY <3>3, <3>5
      <4> TAKE i \in (Goal + 1)..Len(row')
      <4> QED
        BY <4>1, <4>2
    <3>8. RowHolds(Goal)'
      BY <1>1, <1>3, <3>3, <3>5, <3>6 DEF RowHolds
    <3>9. BlankFrom(Goal + 1)'
      BY <1>3, <3>3, <3>5, <3>7 DEF BlankFrom
    <3>10. col' = Goal + 1
      BY <3>3, <3>4
    <3>11. col' = Goal' + 1
      BY <1>3, <3>10
    <3> QED
      BY ONLY <2>4, <3>1, <3>8, <3>9, <3>11 DEF HostInv
  <2>3. CASE txq = <<"BS">>
    <3>1. Head(txq) = "BS" /\ Len(txq') = 0 /\ Len(txq) = 1
      BY <2>3
    <3>2. ~garbled
      BY <3>1 DEF receive
    <3>3. col = Goal + 1 /\ RowHolds(Goal) /\ BlankFrom(Goal + 1)
      BY <1>0, <1>7, <3>1, <3>2 DEF HostInv
    <3>4. row' = row /\ col' = (IF col = 0 THEN col ELSE col - 1)
      BY <3>1, <3>2 DEF receive
    <3>5. col' = Goal
      BY <1>2, <3>3, <3>4
    <3>6. RowHolds(Goal)' /\ BlankFrom(Goal + 1)'
      BY <1>1, <1>3, <3>3, <3>4 DEF RowHolds, BlankFrom
    <3>7. col' = Goal'
      BY <1>3, <3>5
    <3> QED
      BY ONLY <2>4, <3>1, <3>6, <3>7 DEF HostInv
  <2> QED
    BY <1>0, <1>7, <2>1, <2>2, <2>3 DEF QueueInv
<1> QED
  BY <1>0, <1>5, <1>6, <1>7 DEF TypeOK, QueueInv

\* The terminal's row follows the prompt and the line through every step.
LEMMA HostStep ==
  ASSUME IInv, Next
  PROVE  HostInv'
<1>0. TypeOK /\ HostInv
  BY DEF IInv
<1>1. CASE (\E ch \in Glyphs : type(ch)) \/ erase \/ enter \/ print
  <2>1. call = "NONE"
    BY <1>1 DEF type, erase, enter, print, Editing
  <2>2. call' # "NONE"
    <3>1. CASE print
      <4>1. out # <<>> /\ call' = Head(out)
        BY <3>1 DEF print, Call
      <4>2. Head(out) \in Texts
        BY <1>0, <4>1, TypeParts, HeadTailProperties DEF EditType
      <4> QED
        BY <4>1, <4>2, Names DEF Texts
    <3> QED
      BY <1>1, <3>1, Names DEF type, erase, enter, Call
  <2> QED
    BY <2>1, <2>2, HostCall
<1>2. CASE cmd_clear \/ finish
  BY <1>2, HostEnd
<1>3. CASE sends
  <2>1. UNCHANGED <<line, call, out, ready>>
    BY <1>3, SerialOnly
  <2>2. CASE receive(Head(txq)) /\ txq' = Tail(txq)
    BY <1>3, <2>1, <2>2, HostReceive DEF HostInv
  <2>3. CASE UNCHANGED <<txq, hostVars>>
    <3>1. UNCHANGED <<txq, row, col, garbled>>
      BY <2>3 DEF hostVars
    <3> QED
      BY <1>0, <2>1, <3>1 DEF HostInv, Breaks, Left, Goal, Prompted, RowHolds, BlankFrom
  <2>4. CASE garbled' = TRUE
    BY <2>4 DEF HostInv
  <2> QED
    BY <1>3, <2>2, <2>3, <2>4 DEF sends, tx
<1>4. CASE uart
  <2>1. UNCHANGED <<line, call, out, ready, txq, row, col, garbled>>
    BY <1>4 DEF uart, transmitted, hostVars
  <2> QED
    BY <1>0, <2>1 DEF HostInv, Breaks, Left, Goal, Prompted, RowHolds, BlankFrom
<1> QED
  BY <1>1, <1>2, <1>3, <1>4 DEF Next, Printing

-----------------------------------------------------------------------------
(* The theorems.                                                           *)

\* After clear_screen, with the boot messages still to be printed.
LEMMA InitIInv == Init => IInv
<1> SUFFICES ASSUME Init PROVE IInv
  OBVIOUS
<1>1. /\ vga = BlankScreen /\ cursor_row = 0 /\ cursor_col = 0
      /\ line = <<>> /\ call = "NONE" /\ swallowed = FALSE
      /\ ready \in BOOLEAN /\ thrEmpty = TRUE /\ txq = <<>> /\ spins = 0
      /\ row = <<>> /\ col = 0 /\ garbled = FALSE
  BY DEF Init, InitSerial
<1>2. PICK boot \in Outputs : out = boot \o <<"LF">> \o Prompt
  BY DEF Init
<1> DEFINE t == boot \o <<"LF">>
<1>3. boot \in Seq(Texts) /\ Len(boot) \in Nat /\ DOMAIN boot = 1..Len(boot)
  BY GlyphsAssumption, LenProperties DEF Texts
<1>4. /\ t \in Seq(Texts) /\ Len(t) = Len(boot) + 1
      /\ \A i \in 1..Len(boot) : t[i] = boot[i]
      /\ t[Len(boot) + 1] = "LF"
  <2>1. <<"LF">> \in Seq(Texts) /\ Len(<<"LF">>) = 1 /\ <<"LF">>[1] = "LF"
    BY DEF Texts
  <2>2. /\ t \in Seq(Texts) /\ Len(t) = Len(boot) + Len(<<"LF">>)
        /\ \A i \in 1..(Len(boot) + Len(<<"LF">>)) : t[i] =
             IF i <= Len(boot) THEN boot[i] ELSE <<"LF">>[i - Len(boot)]
    BY <1>3, <2>1, ConcatProperties
  <2> HIDE DEF t
  <2>3. Len(boot) + 1 - Len(boot) = 1 /\ ~(Len(boot) + 1 <= Len(boot))
    BY <1>3
  <2> QED
    BY <1>3, <2>1, <2>2, <2>3
<1> HIDE DEF t
<1>5. \A i \in 1..Len(t) : t[i] \in Glyphs => \E j \in (i + 1)..Len(t) : t[j] = "LF"
  <2>1. SUFFICES ASSUME NEW i \in 1..Len(t), t[i] \in Glyphs
                 PROVE  \E j \in (i + 1)..Len(t) : t[j] = "LF"
    OBVIOUS
  <2>2. i # Len(boot) + 1
    BY <1>4, <2>1, Names
  <2>3. Len(boot) + 1 \in (i + 1)..Len(t)
    BY <1>3, <1>4, <2>2
  <2> QED
    BY <1>4, <2>3
<1>6. EndsWithPrompt(out) /\ Len(out) = Len(t) + Len(Prompt)
  BY <1>2, <1>4, <1>5, TextThenPrompt DEF t
<1>7. Left = Len(t) /\ Left \in Nat /\ Left >= 1
  BY <1>3, <1>4, <1>6, PromptFacts DEF Left
<1>8. ScreenType /\ NothingAhead
  <2>1. vga \in [Cells -> Glyphs \cup {Blank}] /\ \A i \in Cells : vga[i] = Blank
    BY <1>1 DEF BlankScreen
  <2>2. cursor_row \in 0..(VGA_HEIGHT - 1) /\ cursor_col \in 0..(VGA_WIDTH - 1)
    BY <1>1, SizesAssumption
  <2> QED
    BY <2>1, <2>2 DEF ScreenType, NothingAhead
<1>9. EditType
  <2>1. out \in Seq(Texts)
    <3>1. Prompt \in Seq(Texts)
      BY GlyphsAssumption, SeqDef DEF Texts
    <3> QED
      BY <1>2, <1>4, <3>1, ConcatProperties DEF t
  <2>2. line \in Seq(Glyphs) /\ Len(line) < LINE_MAX
    BY <1>1, EmptySeq, SizesAssumption
  <2> QED
    BY <1>1, <2>1, <2>2 DEF EditType
<1>10. SerialType
  <2>1. txq \in Seq(Chars) /\ row \in Seq(Glyphs \cup {Blank}) /\ Len(row) = 0
    BY <1>1, EmptySeq
  <2>2. spins \in 0..TX_SPIN_LIMIT /\ col \in 0..Len(row)
    BY <1>1, <2>1, SpinAssumption
  <2> QED
    BY <1>1, <2>1, <2>2 DEF SerialType
<1>11. OutInv /\ QueueInv
  BY <1>1, <1>6, Names DEF OutInv, QueueInv
<1>12. CallInv
  BY <1>1, Names DEF CallInv
<1>13. EchoInv
  BY <1>1, EmptySeq, Names DEF EchoInv, Spelled
<1>14. HostInv
  <2>1. Breaks
    <3>1. Left \in 1..Left /\ out[Left] = "LF"
      <4>1. Prompt \in Seq(Texts) /\ Len(Prompt) \in Nat
        BY GlyphsAssumption, SeqDef, LenProperties DEF Texts
      <4>2. \A i \in 1..(Len(t) + Len(Prompt)) : (t \o Prompt)[i] =
              IF i <= Len(t) THEN t[i] ELSE Prompt[i - Len(t)]
        BY <1>4, <4>1, ConcatProperties
      <4>3. Len(t) \in 1..(Len(t) + Len(Prompt))
        BY <1>7, <4>1
      <4>4. out = t \o Prompt
        BY <1>2 DEF t
      <4> QED
        BY <1>4, <1>7, <4>2, <4>3, <4>4
    <3> QED
      BY <3>1 DEF Breaks
  <2>2. Len(txq) = 0
    BY <1>1, EmptySeq
  <2> QED
    BY <1>1, <2>1, <2>2, Names DEF HostInv
<1> QED
  BY <1>8, <1>9, <1>10, <1>11, <1>12, <1>13, <1>14, TypeParts DEF IInv

\* The inductive invariant of the screen, the line and the terminal.
THEOREM Invariance == Spec => []IInv
<1>1. Init => IInv
  BY InitIInv
<1>2. IInv /\ [Next]_vars => IInv'
  <2> SUFFICES ASSUME IInv, [Next]_vars PROVE IInv'
    OBVIOUS
  <2>1. CASE Next
    <3>1. TypeOK'
      <4>1. ScreenType' /\ EditType' /\ SerialType'
        BY <2>1, ScreenStep, EditTypeStep, SerialTypeStep
      <4> QED
        BY <4>1 DEF TypeOK, ScreenType, EditType, SerialType, Chars, Texts
    <3> QED
      BY <2>1, <3>1, ScreenStep, CallStep, QueueStep, EchoStep, HostStep DEF IInv
  <2>2. CASE UNCHANGED vars
    <3>1. /\ UNCHANGED <<vga, cursor_row, cursor_col, line, call, out, swallowed>>
          /\ UNCHANGED <<ready, thrEmpty, txq, spins, row, col, garbled>>
      BY <2>2 DEF vars, screenVars, serialVars, hostVars
    <3>2. TypeOK' /\ NothingAhead'
      BY <3>1 DEF IInv, TypeOK, NothingAhead, Cursor
    <3>3. OutInv' /\ CallInv' /\ QueueInv'
      BY <3>1 DEF IInv, OutInv, CallInv, QueueInv, Left, Breaks
    <3>4. EchoInv'
      BY <3>1 DEF IInv, EchoInv, Spelled, Cursor
    <3>5. HostInv'
      BY <3>1 DEF IInv, HostInv, Breaks, Left, Goal, Prompted, RowHolds, BlankFrom
    <3> QED
      BY <3>2, <3>3, <3>4, <3>5 DEF IInv
  <2> QED
    BY <2>1, <2>2
<1> QED
  BY <1>1, <1>2, PTL DEF Spec

\* The cursor never leaves the screen, so that putchar never writes past its
\* last cell, and the line never outgrows line_buf.
THEOREM TypeCorrect == Spec => []TypeOK
BY Invariance, PTL DEF IInv

\* No wrap, scroll or erasure leaves text at or behind the cursor.
THEOREM NothingAheadThm == Spec => []NothingAhead
BY Invariance, PTL DEF IInv

\* What the screen shows before the cursor is the line that Enter would run,
\* across wraps and scrolls.
THEOREM EchoShownThm == Spec => []EchoShown
<1>1. IInv => EchoShown
  BY DEF IInv, EchoInv, EchoShown, Editing, Spelled
<1> QED
  BY <1>1, Invariance, PTL

\* A terminal row that has arrived whole is the prompt and the line, nothing
\* else, whatever was erased or dropped before.
THEOREM EchoOnHostThm == Spec => []EchoOnHost
<1>1. IInv => EchoOnHost
  <2> SUFFICES ASSUME IInv, Editing, ready, ~garbled
               PROVE  /\ SubSeq(row, 1, col) = Prompt \o line
                      /\ \A i \in (col + 1)..Len(row) : row[i] = Blank
    BY DEF EchoOnHost
  <2>0. TypeOK /\ HostInv
    BY DEF IInv
  <2>1. call = "NONE" /\ Len(txq) = 0 /\ ~Breaks /\ Left = -Len(Prompt)
    BY IdleFacts, EmptySeq
  <2>2. Len(Prompt) \in Nat /\ Len(line) \in Nat
    BY <2>0, PromptFacts, SeqFacts
  <2>3. Prompted = Len(Prompt) /\ Goal = Len(Prompt) + Len(line)
    <3>1. Prompted = Len(Prompt)
      BY <2>1, <2>2 DEF Prompted
    <3> QED
      BY <2>1, <3>1 DEF Goal
  <2>4. col = Goal /\ RowHolds(Goal) /\ BlankFrom(Goal + 1)
    BY <2>0, <2>1 DEF HostInv
  <2>5. /\ row \in Seq(Glyphs \cup {Blank}) /\ col \in 0..Len(row) /\ Len(row) \in Nat
        /\ line \in Seq(Glyphs) /\ Prompt \in Seq(Glyphs)
    BY <2>0, SeqFacts, PromptFacts DEF TypeOK
  <2> DEFINE a == SubSeq(row, 1, col)
             b == Prompt \o line
  <2>6. /\ b \in Seq(Glyphs) /\ Len(b) = Goal
        /\ \A i \in 1..Goal : b[i] = IF i <= Prompted THEN Prompt[i] ELSE line[i - Prompted]
    BY <2>3, <2>5, ConcatProperties
  <2>7. /\ a \in Seq(Glyphs \cup {Blank}) /\ Len(a) = Goal
        /\ \A i \in 1..Goal : a[i] = row[i]
    <3>1. col \in Int /\ \A i \in 1..col : row[i] \in Glyphs \cup {Blank}
      BY <2>5, ElementOfSeq
    <3>2. /\ a \in Seq(Glyphs \cup {Blank}) /\ Len(a) = IF 1 <= col THEN col - 1 + 1 ELSE 0
          /\ \A i \in 1..(col - 1 + 1) : a[i] = row[1 + i - 1]
      BY <3>1, SubSeqProperties
    <3> HIDE DEF a
    <3> QED
      BY <2>4, <2>5, <3>2
  <2>8. b \in Seq(Glyphs \cup {Blank})
    BY <2>6, SeqDef
  <2> HIDE DEF a, b
  <2>9. a = b
    BY <2>4, <2>6, <2>7, <2>8, SeqEqual DEF RowHolds
  <2> QED
    BY <2>4, <2>9 DEF a, b, BlankFrom
<1> QED
  BY <1>1, Invariance, PTL

\* A step writes one cell, and may also move every row up by exactly one, or
\* clears the screen: no step loses or repeats a row.
THEOREM TextMovesTogetherThm == Spec => TextMovesTogether
<1> DEFINE Moves ==
      \/ vga' = BlankScreen
      \/ \E i \in Cells, ch \in Glyphs \cup {Blank} :
           LET cells == [vga EXCEPT ![i] = ch]
           IN  \/ vga' = cells
               \/ /\ \A j \in Cells : j >= VGA_WIDTH => vga'[j - VGA_WIDTH] = cells[j]
                  /\ \A j \in Cells : j + VGA_WIDTH \notin Cells => vga'[j] = Blank
<1>1. IInv /\ [Next]_vars => [Moves]_vars
  <2> SUFFICES ASSUME IInv, [Next]_vars PROVE Moves
    OBVIOUS
  <2>0. TypeOK /\ vga \in [Cells -> Glyphs \cup {Blank}] /\ Cursor \in Cells /\ VGA_WIDTH \in Nat \ {0}
    BY CursorFacts DEF IInv, TypeOK
  <2>1. CASE vga' = vga
    <3>1. vga' = [vga EXCEPT ![Cursor] = vga[Cursor]] /\ vga[Cursor] \in Glyphs \cup {Blank}
      BY <2>0, <2>1
    <3> QED
      BY <2>0, <3>1
  <2>2. CASE cmd_clear
    BY <2>2 DEF cmd_clear, clear_screen
  <2>3. ASSUME backspace PROVE Moves
    <3>1. CASE cursor_col = 0
      BY <2>0, <2>1, <2>3, <3>1, BackspaceFacts
    <3>2. CASE cursor_col # 0
      BY <2>0, <2>3, <3>2, BackspaceFacts
    <3> QED
      BY <3>1, <3>2
  <2>4. ASSUME NEW c \in Glyphs \cup {"LF"}, putchar(c) PROVE Moves
    <3> DEFINE ch    == IF c = "LF" THEN vga[Cursor] ELSE c
               cells == [vga EXCEPT ![Cursor] = ch]
    <3>1. ch \in Glyphs \cup {Blank}
      BY <2>0, <2>4
    <3>2. PICK up \in {0, VGA_WIDTH} : \A i \in Cells : vga'[i] =
            IF i + up \notin Cells THEN Blank
            ELSE IF c # "LF" /\ i + up = Cursor THEN c ELSE vga[i + up]
      BY <2>0, <2>4, PutcharFacts
    <3>3. \A i \in Cells : vga'[i] = IF i + up \notin Cells THEN Blank ELSE cells[i + up]
      BY <2>0, <3>2
    <3>4. cells \in [Cells -> Glyphs \cup {Blank}] /\ vga' \in [Cells -> Glyphs \cup {Blank}]
      BY <2>0, <2>4, <3>1, PutcharFacts
    <3> HIDE DEF cells
    <3>5. CASE up = 0
      <4>1. \A i \in Cells : vga'[i] = cells[i]
        <5> TAKE i \in Cells
        <5>1. i + up = i
          BY <3>5 DEF Cells
        <5> QED
          BY <3>3, <5>1
      <4>2. vga' = cells
        BY <3>4, <4>1
      <4> QED
        BY <2>0, <3>1, <4>2 DEF cells
    <3>6. CASE up = VGA_WIDTH
      <4>1. \A j \in Cells : j >= VGA_WIDTH => vga'[j - VGA_WIDTH] = cells[j]
        <5>1. SUFFICES ASSUME NEW j \in Cells, j >= VGA_WIDTH PROVE vga'[j - VGA_WIDTH] = cells[j]
          OBVIOUS
        <5>2. j \in Int /\ j - VGA_WIDTH \in Int /\ 0 <= j - VGA_WIDTH /\ j - VGA_WIDTH <= j
              /\ (j - VGA_WIDTH) + up = j
          BY <2>0, <3>6, <5>1 DEF Cells
        <5>3. j - VGA_WIDTH \in Cells
          BY <5>2, CellsBefore
        <5> QED
          BY <3>3, <5>2, <5>3
      <4>2. \A j \in Cells : j + VGA_WIDTH \notin Cells => vga'[j] = Blank
        BY <3>3, <3>6
      <4> QED
        BY <2>0, <3>1, <4>1, <4>2 DEF cells
    <3> QED
      BY <3>5, <3>6
  <2>5. CASE finish
    BY <2>0, <2>3, <2>4, <2>5, FinishCases
  <2>6. CASE UNCHANGED screenVars
    BY <2>1, <2>6 DEF screenVars
  <2> QED
    BY <2>2, <2>5, <2>6, ScreenSteps
<1>2. Spec => [][Moves]_vars
  BY <1>1, Invariance, PTL DEF Spec
<1> QED
  BY <1>2 DEF TextMovesTogether

-----------------------------------------------------------------------------
(* Why printing ends: what is left of it, as numbers.                      *)

\* Rounds of tx() that a byte takes at most.
Rounds == TX_SPIN_LIMIT + 1

\* Steps left of the call in progress: the rounds of its bytes, and the work
\* on the screen.
CallLeft == IF call = "NONE" THEN 0
            ELSE IF txq = <<>> THEN 1
            ELSE 1 + Len(txq) * Rounds - spins

\* A character printed takes its own step, two bytes at most, and the work on
\* the screen.
CharCost == 2 * Rounds + 2

PrintLeft == Len(out) * CharCost + CallLeft

\* Enter has still to be echoed, before its command prints anything.
Echoing == IF call = "ENTER" THEN 1 ELSE 0

\* While something is to be printed every step of task 0 leaves less of it;
\* the UART, which works at any time or never, takes nothing away and adds
\* nothing.
PrintingShrinks ==
  [][~Editing => IF uart THEN UNCHANGED <<Echoing, PrintLeft>>
                         ELSE Echoing' < Echoing \/ (Echoing' = Echoing /\ PrintLeft' < PrintLeft)]_vars

\* A call never has more left than three bytes, each polled until it is
\* dropped, and nothing is left only when the editor takes characters again.
CallBounded == CallLeft \in 0..(3 * Rounds + 1) /\ (PrintLeft = 0 <=> Editing)

\* The bytes of the call, as many as there are.
LEMMA QueueLength ==
  ASSUME IInv
  PROVE  /\ txq \in Seq(Chars) /\ Len(txq) \in 0..3 /\ (txq = <<>> <=> Len(txq) = 0)
         /\ spins \in 0..TX_SPIN_LIMIT /\ Rounds \in Nat \ {0} /\ Rounds = TX_SPIN_LIMIT + 1
<1>1. txq \in Seq(Chars) /\ spins \in 0..TX_SPIN_LIMIT
  BY DEF IInv, TypeOK, Chars
<1>2. Rounds \in Nat \ {0} /\ Rounds = TX_SPIN_LIMIT + 1
  BY SpinAssumption DEF Rounds
<1>3. txq = <<>> <=> Len(txq) = 0
  BY <1>1, EmptySeq
<1>4. Len(txq) \in 0..3
  <2>1. call \in Glyphs \cup {"LF", "BACKSPACE", "ENTER", "NONE"}
    BY DEF IInv, TypeOK
  <2>2. \/ txq = <<>> \/ txq = <<call>> \/ txq = <<"LF">> \/ txq = <<"CR", "LF">>
        \/ txq = <<"BS">> \/ txq = <<Blank, "BS">> \/ txq = <<"BS", Blank, "BS">>
    BY <2>1 DEF IInv, QueueInv
  <2> QED
    BY <2>2
<1> QED
  BY <1>1, <1>2, <1>3, <1>4

\* Bytes still to be sent in rounds, for the few numbers of bytes there are.
LEMMA RoundsFacts ==
  ASSUME NEW n \in 0..3, NEW k \in Nat \ {0}
  PROVE  n * k \in 0..(3 * k) /\ (n # 0 => (n - 1) * k = n * k - k /\ n * k >= k)
<1>1. CASE n = 0
  BY <1>1
<1>2. CASE n = 1
  BY <1>2
<1>3. CASE n = 2
  BY <1>3
<1>4. CASE n = 3
  BY <1>4
<1> QED
  BY <1>1, <1>2, <1>3, <1>4

LEMMA CallLeftFacts ==
  ASSUME IInv
  PROVE  /\ CallLeft \in 0..(3 * Rounds + 1)
         /\ CallLeft = 0 <=> call = "NONE"
<1>1. /\ Len(txq) \in 0..3 /\ (txq = <<>> <=> Len(txq) = 0)
      /\ spins \in 0..TX_SPIN_LIMIT /\ Rounds \in Nat \ {0} /\ Rounds = TX_SPIN_LIMIT + 1
      /\ TX_SPIN_LIMIT \in Nat
  BY QueueLength, SpinAssumption
<1> DEFINE m == Len(txq) * Rounds
<1>2. m \in 0..(3 * Rounds) /\ (txq # <<>> => m >= Rounds)
  BY <1>1, RoundsFacts
<1>3. CallLeft = IF call = "NONE" THEN 0 ELSE IF txq = <<>> THEN 1 ELSE 1 + m - spins
  BY DEF CallLeft
<1> HIDE DEF m, Rounds
<1> QED
  BY <1>1, <1>2, <1>3

\* tx takes a round from what is left.
LEMMA SendsShrinks ==
  ASSUME IInv, IInv', sends
  PROVE  CallLeft' < CallLeft /\ out' = out /\ call' = call
<1>0. call' = call /\ out' = out /\ txq # <<>>
  BY DEF sends, tx
<1>1. /\ Len(txq) \in 0..3 /\ Len(txq) # 0 /\ txq \in Seq(Chars)
      /\ spins \in 0..TX_SPIN_LIMIT /\ Rounds \in Nat \ {0} /\ Rounds = TX_SPIN_LIMIT + 1
      /\ TX_SPIN_LIMIT \in Nat
  BY <1>0, QueueLength, SpinAssumption
<1>2. call # "NONE"
  BY <1>0 DEF IInv, QueueInv
<1> DEFINE m == Len(txq) * Rounds
<1>3. m \in Nat /\ m >= Rounds /\ (Len(txq) - 1) * Rounds = m - Rounds
  BY <1>1, RoundsFacts
<1>4. CallLeft = 1 + m - spins
  BY <1>0, <1>2 DEF CallLeft
<1>5. CASE txq' = Tail(txq) /\ spins' = 0
  <2>1. Len(Tail(txq)) = Len(txq) - 1
    BY <1>0, <1>1, HeadTailProperties
  <2>2. CallLeft' = IF txq' = <<>> THEN 1 ELSE 1 + (Len(txq) - 1) * Rounds - 0
    BY <1>0, <1>2, <1>5, <2>1 DEF CallLeft, Rounds
  <2> HIDE DEF m, Rounds
  <2> QED
    BY <1>0, <1>1, <1>3, <1>4, <2>2
<1>6. CASE spins' = NextSpin /\ txq' = txq
  <2>1. CallLeft' = 1 + m - (spins + 1)
    BY <1>0, <1>2, <1>6 DEF CallLeft, Rounds, NextSpin
  <2> HIDE DEF m, Rounds
  <2> QED
    BY <1>0, <1>1, <1>3, <1>4, <2>1
<1> QED
  BY <1>0, <1>5, <1>6 DEF sends, tx

\* The next character is taken from what is to be printed.
LEMMA CharTaken ==
  ASSUME IInv, out # <<>>, out' = Tail(out)
  PROVE  /\ Len(out) \in Nat /\ Len(out') = Len(out) - 1 /\ CharCost \in Nat
         /\ CharCost = 2 * Rounds + 2
         /\ Len(out') * CharCost = Len(out) * CharCost - CharCost
         /\ Len(out) * CharCost \in Int
<1>1. out \in Seq(Texts)
  BY DEF IInv, TypeOK, Texts
<1>2. Len(out) \in Nat /\ Len(out') = Len(out) - 1
  BY <1>1, HeadTailProperties, LenProperties
<1>3. CharCost \in Nat /\ CharCost = 2 * Rounds + 2
  BY QueueLength DEF CharCost
<1> HIDE DEF CharCost
<1> QED
  BY <1>2, <1>3

LEMMA PrintingStepShrinks ==
  ASSUME IInv, IInv', Printing
  PROVE  Echoing' < Echoing \/ (Echoing' = Echoing /\ PrintLeft' < PrintLeft)
<1>0. /\ CallLeft \in Nat /\ CallLeft' \in Nat /\ Len(out) * CharCost \in Int
      /\ PrintLeft = Len(out) * CharCost + CallLeft
      /\ PrintLeft' = Len(out') * CharCost + CallLeft'
  <2>1. CallLeft \in 0..(3 * Rounds + 1) /\ Rounds \in Nat
    BY CallLeftFacts, QueueLength
  <2>2. (IInv => CallLeft \in 0..(3 * Rounds + 1) /\ (CallLeft = 0 <=> call = "NONE"))'
    BY CallLeftFacts, PTL
  <2>3. Len(out) \in Nat /\ CharCost \in Nat
    BY <2>1, SeqFacts DEF IInv, CharCost
  <2>4. PrintLeft = Len(out) * CharCost + CallLeft /\ PrintLeft' = Len(out') * CharCost + CallLeft'
    BY DEF PrintLeft, CharCost, Rounds
  <2> HIDE DEF CharCost
  <2>5. Len(out) * CharCost \in Int
    BY <2>3
  <2> QED
    BY <2>1, <2>2, <2>4, <2>5
<1>1. CASE print
  <2>1. /\ call = "NONE" /\ out # <<>> /\ out' = Tail(out) /\ spins' = spins
        /\ call' = Head(out) /\ txq' = (IF ready THEN Bytes(Head(out)) ELSE <<>>)
        /\ Head(out) # "CLEAR"
    BY <1>1 DEF print, Call, CallOnly, serial_write
  <2>2. Head(out) \in Glyphs \cup {"LF"} /\ Head(out) # "ENTER"
    <3>1. out \in Seq(Texts)
      BY DEF IInv, TypeOK, Texts
    <3> QED
      BY <2>1, <3>1, HeadTailProperties, Names DEF Texts
  <2>3. Len(txq') \in 0..2 /\ (txq' = <<>> <=> Len(txq') = 0)
    <3>1. txq' = <<>> \/ txq' = <<Head(out)>> \/ txq' = <<"CR", "LF">>
      BY <2>1 DEF Bytes
    <3> QED
      BY <3>1
  <2>4. spins \in Nat /\ Rounds \in Nat /\ CallLeft = 0
    BY <2>1, QueueLength DEF CallLeft
  <2>5. CallLeft' <= 1 + 2 * Rounds
    <3>1. call' # "NONE"
      BY <2>1, <2>2, Names
    <3>2. CallLeft' = IF txq' = <<>> THEN 1 ELSE 1 + Len(txq') * Rounds - spins
      BY <2>1, <3>1 DEF CallLeft, Rounds
    <3>3. Len(txq') * Rounds <= 2 * Rounds /\ Len(txq') * Rounds \in Nat
      <4>1. Len(txq') = 0 \/ Len(txq') = 1 \/ Len(txq') = 2
        BY <2>3
      <4>2. Rounds \in Nat
        BY <2>4
      <4>3. ASSUME NEW n, NEW k \in Nat, n = 0 \/ n = 1 \/ n = 2 PROVE n * k <= 2 * k /\ n * k \in Nat
        BY ONLY <4>3
      <4> HIDE DEF Rounds
      <4> QED
        BY ONLY <4>1, <4>2, <4>3, Zenon
    <3> HIDE DEF Rounds
    <3> QED
      BY <2>4, <3>2, <3>3
  <2>6. /\ Len(out') * CharCost = Len(out) * CharCost - CharCost
        /\ CharCost = 2 * Rounds + 2 /\ CharCost \in Nat
    BY <2>1, CharTaken
  <2>7. Echoing' = Echoing
    BY <2>1, <2>2 DEF Echoing
  <2> HIDE DEF CharCost, Rounds
  <2> QED
    BY <1>0, <2>4, <2>5, <2>6, <2>7
<1>2. CASE cmd_clear
  <2>1. call = "NONE" /\ call' = call /\ out # <<>> /\ out' = Tail(out)
    BY <1>2 DEF cmd_clear
  <2>2. CallLeft = 0 /\ CallLeft' = 0 /\ Echoing' = Echoing
    BY <2>1 DEF CallLeft, Echoing
  <2>3. /\ Len(out') * CharCost = Len(out) * CharCost - CharCost
        /\ CharCost = 2 * Rounds + 2 /\ CharCost \in Nat /\ Rounds \in Nat
    BY <2>1, CharTaken, QueueLength
  <2> HIDE DEF CharCost, Rounds
  <2> QED
    BY <1>0, <2>2, <2>3
<1>3. CASE sends
  <2>1. CallLeft' < CallLeft /\ out' = out /\ call' = call
    BY <1>3, SendsShrinks
  <2> QED
    BY <1>0, <2>1 DEF Echoing
<1>4. CASE finish
  <2>1. call # "NONE" /\ call' = "NONE" /\ txq = <<>> /\ (call = "ENTER" \/ out' = out)
    BY <1>4 DEF finish
  <2>2. CallLeft = 1 /\ CallLeft' = 0
    BY <2>1 DEF CallLeft
  <2>3. CASE call = "ENTER"
    BY <2>1, <2>3 DEF Echoing
  <2>4. CASE call # "ENTER"
    <3>1. Echoing' = Echoing /\ out' = out
      BY <2>1, <2>4 DEF Echoing
    <3> QED
      BY <1>0, <2>2, <3>1
  <2> QED
    BY <2>3, <2>4
<1> QED
  BY <1>1, <1>2, <1>3, <1>4 DEF Printing

\* Whatever the UART does, printing ends: each step of task 0 in print,
\* putchar, backspace, clear or tx leaves less to be done, and a call has at
\* most three bytes to poll for, TX_SPIN_LIMIT + 1 times each. With the
\* processor given to task 0 again and again this is why PrintReturns holds,
\* for every limit, screen, prompt and output.
THEOREM PrintingEnds == Spec => PrintingShrinks /\ []CallBounded
<1> DEFINE Less == Echoing' < Echoing \/ (Echoing' = Echoing /\ PrintLeft' < PrintLeft)
           Step == ~Editing => IF uart THEN UNCHANGED <<Echoing, PrintLeft>> ELSE Less
<1>1. IInv /\ IInv' /\ [Next]_vars => [Step]_vars
  <2> SUFFICES ASSUME IInv, IInv', Next, ~Editing PROVE IF uart THEN UNCHANGED <<Echoing, PrintLeft>> ELSE Less
    OBVIOUS
  <2>1. Printing \/ uart
    BY DEF Next, type, erase, enter
  <2>2. CASE uart
    <3>1. UNCHANGED <<call, out, txq, spins>>
      BY <2>2 DEF uart, transmitted
    <3> QED
      BY <2>2, <3>1 DEF Echoing, PrintLeft, CallLeft, CharCost, Rounds
  <2>3. CASE Printing /\ ~uart
    BY <2>3, PrintingStepShrinks
  <2> QED
    BY <2>1, <2>2, <2>3
<1>2. IInv => CallBounded
  <2> SUFFICES ASSUME IInv PROVE CallBounded
    OBVIOUS
  <2>1. CallLeft \in 0..(3 * Rounds + 1) /\ (CallLeft = 0 <=> call = "NONE") /\ Rounds \in Nat
    BY CallLeftFacts, QueueLength
  <2>2. Len(out) \in Nat /\ CharCost \in Nat \ {0} /\ (out # <<>> <=> Len(out) > 0)
    BY <2>1, SeqFacts DEF IInv, CharCost
  <2> HIDE DEF CharCost, Rounds
  <2>3. Len(out) * CharCost \in Nat /\ (Len(out) * CharCost = 0 <=> Len(out) = 0)
    <3>1. CASE Len(out) = 0
      BY <2>2, <3>1
    <3>2. CASE Len(out) >= 1
      <4>1. Len(out) * CharCost >= 1 * CharCost
        BY <2>2, <3>2
      <4> QED
        BY <2>2, <3>2, <4>1
    <3> QED
      BY <2>2, <3>1, <3>2
  <2> QED
    BY <2>1, <2>2, <2>3 DEF CallBounded, PrintLeft, Editing
<1>3. Spec => [][Step]_vars
  BY <1>1, Invariance, PTL DEF Spec
<1> QED
  BY <1>2, <1>3, Invariance, PTL DEF PrintingShrinks
=============================================================================
