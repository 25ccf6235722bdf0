------------------------------ MODULE Numbers ------------------------------
(***************************************************************************)
(* Numbers on their way through the console: atoi and atoi_hex (util.c),   *)
(* print_int and print_hex (vga.c), and the calc command between them.     *)
(*                                                                         *)
(* Words have WORD values and int is two's complement, which is also what  *)
(* overflow does in this build (no optimisation).  Here the characters of  *)
(* a line are the subject, so that a line is a sequence of them.  The      *)
(* operator's intent is kept beside the text, as exact integers, for the   *)
(* result to be compared with.                                             *)
(***************************************************************************)
EXTENDS Integers, Sequences

CONSTANTS
  DEC, HEX,      \* the bases (10 and 16)
  HexDigits,     \* digits print_hex writes (8)
  MaxDigits      \* digits of a number the operator types

\* The digits in order: those that print_hex writes, and the others that
\* atoi_hex reads.
Digit == <<"0", "1", "2", "3", "4", "5", "6", "7", "8", "9", "A", "B", "C", "D", "E", "F">>
Lower == <<"0", "1", "2", "3", "4", "5", "6", "7", "8", "9", "a", "b", "c", "d", "e", "f">>

Power[k \in 0..HexDigits] == IF k = 0 THEN 1 ELSE HEX * Power[k - 1]

WORD  == Power[HexDigits]
Max32 == WORD \div 2 - 1
Min32 == -(WORD \div 2)
Ints  == Min32..Max32

\* Decimal digits are not letters, and half of the words are negative ints.
ASSUME BaseAssumption == /\ DEC \in 2..10 /\ HEX \in 2..16 /\ HEX % 2 = 0
                         /\ HexDigits \in Nat \ {0} /\ MaxDigits \in Nat

DigitsOf(base)  == {Digit[k] : k \in 1..base} \cup {Lower[k] : k \in 1..base}
DigitValue(c)   == (CHOOSE k \in 1..16 : c \in {Digit[k], Lower[k]}) - 1

\* A word read as an int.
ToInt(w) == LET u == w % WORD IN IF u > Max32 THEN u - WORD ELSE u

-----------------------------------------------------------------------------
(* Reading. Positions take the place of pointers; Len(s) + 1 is that of    *)
(* the terminator.                                                         *)

At(s, i) == IF i <= Len(s) THEN s[i] ELSE "NUL"

\* The first position from i on whose character is not in S.
Skip(s, i, S) == CHOOSE j \in i..(Len(s) + 1) :
                   At(s, j) \notin S /\ \A k \in i..(j - 1) : s[k] \in S

SkipOne(s, i, c) == IF At(s, i) = c THEN i + 1 ELSE i

\* The digits from i on, accumulated in a word: n[k] is its value when k of
\* them have been read.
Accumulate(s, i, base) ==
  LET len == Skip(s, i, DigitsOf(base)) - i
      n[k \in 0..len] ==
        IF k = 0 THEN 0 ELSE (n[k - 1] * base + DigitValue(s[i + k - 1])) % WORD
  IN  n[len]

\* atoi(s + i): an optional sign, no spaces.
atoi(s, i) ==
  LET n == Accumulate(s, SkipOne(s, i, "-"), DEC)
  IN  ToInt(IF At(s, i) = "-" THEN WORD - n ELSE n)

\* atoi_hex(s): leading spaces and 0x are skipped.
atoi_hex(s) ==
  LET i == Skip(s, 1, {" "})
      j == IF At(s, i) = "0" /\ At(s, i + 1) \in {"x", "X"} THEN i + 2 ELSE i
  IN  Accumulate(s, j, HEX)

-----------------------------------------------------------------------------
(* Printing.                                                               *)

\* The digits of a positive int, as its loop leaves them in buf.
Decimal[n \in 0..Max32] ==
  IF n = 0 THEN <<>> ELSE Append(Decimal[n \div DEC], Digit[(n % DEC) + 1])

\* print_int(n). The negation of the least int is itself: nothing follows
\* its sign.
print_int(n) ==
  LET m == ToInt(WORD - n)
  IN  CASE n = 0 -> <<"0">>
        [] n > 0 -> Decimal[n]
        [] n < 0 -> <<"-">> \o (IF m > 0 THEN Decimal[m] ELSE <<>>)

\* All digits of a word, the highest first.
Hex(n) == [k \in 1..HexDigits |-> Digit[((n \div Power[HexDigits - k]) % HEX) + 1]]

print_hex(n) == <<"0", "x">> \o Hex(n)

-----------------------------------------------------------------------------
(* calc                                                                    *)

\* a / b, truncated towards zero.
Quotient(a, b) ==
  LET q == (IF a < 0 THEN -a ELSE a) \div (IF b < 0 THEN -b ELSE b)
  IN  IF (a < 0) = (b < 0) THEN q ELSE -q

Exact(a, op, b) == CASE op = "+" -> a + b
                     [] op = "-" -> a - b
                     [] op = "*" -> a * b
                     [] op = "/" -> Quotient(a, b)

\* The processor raises #DE when there is no quotient or it is no int;
\* isr_handler reports it and stops the machine.
Traps(a, b) == b = 0 \/ Quotient(a, b) \notin Ints

\* Mutant: the first number's sign is not skipped and passes for the operator.
OperatorAt_Sign(s) == Skip(s, Skip(s, Skip(s, 1, {" "}), DigitsOf(DEC)), {" "})

\* Where cmd_calc finds the operator: behind spaces, sign, digits, spaces.
OperatorAt(s) ==
  LET sign == SkipOne(s, Skip(s, 1, {" "}), "-")
  IN  Skip(s, Skip(s, sign, DigitsOf(DEC)), {" "})

\* cmd_calc(args): what it prints, or "HALT".
cmd_calc(s) ==
  LET p  == OperatorAt(s)
      op == At(s, p)
      a  == atoi(s, 1)
      b  == atoi(s, Skip(s, IF op = "NUL" THEN p ELSE p + 1, {" "}))
  IN  CASE op \notin {"+", "-", "*", "/"} -> <<"usage">>
        [] op = "/" /\ b = 0 -> <<"divide by zero">>
        [] op = "/" /\ b # 0 /\ Traps(a, b) -> <<"HALT">>
        [] OTHER -> print_int(ToInt(Exact(a, op, b)))

-----------------------------------------------------------------------------
(* The console: one command after the other.                               *)

Spaces   == {<<>>, <<" ">>}
Prefixes == {<<>>, <<"0", "x">>, <<"0", "X">>}
Signs    == {<<>>, <<"-">>}

\* The digits of a number that the operator types.
Typed(base) == UNION {[1..k -> DigitsOf(base)] : k \in 1..MaxDigits}

Numerals == {sign \o digits : sign \in Signs, digits \in Typed(DEC)}

\* The number that a sequence of digits denotes, exactly: sum[k] is that of
\* the first k.
Value(digits, base) ==
  LET sum[k \in 0..Len(digits)] ==
        IF k = 0 THEN 0 ELSE sum[k - 1] * base + DigitValue(digits[k])
  IN  sum[Len(digits)]

\* What the operator means by a numeral.
Meaning(s) == IF At(s, 1) = "-" THEN -Value(Tail(s), DEC) ELSE Value(s, DEC)

\* A numeral of any length.
IsNumeral(s) == (IF At(s, 1) = "-" THEN Tail(s) ELSE s) \in Seq(DigitsOf(DEC)) \ {<<>>}

VARIABLES
  asked,   \* what the operator means: a calculation, or an address
  line,    \* the argument typed
  shown    \* what the command printed: <<>> before it ran

vars == <<asked, line, shown>>

\* An expression typed with any spacing.
TypesExpression ==
  \E x, y \in Numerals, op \in {"+", "-", "*", "/", "x"}, lead, g, h \in Spaces :
    /\ asked = [kind |-> "calc", x |-> Meaning(x), op |-> op, y |-> Meaning(y),
                lead |-> lead # <<>>]
    /\ line = lead \o x \o g \o <<op>> \o h \o y

\* An address with as many or as few digits as the operator likes, capital
\* and small letters mixed, with or without a prefix.
TypesAddress ==
  \E lead, behind \in Spaces, prefix \in Prefixes, digits \in Typed(HEX) :
    /\ asked = [kind |-> "address", n |-> Value(digits, HEX)]
    /\ line = lead \o prefix \o digits \o behind

Init == shown = <<>> /\ (TypesExpression \/ TypesAddress)

shell_calc ==
  /\ asked.kind = "calc" /\ shown = <<>>
  /\ shown' = cmd_calc(line)
  /\ UNCHANGED <<asked, line>>

\* virt A prints the address again, before what it translates to.
shell_address ==
  /\ asked.kind = "address" /\ shown = <<>>
  /\ shown' = print_hex(atoi_hex(line))
  /\ UNCHANGED <<asked, line>>

Next == shell_calc \/ shell_address

Spec == Init /\ [][Next]_vars

-----------------------------------------------------------------------------
(* Properties.                                                             *)

\* The operands, and the result if there is one, are ints, and the result
\* is not the least int, which print_int cannot write.
Printable(c) ==
  /\ {c.x, c.y} \subseteq Ints /\ c.op # "x" /\ (c.op = "/" => c.y # 0)
  /\ Exact(c.x, c.op, c.y) \in Ints \ {Min32}

\* The console shows what was meant. An address that fits a word, typed
\* short or with leading zeros, in capitals, small letters or both, with any
\* prefix and spaces, is printed with all its digits and denotes the same
\* address. calc prints the exact result, with any spacing and signs, if it
\* can be printed and no space comes before the first number (cmd_calc skips
\* it when it looks for the operator, atoi does not); a division by zero is
\* reported; and no line stops the machine, except the least int divided by
\* -1.
NumbersExact ==
  shown # <<>> =>
    CASE asked.kind = "address" ->
           asked.n < WORD => \E digits \in [1..HexDigits -> {Digit[k] : k \in 1..HEX}] :
             shown = <<"0", "x">> \o digits /\ Value(digits, HEX) = asked.n
      [] asked.kind = "calc" ->
           /\ Printable(asked) /\ ~asked.lead
                => IsNumeral(shown) /\ Meaning(shown) = Exact(asked.x, asked.op, asked.y)
           /\ asked.op = "/" /\ asked.y = 0 => shown = <<"divide by zero">>
           /\ shown = <<"HALT">>
                => asked.op = "/" /\ ToInt(asked.x) = Min32 /\ ToInt(asked.y) = -1
=============================================================================
