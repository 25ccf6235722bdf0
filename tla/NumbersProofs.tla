--------------------------- MODULE NumbersProofs ---------------------------
(***************************************************************************)
(* Proofs about Numbers, for all bases, widths of a word and lengths of a  *)
(* numeral.  The definitions to reason about are recursive functions, so   *)
(* the first part derives induction and recursion over the naturals, as    *)
(* facts about sets and functions, from the well-foundedness of <.         *)
(***************************************************************************)
EXTENDS Numbers, DivMod, SequenceTheorems, WellFoundedInduction

-----------------------------------------------------------------------------
(* Induction and recursion.                                                *)

\* A non-empty set of naturals has a least element.
LEMMA Least ==
  ASSUME NEW T \in SUBSET Nat, T # {}
  PROVE  \E m \in T : \A k \in T : m <= k
<1> DEFINE R == {ss \in Nat \X Nat : ss[1] < ss[2]}
<1>1. IsWellFoundedOn(R, Nat)
  BY NatLessThanWellFounded, Zenon DEF OpToRel
<1>2. \A x, y \in Nat : x < y => <<x, y>> \in R
  OBVIOUS
<1> HIDE DEF R
<1>3. PICK m \in T : \A k \in T : ~(<<k, m>> \in R)
  BY <1>1, WFMin
<1>4. ASSUME NEW k \in T PROVE m <= k
  <2>1. k \in Nat /\ m \in Nat /\ ~(k < m)
    BY <1>2, <1>3
  <2> QED
    BY ONLY <2>1
<1> QED
  BY <1>3, <1>4

\* A set that has a natural whenever it has all smaller ones has them all.
LEMMA StrongInduction ==
  ASSUME NEW S, \A n \in Nat : (\A m \in Nat : m < n => m \in S) => n \in S
  PROVE  Nat \subseteq S
<1> DEFINE T == Nat \ S
<1> SUFFICES ASSUME T # {} PROVE FALSE
  OBVIOUS
<1>1. PICK n \in T : \A k \in T : n <= k
  BY Least
<1>2. ASSUME NEW m \in Nat, m < n PROVE m \in S
  BY <1>1, <1>2
<1> QED
  BY <1>1, <1>2

\* Induction up to a bound.
LEMMA BoundedInduction ==
  ASSUME NEW N \in Nat, NEW S, 0 \in S, \A k \in 1..N : k - 1 \in S => k \in S
  PROVE  0..N \subseteq S
<1> DEFINE U == S \cup {n \in Nat : n > N}
<1>1. ASSUME NEW n \in Nat, \A m \in Nat : m < n => m \in U PROVE n \in U
  <2>1. CASE n = 0
    BY <2>1
  <2>2. CASE n \in 1..N
    <3>1. n - 1 \in Nat /\ n - 1 < n /\ ~(n - 1 > N)
      BY <2>2
    <3>2. n - 1 \in S
      BY <1>1, <3>1
    <3> QED
      BY <2>2, <3>2
  <2>3. CASE n > N
    BY <2>3
  <2> QED
    BY <2>1, <2>2, <2>3
<1>2. Nat \subseteq U
  <2> HIDE DEF U
  <2> QED
    BY <1>1, StrongInduction
<1> QED
  BY <1>2

\* g starts with c, and step computes its value at i from that at the smaller
\* argument prev[i].
Solution(g, N, V, c, prev, step) ==
  g \in [0..N -> V] /\ g[0] = c /\ \A i \in 1..N : g[i] = step[<<i, g[prev[i]]>>]

Solvable(N, V, c, prev, step) ==
  /\ N \in Nat /\ c \in V
  /\ \A i \in 1..N : prev[i] \in 0..(i - 1)
  /\ \A i \in 1..N, v \in V : step[<<i, v>>] \in V

\* There is such a function.
LEMMA Recursion ==
  ASSUME NEW N, NEW V, NEW c, NEW prev, NEW step, Solvable(N, V, c, prev, step)
  PROVE  \E g : Solution(g, N, V, c, prev, step)
<1> DEFINE Solves(g, n) == g[0] = c /\ \A i \in 1..n : g[i] = step[<<i, g[prev[i]]>>]
           S == {n \in 0..N : \E g \in [0..n -> V] : Solves(g, n)}
<1>0. /\ \A i \in 1..N : prev[i] \in 0..(i - 1)
      /\ \A i \in 1..N, v \in V : step[<<i, v>>] \in V
      /\ N \in Nat /\ c \in V
  BY DEF Solvable
<1>1. 0 \in S
  <2> DEFINE g == [i \in 0..0 |-> c]
  <2>1. g \in [0..0 -> V] /\ Solves(g, 0)
    BY <1>0
  <2> HIDE DEF g, Solves
  <2> QED
    BY <1>0, <2>1
<1>2. ASSUME NEW k \in 1..N, k - 1 \in S PROVE k \in S
  <2>1. PICK g \in [0..(k - 1) -> V] : Solves(g, k - 1)
    BY <1>2
  <2> DEFINE h == [i \in 0..k |-> IF i = k THEN step[<<k, g[prev[k]]>>] ELSE g[i]]
  <2>2. h \in [0..k -> V]
    <3>1. g[prev[k]] \in V /\ step[<<k, g[prev[k]]>>] \in V
      BY <1>0, <1>2
    <3>2. ASSUME NEW i \in 0..k, i # k PROVE g[i] \in V
      <4>1. i \in 0..(k - 1)
        BY <1>0, <3>2
      <4> QED
        BY <4>1
    <3> QED
      BY <3>1, <3>2
  <2>3. h[0] = c
    BY <2>1
  <2>4. ASSUME NEW i \in 1..k PROVE h[i] = step[<<i, h[prev[i]]>>]
    <3>1. prev[i] \in 0..(i - 1) /\ prev[i] \in 0..k /\ prev[i] # k
      BY <1>0, <1>2
    <3>2. h[prev[i]] = g[prev[i]]
      BY <3>1
    <3>3. CASE i = k
      <4>1. i \in 0..k
        BY <3>3
      <4>2. h[i] = step[<<k, g[prev[k]]>>]
        BY <3>3, <4>1
      <4> HIDE DEF h
      <4> QED
        BY <3>2, <3>3, <4>2
    <3>4. CASE i # k
      <4>1. i \in 1..(k - 1) /\ i \in 0..k
        BY <3>4
      <4>2. g[i] = step[<<i, g[prev[i]]>>]
        BY <2>1, <4>1
      <4> QED
        BY <3>2, <3>4, <4>1, <4>2
    <3> QED
      BY <3>3, <3>4
  <2>5. k \in 0..N /\ h \in [0..k -> V] /\ Solves(h, k)
    <3> HIDE DEF h
    <3> QED
      BY <2>2, <2>3, <2>4
  <2> QED
    <3> HIDE DEF h, Solves
    <3> QED
      BY <2>5
<1>3. N \in S
  <2> HIDE DEF S
  <2>1. 0..N \subseteq S
    BY <1>0, <1>1, <1>2, BoundedInduction
  <2> QED
    BY <1>0, <2>1
<1> QED
  BY <1>3 DEF Solution

-----------------------------------------------------------------------------
(* Words and digits.                                                       *)

\* The powers of the base.
LEMMA PowerFacts ==
  /\ Power[0] = 1 /\ \A k \in 1..HexDigits : Power[k] = HEX * Power[k - 1]
  /\ \A k \in 0..HexDigits : Power[k] \in Nat \ {0}
<1> DEFINE Solves(g) == g = [k \in 0..HexDigits |-> IF k = 0 THEN 1 ELSE HEX * g[k - 1]]
           prev == [i \in 1..HexDigits |-> i - 1]
           step == [iv \in (1..HexDigits) \X Nat |-> HEX * iv[2]]
<1>0. HEX \in Nat \ {0} /\ HexDigits \in Nat
  BY BaseAssumption
<1>1. \A i \in 1..HexDigits, v \in Nat : step[<<i, v>>] = HEX * v
  BY <1>0
<1>2. \A i \in 1..HexDigits : prev[i] = i - 1
  OBVIOUS
<1> HIDE DEF prev, step
<1>3. PICK g : Solution(g, HexDigits, Nat, 1, prev, step)
  <2>1. Solvable(HexDigits, Nat, 1, prev, step)
    BY <1>0, <1>1, <1>2 DEF Solvable
  <2> QED
    BY <2>1, Recursion
<1>4. Solves(g)
  <2>1. ASSUME NEW k \in 1..HexDigits PROVE g[k] = HEX * g[k - 1]
    <3>1. k - 1 \in 0..HexDigits
      BY <1>0
    <3>2. g[k - 1] \in Nat
      BY <1>3, <3>1 DEF Solution
    <3>3. g[k] = step[<<k, g[k - 1]>>]
      BY <1>2, <1>3 DEF Solution
    <3> QED
      BY <1>1, <3>2, <3>3
  <2> QED
    BY <1>0, <1>3, <2>1 DEF Solution
<1>5. Solves(Power)
  <2> HIDE DEF Solves
  <2>1. \E f : Solves(f)
    BY <1>4
  <2>2. Power = CHOOSE f : Solves(f)
    BY DEF Power, Solves
  <2> QED
    BY <2>1, <2>2
<1>6. Power[0] = 1 /\ \A k \in 1..HexDigits : Power[k] = HEX * Power[k - 1]
  BY <1>0, <1>5
<1> DEFINE S == {k \in 0..HexDigits : Power[k] \in Nat \ {0}}
<1>7. 0..HexDigits \subseteq S
  <2>1. 0 \in S
    BY <1>0, <1>6
  <2>2. ASSUME NEW k \in 1..HexDigits, k - 1 \in S PROVE k \in S
    BY <1>0, <1>6, <2>2
  <2> HIDE DEF S
  <2> QED
    BY <1>0, <2>1, <2>2, BoundedInduction
<1> QED
  BY <1>6, <1>7

\* Half of the words are negative ints.
LEMMA WordFacts ==
  /\ WORD \in Nat \ {0}
  /\ Max32 \in Nat /\ Min32 = -(Max32 + 1) /\ WORD = 2 * (Max32 + 1)
<1> DEFINE P == Power[HexDigits - 1]
           h == HEX \div 2
<1>1. HexDigits \in 1..HexDigits /\ HexDigits - 1 \in 0..HexDigits
  BY BaseAssumption
<1>2. P \in Nat \ {0} /\ WORD = HEX * P
  BY <1>1, PowerFacts DEF WORD
<1>3. HEX = 2 * h /\ h \in Nat \ {0}
  BY BaseAssumption
<1> HIDE DEF P, h
<1>4. h * P \in Nat \ {0} /\ WORD = 2 * (h * P)
  BY <1>2, <1>3
<1>5. WORD \div 2 = h * P
  BY <1>4
<1> QED
  BY <1>4, <1>5 DEF Max32, Min32

\* Each digit is found at its place, in capitals and in small letters.
LEMMA DigitPlaces ==
  \A k, j \in 1..16 : (Digit[k] \in {Digit[j], Lower[j]} \/ Lower[k] \in {Digit[j], Lower[j]}) => j = k
BY DEF Digit, Lower

LEMMA DigitFacts ==
  ASSUME NEW k \in 1..16
  PROVE  DigitValue(Digit[k]) = k - 1 /\ DigitValue(Lower[k]) = k - 1
<1>1. (CHOOSE j \in 1..16 : Digit[k] \in {Digit[j], Lower[j]}) = k
  BY DigitPlaces
<1>2. (CHOOSE j \in 1..16 : Lower[k] \in {Digit[j], Lower[j]}) = k
  BY DigitPlaces
<1> QED
  BY <1>1, <1>2 DEF DigitValue

\* No other character of a line is a digit.
LEMMA NoDigits ==
  ASSUME NEW base \in 0..16
  PROVE  DigitsOf(base) \cap {" ", "-", "+", "*", "/", "x", "X", "NUL"} = {}
<1>1. \A k \in 1..16 : {Digit[k], Lower[k]} \cap {" ", "-", "+", "*", "/", "x", "X", "NUL"} = {}
  BY DEF Digit, Lower
<1>2. \A k \in 1..base : k \in 1..16
  OBVIOUS
<1> QED
  BY <1>1, <1>2 DEF DigitsOf

\* A digit's value is less than the base.
LEMMA ValueOfDigit ==
  ASSUME NEW base \in 0..16, NEW c \in DigitsOf(base)
  PROVE  DigitValue(c) \in 0..(base - 1)
<1>1. PICK k \in 1..base : c \in {Digit[k], Lower[k]}
  BY DEF DigitsOf
<1>2. k \in 1..16
  OBVIOUS
<1> QED
  BY <1>1, <1>2, DigitFacts

-----------------------------------------------------------------------------
(* Reading.                                                                *)

\* There are m characters of S from i on, and no more.
Run(s, i, m, S) ==
  /\ Len(s) \in Nat /\ i \in Nat \ {0} /\ m \in Nat /\ i + m <= Len(s) + 1
  /\ \A k \in 1..m : s[i + k - 1] \in S
  /\ At(s, i + m) \notin S

\* A loop over them stops behind the last.
LEMMA SkipTo ==
  ASSUME NEW s, NEW i, NEW m, NEW S, Run(s, i, m, S)
  PROVE  Skip(s, i, S) = i + m
<1>0. /\ Len(s) \in Nat /\ i \in Nat \ {0} /\ m \in Nat /\ i + m <= Len(s) + 1
      /\ At(s, i + m) \notin S
  BY DEF Run
<1>4. ASSUME NEW k \in i..(i + m - 1) PROVE s[k] \in S
  <2>1. k - i + 1 \in 1..m /\ i + (k - i + 1) - 1 = k
    BY <1>0
  <2>2. s[i + (k - i + 1) - 1] \in S
    BY <2>1 DEF Run
  <2> QED
    BY <2>1, <2>2
<1> DEFINE Stops(j) == At(s, j) \notin S /\ \A k \in i..(j - 1) : s[k] \in S
<1>1. i + m \in i..(Len(s) + 1) /\ Stops(i + m)
  BY <1>0, <1>4
<1>2. ASSUME NEW j \in i..(Len(s) + 1), Stops(j) PROVE j = i + m
  <2>1. CASE j < i + m
    <3>1. j \in i..(i + m - 1) /\ j <= Len(s)
      BY <1>0, <2>1
    <3> QED
      BY <1>2, <1>4, <3>1 DEF At
  <2>2. CASE j > i + m
    <3>1. i + m \in i..(j - 1) /\ i + m <= Len(s)
      BY <1>0, <2>2
    <3>2. s[i + m] \in S
      BY <1>2, <3>1
    <3> QED
      BY <1>0, <3>1, <3>2 DEF At
  <2> QED
    BY <1>0, <2>1, <2>2
<1>3. Skip(s, i, S) = CHOOSE j \in i..(Len(s) + 1) : Stops(j)
  BY DEF Skip
<1> HIDE DEF Stops
<1> QED
  BY <1>1, <1>2, <1>3

\* f[k] is the number that the first k of m digits from i on denote.
SumsAt(f, s, i, m, base) ==
  /\ f \in [0..m -> Nat] /\ f[0] = 0
  /\ \A k \in 1..m : f[k] = f[k - 1] * base + DigitValue(s[i + k - 1])

\* What the loops of atoi and atoi_hex compute from the m digits at i: the
\* value f[m] that they have, in a word.
LEMMA AccumulateIs ==
  ASSUME NEW s, NEW i, NEW m, NEW base \in 1..16, Run(s, i, m, DigitsOf(base)),
         NEW f, SumsAt(f, s, i, m, base)
  PROVE  Accumulate(s, i, base) = f[m] % WORD
<1> DEFINE d(k) == DigitValue(s[i + k - 1])
           Solves(g) == g = [k \in 0..m |-> IF k = 0 THEN 0 ELSE (g[k - 1] * base + d(k)) % WORD]
           prev == [k \in 1..m |-> k - 1]
           step == [kv \in (1..m) \X Nat |-> (kv[2] * base + d(kv[1])) % WORD]
<1>1. WORD \in Nat \ {0} /\ m \in Nat /\ i \in Nat
  BY WordFacts DEF Run
<1>2. ASSUME NEW k \in 1..m PROVE d(k) \in Nat
  <2>1. s[i + k - 1] \in DigitsOf(base)
    BY DEF Run
  <2>3. base \in 0..16
    OBVIOUS
  <2>2. d(k) \in 0..(base - 1)
    BY <2>1, <2>3, ValueOfDigit
  <2> QED
    BY <2>2
<1>3. Skip(s, i, DigitsOf(base)) - i = m
  BY <1>1, SkipTo
<1>4. Accumulate(s, i, base) = (CHOOSE g : Solves(g))[m]
  BY <1>3 DEF Accumulate
<1>5. \A k \in 1..m, v \in Nat : step[<<k, v>>] = (v * base + d(k)) % WORD
  OBVIOUS
<1>6. \A k \in 1..m : prev[k] = k - 1
  OBVIOUS
<1> HIDE DEF prev, step, d
<1>7. \A k \in 1..m, v \in Nat : (v * base + d(k)) % WORD \in Nat
  <2> TAKE k \in 1..m, v \in Nat
  <2>1. v * base \in Nat /\ d(k) \in Nat
    BY <1>2
  <2>2. v * base + d(k) \in Nat
    BY ONLY <2>1
  <2> QED
    BY ONLY <1>1, <2>2, DivNat
<1>8. PICK g : Solution(g, m, Nat, 0, prev, step)
  <2>1. Solvable(m, Nat, 0, prev, step)
    <3>1. \A k \in 1..m, v \in Nat : step[<<k, v>>] \in Nat
      BY <1>5, <1>7, Zenon
    <3>2. \A k \in 1..m : prev[k] \in 0..(k - 1)
      BY <1>6
    <3> QED
      BY <1>1, <3>1, <3>2 DEF Solvable
  <2> QED
    BY <2>1, Recursion
<1>9. Solves(g)
  <2>1. ASSUME NEW k \in 1..m PROVE g[k] = (g[k - 1] * base + d(k)) % WORD
    <3>1. k - 1 \in 0..m
      BY <1>1
    <3>2. g[k - 1] \in Nat
      BY <1>8, <3>1 DEF Solution
    <3>3. g[k] = step[<<k, g[k - 1]>>]
      BY <1>6, <1>8 DEF Solution
    <3> QED
      BY <1>5, <3>2, <3>3
  <2> QED
    BY <1>1, <1>8, <2>1 DEF Solution
<1> DEFINE n == CHOOSE h : Solves(h)
<1>10. Solves(n)
  <2> HIDE DEF Solves
  <2> QED
    BY <1>9
<1> HIDE DEF n
<1> DEFINE S == {k \in 0..m : n[k] = f[k] % WORD}
<1>11. 0 \in S
  <2>1. n[0] = 0 /\ 0 \in 0..m
    BY <1>1, <1>10
  <2>2. 0 % WORD = 0
    BY ONLY <1>1, SmallMod
  <2> QED
    BY <2>1, <2>2 DEF SumsAt
<1>12. ASSUME NEW k \in 1..m, k - 1 \in S PROVE k \in S
  <2>0. k \in 0..m /\ k # 0 /\ k - 1 \in 0..m
    BY <1>1
  <2>1. n[k] = (n[k - 1] * base + d(k)) % WORD
    BY <1>10, <2>0
  <2>2. f[k] = f[k - 1] * base + d(k)
    BY DEF SumsAt, d
  <2>3. f[k - 1] \in Nat /\ d(k) \in Nat /\ base \in Nat
    BY <1>2, <2>0 DEF SumsAt
  <2>4. ((f[k - 1] % WORD) * base + d(k)) % WORD = (f[k - 1] * base + d(k)) % WORD
    <3>1. WORD \in Nat \ {0}
      BY <1>1
    <3>2. SameStep(f[k - 1], base, d(k), WORD)
      BY ONLY <2>3, <3>1, ModStep
    <3> QED
      BY <3>2 DEF SameStep
  <2> QED
    BY <1>12, <2>0, <2>1, <2>2, <2>4
<1>13. 0..m \subseteq S
  <2> HIDE DEF S
  <2> QED
    BY <1>1, <1>11, <1>12, BoundedInduction
<1> QED
  BY <1>1, <1>4, <1>13 DEF n

\* f[k] is the number that the first k digits of d denote.
Sums(f, d, base) ==
  /\ f \in [0..Len(d) -> Nat] /\ f[0] = 0
  /\ \A k \in 1..Len(d) : f[k] = f[k - 1] * base + DigitValue(d[k])

\* f and g add up the first n digits of d and e, which are the same digits.
SameSteps(n, f, g, d, e, base) ==
  /\ f[0] = g[0]
  /\ \A k \in 1..n : /\ f[k] = f[k - 1] * base + DigitValue(d[k])
                     /\ g[k] = g[k - 1] * base + DigitValue(e[k])
                     /\ d[k] = e[k]

\* The same digits denote the same numbers.
LEMMA SameSums ==
  ASSUME NEW n \in Nat, NEW f, NEW g, NEW d, NEW e, NEW base, SameSteps(n, f, g, d, e, base)
  PROVE  f[n] = g[n]
<1> DEFINE S == {k \in 0..n : f[k] = g[k]}
<1>1. 0 \in S
  BY DEF SameSteps
<1>2. ASSUME NEW k \in 1..n, k - 1 \in S PROVE k \in S
  <2>1. f[k - 1] = g[k - 1] /\ k \in 0..n
    BY <1>2
  <2> QED
    BY <2>1 DEF SameSteps
<1>3. 0..n \subseteq S
  <2> HIDE DEF S
  <2> QED
    BY <1>1, <1>2, BoundedInduction
<1> QED
  BY <1>3

\* Value is the last of the sums, which exist and are unique.
LEMMA ValueIs ==
  ASSUME NEW base \in {DEC, HEX}, NEW d \in Seq(DigitsOf(base))
  PROVE  \E f : Sums(f, d, base) /\ Value(d, base) = f[Len(d)]
<1> DEFINE m == Len(d)
           v(k) == DigitValue(d[k])
           Solves(g) == g = [k \in 0..m |-> IF k = 0 THEN 0 ELSE g[k - 1] * base + v(k)]
           prev == [k \in 1..m |-> k - 1]
           step == [kv \in (1..m) \X Nat |-> kv[2] * base + v(kv[1])]
<1>1. m \in Nat /\ base \in 0..16 /\ base \in Nat
  BY BaseAssumption, LenProperties
<1>2. ASSUME NEW k \in 1..m PROVE v(k) \in Nat
  <2>1. d[k] \in DigitsOf(base)
    BY ElementOfSeq
  <2>2. v(k) \in 0..(base - 1)
    BY <1>1, <2>1, ValueOfDigit
  <2> QED
    BY <2>2
<1>4. Value(d, base) = (CHOOSE g : Solves(g))[m]
  BY DEF Value
<1>5. \A k \in 1..m, x \in Nat : step[<<k, x>>] = x * base + v(k)
  OBVIOUS
<1>6. \A k \in 1..m : prev[k] = k - 1
  OBVIOUS
<1> HIDE DEF prev, step, v, m
<1>7. \A k \in 1..m, x \in Nat : x * base + v(k) \in Nat
  <2> TAKE k \in 1..m, x \in Nat
  <2>1. x * base \in Nat /\ v(k) \in Nat
    BY <1>1, <1>2
  <2> QED
    BY ONLY <2>1
<1>8. PICK g : Solution(g, m, Nat, 0, prev, step)
  <2>1. Solvable(m, Nat, 0, prev, step)
    <3>1. \A k \in 1..m, x \in Nat : step[<<k, x>>] \in Nat
      BY <1>5, <1>7, Zenon
    <3>2. \A k \in 1..m : prev[k] \in 0..(k - 1)
      BY <1>6
    <3> QED
      BY <1>1, <3>1, <3>2 DEF Solvable
  <2> QED
    BY <2>1, Recursion
<1>9. Solves(g)
  <2>1. ASSUME NEW k \in 1..m PROVE g[k] = g[k - 1] * base + v(k)
    <3>1. k - 1 \in 0..m
      BY <1>1
    <3>2. g[k - 1] \in Nat
      BY <1>8, <3>1 DEF Solution
    <3>3. g[k] = step[<<k, g[k - 1]>>]
      BY <1>6, <1>8 DEF Solution
    <3> QED
      BY <1>5, <3>2, <3>3
  <2> QED
    BY <1>1, <1>8, <2>1 DEF Solution
<1> DEFINE n == CHOOSE h : Solves(h)
<1>10. Solves(n)
  <2> HIDE DEF Solves
  <2> QED
    BY <1>9
<1> HIDE DEF n
<1>11. n[0] = 0 /\ \A k \in 1..m : n[k] = n[k - 1] * base + v(k)
  <2>1. n[0] = 0
    BY <1>1, <1>10
  <2>2. ASSUME NEW k \in 1..m PROVE n[k] = n[k - 1] * base + v(k)
    <3>1. k \in 0..m /\ k # 0
      BY <1>1
    <3> QED
      BY <1>10, <3>1
  <2> QED
    BY <2>1, <2>2
<1> DEFINE S == {k \in 0..m : n[k] \in Nat}
<1>12. 0..m \subseteq S
  <2>1. 0 \in S
    BY <1>1, <1>11
  <2>2. ASSUME NEW k \in 1..m, k - 1 \in S PROVE k \in S
    <3>1. n[k - 1] \in Nat /\ k \in 0..m
      BY <1>1, <2>2
    <3> QED
      BY <1>7, <1>11, <3>1
  <2> HIDE DEF S
  <2> QED
    BY <1>1, <2>1, <2>2, BoundedInduction
<1>13. Sums(n, d, base)
  <2>1. n \in [0..m -> Nat]
    BY <1>10, <1>12
  <2> QED
    BY <1>11, <2>1 DEF Sums, m, v
<1> QED
  BY <1>4, <1>13 DEF n, m

LEMMA ValueUnique ==
  ASSUME NEW base \in {DEC, HEX}, NEW d \in Seq(DigitsOf(base)), NEW f, Sums(f, d, base)
  PROVE  Value(d, base) = f[Len(d)]
<1>1. PICK g : Sums(g, d, base) /\ Value(d, base) = g[Len(d)]
  BY ValueIs
<1>2. Len(d) \in Nat
  BY LenProperties
<1>3. SameSteps(Len(d), f, g, d, d, base)
  BY <1>1 DEF Sums, SameSteps
<1>4. f[Len(d)] = g[Len(d)]
  BY ONLY <1>2, <1>3, SameSums
<1> QED
  BY <1>1, <1>4

LEMMA ValueType ==
  ASSUME NEW base \in {DEC, HEX}, NEW d \in Seq(DigitsOf(base))
  PROVE  Value(d, base) \in Nat
<1>1. PICK f : Sums(f, d, base) /\ Value(d, base) = f[Len(d)]
  BY ValueIs
<1>2. Len(d) \in Nat
  BY LenProperties
<1> QED
  BY <1>1, <1>2 DEF Sums

\* One more digit.
LEMMA ValueAppend ==
  ASSUME NEW base \in {DEC, HEX}, NEW d \in Seq(DigitsOf(base)), NEW c \in DigitsOf(base)
  PROVE  Append(d, c) \in Seq(DigitsOf(base)) /\ Value(Append(d, c), base) = Value(d, base) * base + DigitValue(c)
<1> DEFINE e == Append(d, c)
<1>1. /\ e \in Seq(DigitsOf(base)) /\ Len(e) = Len(d) + 1 /\ Len(d) \in Nat
      /\ \A k \in 1..Len(d) : e[k] = d[k]
      /\ e[Len(d) + 1] = c
  BY AppendProperties, LenProperties
<1>2. PICK f : Sums(f, d, base) /\ Value(d, base) = f[Len(d)]
  BY ValueIs
<1> HIDE DEF e
<1>3. PICK g : Sums(g, e, base) /\ Value(e, base) = g[Len(e)]
  BY <1>1, ValueIs
<1>4. SameSteps(Len(d), f, g, d, e, base)
  BY <1>1, <1>2, <1>3 DEF Sums, SameSteps
<1>5. f[Len(d)] = g[Len(d)]
  <2>1. Len(d) \in Nat
    BY <1>1
  <2> QED
    BY ONLY <2>1, <1>4, SameSums
<1>6. g[Len(e)] = g[Len(d)] * base + DigitValue(c)
  <2>1. Len(e) \in 1..Len(e) /\ Len(e) - 1 = Len(d)
    BY <1>1
  <2> QED
    BY <1>1, <1>3, <2>1 DEF Sums
<1> QED
  BY <1>1, <1>2, <1>3, <1>5, <1>6 DEF e

-----------------------------------------------------------------------------
(* Printing.                                                               *)

LEMMA ValueEmpty == <<>> \in Seq(DigitsOf(DEC)) /\ Value(<<>>, DEC) = 0
<1>1. <<>> \in Seq(DigitsOf(DEC)) /\ Len(<<>>) = 0
  OBVIOUS
<1>2. PICK f : Sums(f, <<>>, DEC) /\ Value(<<>>, DEC) = f[Len(<<>>)]
  BY <1>1, ValueIs
<1> QED
  BY <1>1, <1>2 DEF Sums

\* A decimal digit stands for itself.
LEMMA DecimalDigit ==
  ASSUME NEW k \in 0..(DEC - 1)
  PROVE  Digit[k + 1] \in DigitsOf(DEC) /\ DigitValue(Digit[k + 1]) = k
<1>1. k + 1 \in 1..DEC /\ k + 1 \in 1..16 /\ (k + 1) - 1 = k
  BY BaseAssumption
<1>2. DigitValue(Digit[k + 1]) = (k + 1) - 1
  BY <1>1, DigitFacts
<1> QED
  BY <1>1, <1>2 DEF DigitsOf

\* The digits of n, as print_int's loop divides them off.
LEMMA DecimalStep ==
  /\ Decimal[0] = <<>>
  /\ \A n \in 1..Max32 : Decimal[n] = Append(Decimal[n \div DEC], Digit[(n % DEC) + 1])
<1> DEFINE V == Seq(DigitsOf(DEC))
           c(n) == Digit[(n % DEC) + 1]
           Solves(g) == g = [n \in 0..Max32 |-> IF n = 0 THEN <<>> ELSE Append(g[n \div DEC], c(n))]
           prev == [n \in 1..Max32 |-> n \div DEC]
           step == [nv \in (1..Max32) \X V |-> Append(nv[2], c(nv[1]))]
<1>1. Max32 \in Nat /\ DEC \in Nat \ {0} /\ DEC \in 2..10
  BY BaseAssumption, WordFacts
<1>2. ASSUME NEW n \in 1..Max32
      PROVE  n \div DEC \in 0..(n - 1) /\ n % DEC \in 0..(DEC - 1)
  <2>1. n \in Nat /\ n < n * 2 /\ n * 2 <= n * DEC
    BY <1>1
  <2>2. n \div DEC \in Nat /\ n % DEC \in 0..(DEC - 1)
    BY ONLY <1>1, <2>1, DivNat
  <2>3. ~(n <= n \div DEC)
    <3>1. ~(n * DEC <= n)
      BY <1>1, <2>1
    <3> QED
      BY ONLY <1>1, <2>1, <3>1, DivGalois
  <2> QED
    BY <2>1, <2>2, <2>3
<1>3. ASSUME NEW n \in 1..Max32 PROVE c(n) \in DigitsOf(DEC)
  BY <1>2, DecimalDigit
<1>4. \A n \in 1..Max32, v \in V : step[<<n, v>>] = Append(v, c(n))
  OBVIOUS
<1>5. \A n \in 1..Max32 : prev[n] = n \div DEC
  OBVIOUS
<1> HIDE DEF prev, step, c, V
<1>6. \A n \in 1..Max32, v \in V : Append(v, c(n)) \in V
  BY <1>3, AppendProperties DEF V
<1>7. PICK g : Solution(g, Max32, V, <<>>, prev, step)
  <2>1. Solvable(Max32, V, <<>>, prev, step)
    <3>1. \A n \in 1..Max32, v \in V : step[<<n, v>>] \in V
      BY <1>4, <1>6, Zenon
    <3>2. \A n \in 1..Max32 : prev[n] \in 0..(n - 1)
      BY <1>2, <1>5
    <3>3. <<>> \in V
      BY DEF V
    <3> QED
      BY <1>1, <3>1, <3>2, <3>3 DEF Solvable
  <2> QED
    BY <2>1, Recursion
<1>8. Solves(g)
  <2>1. ASSUME NEW n \in 1..Max32 PROVE g[n] = Append(g[n \div DEC], c(n))
    <3>1. n \div DEC \in 0..Max32
      BY <1>1, <1>2
    <3>2. g[n \div DEC] \in V
      BY <1>7, <3>1 DEF Solution
    <3>3. g[n] = step[<<n, g[n \div DEC]>>]
      BY <1>5, <1>7 DEF Solution
    <3> QED
      BY <1>4, <3>2, <3>3
  <2>2. g[0] = <<>> /\ g = [n \in 0..Max32 |-> g[n]]
    BY <1>7 DEF Solution
  <2>3. ASSUME NEW n \in 0..Max32
        PROVE  g[n] = IF n = 0 THEN <<>> ELSE Append(g[n \div DEC], c(n))
    <3>1. n # 0 => n \in 1..Max32
      BY <1>1
    <3> QED
      BY <2>1, <2>2, <3>1
  <2> QED
    BY <2>2, <2>3
<1>9. Solves(Decimal)
  <2>1. Decimal = CHOOSE h : Solves(h)
    BY DEF Decimal, c
  <2> HIDE DEF Solves
  <2> QED
    BY <1>8, <2>1
<1>10. Decimal[0] = <<>>
  BY <1>1, <1>9
<1>11. ASSUME NEW n \in 1..Max32 PROVE Decimal[n] = Append(Decimal[n \div DEC], c(n))
  <2>1. n \in 0..Max32 /\ n # 0
    BY <1>1
  <2> QED
    BY <1>9, <2>1
<1> QED
  BY <1>10, <1>11 DEF c

\* They denote n.
LEMMA DecimalFacts ==
  ASSUME NEW n \in 0..Max32
  PROVE  /\ Decimal[n] \in Seq(DigitsOf(DEC)) /\ Value(Decimal[n], DEC) = n
         /\ n > 0 => Decimal[n] # <<>>
<1> DEFINE Good(k) == /\ Decimal[k] \in Seq(DigitsOf(DEC)) /\ Value(Decimal[k], DEC) = k
                      /\ k > 0 => Decimal[k] # <<>>
           S == {k \in Nat : k <= Max32 => Good(k)}
<1>1. Max32 \in Nat /\ DEC \in Nat \ {0} /\ DEC \in 2..10
  BY BaseAssumption, WordFacts
<1>2. ASSUME NEW k \in Nat, \A m \in Nat : m < k => m \in S PROVE k \in S
  <2>1. CASE k = 0
    <3>1. Decimal[k] \in Seq(DigitsOf(DEC)) /\ Value(Decimal[k], DEC) = k
      BY <2>1, DecimalStep, ValueEmpty
    <3> QED
      BY <2>1, <3>1
  <2>2. CASE k > Max32
    BY <1>1, <2>2
  <2>3. CASE k \in 1..Max32
    <3> DEFINE q == k \div DEC
               r == k % DEC
    <3>1. q \in Nat /\ r \in 0..(DEC - 1) /\ k = q * DEC + r
      <4>1. k = DEC * q + r
        BY <1>1, DivModFacts
      <4>2. q \in Nat /\ r \in 0..(DEC - 1)
        BY <1>1, DivNat
      <4> HIDE DEF q, r
      <4> QED
        BY <1>1, <4>1, <4>2
    <3>2. Decimal[k] = Append(Decimal[q], Digit[r + 1])
      BY <2>3, DecimalStep
    <3> HIDE DEF q, r
    <3>3. q < k /\ q <= Max32
      <4>1. q * 2 <= q * DEC
        BY <1>1, <3>1
      <4> QED
        BY <1>1, <2>3, <3>1, <4>1
    <3>4. Decimal[q] \in Seq(DigitsOf(DEC)) /\ Value(Decimal[q], DEC) = q
      BY <1>2, <3>1, <3>3
    <3>5. Digit[r + 1] \in DigitsOf(DEC) /\ DigitValue(Digit[r + 1]) = r
      BY <3>1, DecimalDigit
    <3>6. Decimal[k] \in Seq(DigitsOf(DEC)) /\ Value(Decimal[k], DEC) = k
      BY <3>1, <3>2, <3>4, <3>5, ValueAppend
    <3>7. Decimal[k] # <<>>
      BY <3>2, <3>4, <3>5, AppendProperties
    <3> QED
      BY <3>6, <3>7
  <2> QED
    BY <1>1, <2>1, <2>2, <2>3
<1>3. Nat \subseteq S
  <2> HIDE DEF S
  <2> QED
    BY <1>2, StrongInduction
<1> QED
  BY <1>1, <1>3

\* An int read back from its word.
LEMMA ToIntFacts ==
  ASSUME NEW w \in Int
  PROVE  /\ ToInt(w) \in Ints
         /\ w \in Ints => ToInt(w) = w
         /\ \A k \in Int : ToInt(k * WORD + w) = ToInt(w)
<1> DEFINE h == Max32 + 1
<1>1. WORD \in Nat \ {0} /\ Max32 \in Nat /\ Min32 = -(Max32 + 1) /\ WORD = 2 * (Max32 + 1)
  BY WordFacts
<1>2. w % WORD \in 0..(WORD - 1)
  BY <1>1, DivModFacts
<1>3. ToInt(w) \in Ints
  BY <1>1, <1>2 DEF ToInt, Ints
<1>4. ASSUME w \in Ints PROVE ToInt(w) = w
  <2>1. CASE w >= 0
    <3>1. w \in Nat /\ w < WORD /\ w <= Max32
      BY <1>1, <1>4, <2>1 DEF Ints
    <3>2. w % WORD = w
      BY ONLY <1>1, <3>1, SmallMod
    <3> QED
      BY <1>1, <3>1, <3>2 DEF ToInt
  <2>2. CASE w < 0
    <3>1. w + WORD \in Nat /\ w + WORD < WORD /\ w + WORD > Max32
      BY <1>1, <1>4, <2>2 DEF Ints
    <3>4. 1 \in Int /\ w \in Int /\ 1 * WORD + w = w + WORD
      BY <1>1
    <3>2. (1 * WORD + w) % WORD = w % WORD
      BY ONLY <1>1, <3>4, ModShift
    <3>3. (w + WORD) % WORD = w + WORD
      BY ONLY <1>1, <3>1, SmallMod
    <3>5. w % WORD = w + WORD
      BY ONLY <3>2, <3>3, <3>4
    <3> QED
      BY <1>1, <3>1, <3>5 DEF ToInt
  <2> QED
    BY <2>1, <2>2
<1>5. ASSUME NEW k \in Int PROVE ToInt(k * WORD + w) = ToInt(w)
  <2>1. (k * WORD + w) % WORD = w % WORD
    BY <1>1, ModShift
  <2> QED
    BY <2>1 DEF ToInt
<1> QED
  BY <1>3, <1>4, <1>5

\* A number can only be negative if a sign comes first.
LEMMA MeaningOf ==
  ASSUME NEW d \in Seq(DigitsOf(DEC)), d # <<>>
  PROVE  /\ IsNumeral(d) /\ Meaning(d) = Value(d, DEC) /\ d[1] \in DigitsOf(DEC) /\ Len(d) \in Nat \ {0}
         /\ IsNumeral(<<"-">> \o d) /\ Meaning(<<"-">> \o d) = -Value(d, DEC)
         /\ (<<"-">> \o d)[1] = "-"
<1>1. Len(d) \in Nat \ {0} /\ d[1] \in DigitsOf(DEC)
  <2>1. Len(d) \in Nat /\ Len(d) # 0
    BY LenProperties, EmptySeq
  <2>2. 1 \in 1..Len(d)
    BY <2>1
  <2> QED
    BY <2>1, <2>2, ElementOfSeq
<1>2. d[1] # "-"
  <2>1. DEC \in 0..16
    BY BaseAssumption
  <2> QED
    BY <1>1, <2>1, NoDigits
<1>3. At(d, 1) # "-"
  BY <1>1, <1>2 DEF At
<1> DEFINE e == <<"-">> \o d
<1>4. e \in Seq(DigitsOf(DEC) \cup {"-"}) /\ Len(e) = 1 + Len(d)
  BY <1>1
<1>5. e[1] = "-"
  BY <1>1
<1>6. Tail(e) = d
  BY <1>1
<1> HIDE DEF e
<1>7. At(e, 1) = "-"
  BY <1>1, <1>4, <1>5 DEF At
<1> QED
  BY <1>1, <1>3, <1>5, <1>6, <1>7 DEF IsNumeral, Meaning, e

\* print_int writes n, except the least int, and never writes "HALT".
LEMMA PrintInt ==
  ASSUME NEW n \in Ints
  PROVE  /\ n # Min32 => IsNumeral(print_int(n)) /\ Meaning(print_int(n)) = n
         /\ print_int(n)[1] # "HALT"
<1>1. WORD \in Nat \ {0} /\ Max32 \in Nat /\ Min32 = -(Max32 + 1) /\ WORD = 2 * (Max32 + 1) /\ n \in Int
  BY WordFacts DEF Ints
<1> DEFINE m == ToInt(WORD - n)
<1>2. m = ToInt(-n)
  <2>1. 1 * WORD + (-n) = WORD - n /\ -n \in Int
    BY <1>1
  <2>2. ToInt(1 * WORD + (-n)) = ToInt(-n)
    BY ONLY <2>1, ToIntFacts
  <2> QED
    BY <2>1, <2>2
<1>3. "HALT" \notin DigitsOf(DEC)
  <2>1. \A k \in 1..16 : "HALT" # Digit[k] /\ "HALT" # Lower[k]
    BY DEF Digit, Lower
  <2>2. \A k \in 1..DEC : k \in 1..16
    BY BaseAssumption
  <2> QED
    BY <2>1, <2>2 DEF DigitsOf
<1>4. CASE n = 0
  <2>1. print_int(n) = <<"0">>
    BY <1>4 DEF print_int
  <2>2. Digit[0 + 1] = "0" /\ 0 \in 0..(DEC - 1)
    BY BaseAssumption DEF Digit
  <2>3. "0" \in DigitsOf(DEC) /\ DigitValue("0") = 0
    BY <2>2, DecimalDigit
  <2>4. Append(<<>>, "0") = <<"0">>
    OBVIOUS
  <2>5. <<"0">> \in Seq(DigitsOf(DEC)) /\ Value(<<"0">>, DEC) = 0 * DEC + 0
    BY <2>3, <2>4, ValueEmpty, ValueAppend
  <2>6. Value(<<"0">>, DEC) = 0 /\ <<"0">> # <<>>
    BY <2>5, BaseAssumption
  <2> QED
    BY <1>3, <1>4, <2>1, <2>5, <2>6, MeaningOf
<1>5. CASE n > 0
  <2>1. print_int(n) = Decimal[n]
    BY <1>1, <1>5 DEF print_int
  <2>2. n \in 0..Max32
    BY <1>1, <1>5 DEF Ints
  <2>3. Decimal[n] \in Seq(DigitsOf(DEC)) /\ Value(Decimal[n], DEC) = n /\ Decimal[n] # <<>>
    BY <1>5, <2>2, DecimalFacts
  <2> QED
    BY <1>3, <2>1, <2>3, MeaningOf
<1>6. CASE n < 0 /\ n # Min32
  <2>1. -n \in Ints /\ -n \in 0..Max32 /\ -n > 0
    BY <1>1, <1>6 DEF Ints
  <2>2. m = -n
    BY <1>1, <1>2, <2>1, ToIntFacts
  <2>3. print_int(n) = <<"-">> \o Decimal[m]
    BY <1>1, <1>6, <2>1, <2>2 DEF print_int
  <2> HIDE DEF m
  <2>4. Decimal[m] \in Seq(DigitsOf(DEC)) /\ Value(Decimal[m], DEC) = m /\ Decimal[m] # <<>>
    BY <2>1, <2>2, DecimalFacts
  <2>5. -m = n
    BY <1>1, <2>2
  <2> QED
    BY <2>3, <2>4, <2>5, MeaningOf
<1>7. CASE n = Min32
  <2>1. -n = 1 * WORD + n /\ n < 0
    BY <1>1, <1>7
  <2>2. m = n
    BY <1>1, <1>2, <2>1, ToIntFacts
  <2>5. ~(n = 0) /\ ~(n > 0) /\ n < 0 /\ ~(m > 0)
    BY <1>1, <2>1, <2>2
  <2>3. print_int(n) = <<"-">> \o <<>>
    BY ONLY <2>5 DEF print_int, m
  <2>4. (<<"-">> \o <<>>)[1] = "-"
    OBVIOUS
  <2> QED
    BY <1>7, <2>3, <2>4
<1> QED
  BY <1>1, <1>4, <1>5, <1>6, <1>7

-----------------------------------------------------------------------------
(* The layout of a line.                                                   *)

\* a stands in s from position i on.
Holds(s, i, a) ==
  /\ Len(s) \in Nat /\ i \in Nat \ {0} /\ Len(a) \in Nat /\ i + Len(a) <= Len(s) + 1
  /\ \A k \in 1..Len(a) : s[i + k - 1] = a[k]

\* The pieces of a concatenation stand behind each other.
LEMMA HoldsSplit ==
  ASSUME NEW C, NEW a \in Seq(C), NEW b \in Seq(C), NEW s, NEW i, Holds(s, i, a \o b)
  PROVE  Holds(s, i, a) /\ Holds(s, i + Len(a), b)
<1> DEFINE c == a \o b
<1>1. /\ Len(a) \in Nat /\ Len(b) \in Nat /\ Len(c) = Len(a) + Len(b)
      /\ \A k \in 1..Len(a) : c[k] = a[k]
      /\ \A k \in 1..Len(b) : c[Len(a) + k] = b[k]
  BY ConcatProperties, LenProperties
<1> HIDE DEF c
<1>2. /\ Len(s) \in Nat /\ i \in Nat \ {0} /\ i + Len(c) <= Len(s) + 1
      /\ \A k \in 1..Len(c) : s[i + k - 1] = c[k]
  BY DEF Holds, c
<1>3. ASSUME NEW k \in 1..Len(a) PROVE s[i + k - 1] = a[k]
  <2>1. k \in 1..Len(c)
    BY <1>1
  <2> QED
    BY <1>1, <1>2, <2>1
<1>4. ASSUME NEW k \in 1..Len(b) PROVE s[(i + Len(a)) + k - 1] = b[k]
  <2>1. Len(a) + k \in 1..Len(c) /\ i + (Len(a) + k) - 1 = (i + Len(a)) + k - 1
    BY <1>1, <1>2
  <2>2. s[i + (Len(a) + k) - 1] = c[Len(a) + k]
    BY <1>2, <2>1
  <2> QED
    BY <1>1, <2>1, <2>2
<1>5. i + Len(a) <= Len(s) + 1 /\ (i + Len(a)) + Len(b) <= Len(s) + 1 /\ i + Len(a) \in Nat \ {0}
  BY <1>1, <1>2
<1> QED
  BY <1>1, <1>2, <1>3, <1>4, <1>5 DEF Holds

\* A line stands in itself, with its terminator behind it.
LEMMA HoldsLine ==
  ASSUME NEW C, NEW s \in Seq(C)
  PROVE  Holds(s, 1, s) /\ At(s, 1 + Len(s)) = "NUL"
<1>1. Len(s) \in Nat
  BY LenProperties
<1>2. \A k \in 1..Len(s) : 1 + k - 1 = k
  OBVIOUS
<1>3. ~(1 + Len(s) <= Len(s)) /\ 1 + Len(s) <= Len(s) + 1
  BY <1>1
<1> QED
  BY <1>1, <1>2, <1>3 DEF Holds, At

\* The first character of a piece.
LEMMA HoldsFirst ==
  ASSUME NEW s, NEW i, NEW a, Holds(s, i, a), Len(a) # 0
  PROVE  At(s, i) = a[1]
<1>1. 1 \in 1..Len(a) /\ i + 1 - 1 = i /\ i <= Len(s)
  BY DEF Holds
<1>2. s[i + 1 - 1] = a[1]
  BY <1>1 DEF Holds
<1> QED
  BY <1>1, <1>2 DEF At

LEMMA SpaceFacts ==
  ASSUME NEW g \in Spaces
  PROVE  (g = <<>> /\ Len(g) = 0) \/ (g # <<>> /\ Len(g) = 1 /\ g[1] = " ")
<1>1. Len(<<>>) = 0 /\ Len(<<" ">>) = 1 /\ <<" ">>[1] = " " /\ <<" ">> # <<>>
  OBVIOUS
<1>2. g = <<>> \/ g = <<" ">>
  BY DEF Spaces
<1> QED
  BY <1>1, <1>2, Zenon

\* Spaces are skipped.
LEMMA SkipSpaces ==
  ASSUME NEW s, NEW i, NEW g \in Spaces, Holds(s, i, g), At(s, i + Len(g)) # " "
  PROVE  Skip(s, i, {" "}) = i + Len(g)
<1>1. Len(g) \in Nat /\ \A k \in 1..Len(g) : g[k] = " "
  <2>1. CASE Len(g) = 0
    BY ONLY <2>1
  <2>2. CASE Len(g) = 1 /\ g[1] = " "
    <3>1. Len(g) = 1
      BY <2>2
    <3>2. Len(g) \in Nat /\ \A k \in 1..Len(g) : k = 1
      BY ONLY <3>1
    <3> QED
      BY ONLY <2>2, <3>2, Zenon
  <2> QED
    BY <2>1, <2>2, SpaceFacts, Zenon
<1>2. Run(s, i, Len(g), {" "})
  BY <1>1 DEF Holds, Run
<1> QED
  BY <1>2, SkipTo

\* What atoi makes of a numeral, and where cmd_calc goes from there.
LEMMA AtoiIs ==
  ASSUME NEW sign \in Signs, NEW d \in Seq(DigitsOf(DEC)), d # <<>>, NEW s, NEW i,
         Holds(s, i, sign \o d), At(s, i + Len(sign \o d)) \notin DigitsOf(DEC)
  PROVE  /\ atoi(s, i) = ToInt(Meaning(sign \o d))
         /\ Meaning(sign \o d) \in Int
         /\ Skip(s, SkipOne(s, i, "-"), DigitsOf(DEC)) = i + Len(sign \o d)
         /\ At(s, i) # " "
<1> DEFINE C == DigitsOf(DEC) \cup {"-"}
           j == i + Len(sign)
<1>1. sign \in Seq(C) /\ d \in Seq(C) /\ DEC \in 1..16 /\ DEC \in 0..16
  <2>1. \A k \in 1..Len(d) : d[k] \in C
    BY ElementOfSeq
  <2>2. sign \in Seq(C)
    <3>1. <<>> \in Seq(C) /\ <<"-">> \in Seq(C)
      OBVIOUS
    <3> QED
      BY <3>1 DEF Signs
  <2> QED
    BY <2>1, <2>2, BaseAssumption
<1>2. Len(sign \o d) = Len(sign) + Len(d) /\ Len(sign) \in Nat /\ Len(d) \in Nat
  BY <1>1, ConcatProperties, LenProperties
<1>3. Holds(s, i, sign) /\ Holds(s, j, d) /\ i \in Nat \ {0}
  <2>1. Holds(s, i, sign) /\ Holds(s, j, d)
    BY <1>1, HoldsSplit
  <2> QED
    BY <2>1 DEF Holds
<1>4. Len(d) # 0 /\ d[1] \in DigitsOf(DEC)
  BY MeaningOf
<1>5. At(s, j) \in DigitsOf(DEC)
  BY <1>3, <1>4, HoldsFirst
<1>6. " " \notin DigitsOf(DEC) /\ "-" \notin DigitsOf(DEC)
  BY <1>1, NoDigits
<1>7. j + Len(d) = i + Len(sign \o d)
  BY <1>2, <1>3
<1>8. Run(s, j, Len(d), DigitsOf(DEC))
  <2>1. \A k \in 1..Len(d) : d[k] \in DigitsOf(DEC)
    BY ElementOfSeq
  <2> QED
    BY <1>3, <1>7, <2>1 DEF Holds, Run
<1>9. PICK f : Sums(f, d, DEC) /\ Value(d, DEC) = f[Len(d)]
  BY ValueIs
<1>10. Accumulate(s, j, DEC) = Value(d, DEC) % WORD
  <2>1. \A k \in 1..Len(d) : s[j + k - 1] = d[k]
    BY <1>3 DEF Holds
  <2>2. SumsAt(f, s, j, Len(d), DEC)
    BY <1>9, <2>1 DEF Sums, SumsAt
  <2> HIDE DEF j
  <2> QED
    BY <1>1, <1>8, <1>9, <2>2, AccumulateIs
<1>11. Skip(s, j, DigitsOf(DEC)) = i + Len(sign \o d)
  BY <1>7, <1>8, SkipTo
<1> DEFINE v == Value(d, DEC)
           p == v \div WORD
           r == v % WORD
<1>12. WORD \in Nat \ {0} /\ v \in Nat /\ v = p * WORD + r /\ p \in Int /\ r \in Int
  <2>1. WORD \in Nat \ {0} /\ v \in Nat
    BY WordFacts, ValueType
  <2> HIDE DEF v
  <2>2. v = WORD * p + r /\ p \in Int /\ r \in Int
    BY ONLY <2>1, DivModFacts
  <2> HIDE DEF p, r
  <2> QED
    BY <2>1, <2>2
<1> HIDE DEF v, p, r, j
<1>13. CASE sign = <<>>
  <2>1. Len(sign) = 0 /\ sign \o d = d
    BY <1>13
  <2>2. j = i
    BY <1>3, <2>1 DEF j
  <2>3. At(s, i) # "-" /\ At(s, i) # " "
    BY <1>5, <1>6, <2>2
  <2>4. atoi(s, i) = ToInt(r)
    BY <1>10, <2>2, <2>3 DEF atoi, SkipOne, v, r
  <2>5. ToInt(p * WORD + r) = ToInt(r)
    BY ONLY <1>12, ToIntFacts
  <2>6. Meaning(sign \o d) = v
    BY <2>1, MeaningOf DEF v
  <2> QED
    <3>1. ToInt(v) = ToInt(r)
      BY ONLY <1>12, <2>5
    <3>2. SkipOne(s, i, "-") = i
      BY <2>3 DEF SkipOne
    <3>3. Skip(s, i, DigitsOf(DEC)) = i + Len(sign \o d)
      BY <1>11, <2>2
    <3>4. v \in Int
      BY ONLY <1>12
    <3> QED
      BY ONLY <2>3, <2>4, <2>6, <3>1, <3>2, <3>3, <3>4, Zenon
<1>14. CASE sign = <<"-">>
  <2>1. Len(sign) = 1 /\ sign[1] = "-"
    BY <1>14
  <2>2. j = i + 1
    BY <2>1 DEF j
  <2>3. At(s, i) = "-"
    BY <1>3, <2>1, HoldsFirst
  <2>4. atoi(s, i) = ToInt(WORD - r)
    BY <1>10, <2>2, <2>3 DEF atoi, SkipOne, v, r
  <2>5. WORD - r = (1 + p) * WORD + (-v) /\ 1 + p \in Int /\ -v \in Int
    BY <1>12
  <2>6. ToInt((1 + p) * WORD + (-v)) = ToInt(-v)
    BY ONLY <2>5, ToIntFacts
  <2>7. Meaning(sign \o d) = -v
    BY <1>14, MeaningOf DEF v
  <2> QED
    BY <1>11, <2>2, <2>3, <2>4, <2>5, <2>6, <2>7 DEF SkipOne
<1> QED
  BY <1>13, <1>14 DEF Signs

\* Everything that stands in a line.
Chars == DigitsOf(16) \cup {" ", "-", "+", "*", "/", "x", "X"}

LEMMA Pieces ==
  /\ Spaces \subseteq Seq(Chars) /\ Signs \subseteq Seq(Chars) /\ Prefixes \subseteq Seq(Chars)
  /\ \A op \in {"+", "-", "*", "/", "x"} : <<op>> \in Seq(Chars)
  /\ \A base \in 0..16 : DigitsOf(base) \subseteq Chars
<1>1. "0" \in Chars
  <2>1. Digit[1] = "0" /\ 1 \in 1..16
    BY DEF Digit
  <2> QED
    BY <2>1 DEF Chars, DigitsOf
<1>2. {" ", "-", "+", "*", "/", "x", "X"} \subseteq Chars
  BY DEF Chars
<1>3. \A base \in 0..16 : DigitsOf(base) \subseteq Chars
  <2> TAKE base \in 0..16
  <2>1. \A k \in 1..base : k \in 1..16
    OBVIOUS
  <2> QED
    BY <2>1 DEF Chars, DigitsOf
<1> HIDE DEF Chars
<1>4. <<>> \in Seq(Chars) /\ \A c \in Chars : <<c>> \in Seq(Chars)
  OBVIOUS
<1>5. <<"0", "x">> \in Seq(Chars) /\ <<"0", "X">> \in Seq(Chars)
  <2>1. \A c, e \in Chars : <<c, e>> \in Seq(Chars)
    OBVIOUS
  <2> QED
    BY <1>1, <1>2, <2>1, Zenon
<1> QED
  BY <1>2, <1>3, <1>4, <1>5 DEF Spaces, Signs, Prefixes

LEMMA SeqSubset ==
  ASSUME NEW S, NEW T, S \subseteq T, NEW d \in Seq(S)
  PROVE  d \in Seq(T)
<1>1. Len(d) \in Nat /\ DOMAIN d = 1..Len(d) /\ d \in [1..Len(d) -> S]
  BY LenProperties
<1>2. d \in [1..Len(d) -> T]
  BY <1>1
<1> QED
  BY <1>1, <1>2

\* The operator types at least one digit.
LEMMA TypedDigits ==
  ASSUME NEW base, NEW d \in Typed(base)
  PROVE  d \in Seq(DigitsOf(base)) /\ Len(d) \in Nat \ {0}
<1>1. PICK k \in 1..MaxDigits : d \in [1..k -> DigitsOf(base)]
  BY DEF Typed
<1>2. k \in Nat \ {0}
  BY BaseAssumption
<1> QED
  BY <1>1, <1>2

\* A numeral is a sign and digits.
LEMMA NumeralParts ==
  ASSUME NEW x \in Numerals
  PROVE  \E sign \in Signs, d \in Seq(DigitsOf(DEC)) : d # <<>> /\ x = sign \o d
<1>1. PICK sign \in Signs, d \in Typed(DEC) : x = sign \o d
  BY DEF Numerals
<1>2. d \in Seq(DigitsOf(DEC)) /\ Len(d) \in Nat \ {0}
  BY TypedDigits
<1>3. d # <<>>
  BY <1>2
<1> QED
  BY <1>1, <1>2, <1>3

\* What cmd_calc answers when it has read a, op and b.
Answer(a, op, b) ==
  CASE op = "x" -> <<"usage">>
    [] op = "/" /\ b = 0 -> <<"divide by zero">>
    [] op = "/" /\ b # 0 /\ Traps(a, b) -> <<"HALT">>
    [] OTHER -> print_int(ToInt(Exact(a, op, b)))

\* The lines that TypesExpression means.
ExpressionForm(s, lead, x, op, y) ==
  \E g, h \in Spaces : s = lead \o x \o g \o <<op>> \o h \o y

\* It reads them whatever spaces surround them, except that a space in front
\* makes the first number 0.
LEMMA CalcLine ==
  ASSUME NEW lead \in Spaces, NEW x \in Numerals, NEW op \in {"+", "-", "*", "/", "x"},
         NEW y \in Numerals, NEW s, ExpressionForm(s, lead, x, op, y)
  PROVE  /\ Meaning(x) \in Int /\ Meaning(y) \in Int
         /\ cmd_calc(s) = Answer(IF lead = <<>> THEN ToInt(Meaning(x)) ELSE 0, op, ToInt(Meaning(y)))
<1>0. PICK g \in Spaces, h \in Spaces : s = lead \o x \o g \o <<op>> \o h \o y
  BY DEF ExpressionForm
<1>1. PICK sx \in Signs, dx \in Seq(DigitsOf(DEC)) : dx # <<>> /\ x = sx \o dx
  BY NumeralParts
<1>2. PICK sy \in Signs, dy \in Seq(DigitsOf(DEC)) : dy # <<>> /\ y = sy \o dy
  BY NumeralParts
<1>3. DEC \in 0..16 /\ DEC \in 1..16
  BY BaseAssumption
<1>4. x \in Seq(Chars) /\ y \in Seq(Chars)
  <2>1. ASSUME NEW d \in Seq(DigitsOf(DEC)) PROVE d \in Seq(Chars)
    <3>1. DigitsOf(DEC) \subseteq Chars
      BY <1>3, Pieces
    <3> QED
      BY <3>1, SeqSubset
  <2> QED
    BY <1>1, <1>2, <2>1, Pieces, ConcatProperties
<1> DEFINE a1 == lead \o x
           a2 == a1 \o g
           o  == <<op>>
           a3 == a2 \o o
           a4 == a3 \o h
<1>5. lead \in Seq(Chars) /\ g \in Seq(Chars) /\ h \in Seq(Chars) /\ o \in Seq(Chars)
  BY Pieces
<1>32. Len(o) = 1 /\ o[1] = op
  OBVIOUS
<1>6. a1 \in Seq(Chars) /\ Len(a1) = Len(lead) + Len(x)
  BY <1>4, <1>5, ConcatProperties
<1>7. a2 \in Seq(Chars) /\ Len(a2) = Len(a1) + Len(g)
  <2> HIDE DEF a1
  <2> QED
    BY <1>5, <1>6, ConcatProperties
<1>8. a3 \in Seq(Chars) /\ Len(a3) = Len(a2) + Len(o)
  <2> HIDE DEF a2, o
  <2> QED
    BY <1>5, <1>7, ConcatProperties
<1>9. a4 \in Seq(Chars) /\ Len(a4) = Len(a3) + Len(h)
  <2> HIDE DEF a3
  <2> QED
    BY <1>5, <1>8, ConcatProperties
<1>10. s = a4 \o y
  BY <1>0
<1> HIDE DEF a4, o
<1>11. s \in Seq(Chars) /\ Len(s) = Len(a4) + Len(y)
  BY <1>4, <1>9, <1>10, ConcatProperties
<1>12. Holds(s, 1, s) /\ At(s, 1 + Len(s)) = "NUL"
  BY <1>11, HoldsLine
<1>13. Holds(s, 1, a4) /\ Holds(s, 1 + Len(a4), y)
  BY <1>4, <1>9, <1>10, <1>12, HoldsSplit
<1>14. Holds(s, 1, a3) /\ Holds(s, 1 + Len(a3), h)
  <2> HIDE DEF a3
  <2>1. a4 = a3 \o h
    BY DEF a4
  <2> QED
    BY <1>5, <1>8, <1>13, <2>1, HoldsSplit
<1> HIDE DEF a3
<1>15. Holds(s, 1, a2) /\ Holds(s, 1 + Len(a2), o)
  <2> HIDE DEF a2
  <2>1. a3 = a2 \o o
    BY DEF a3
  <2> QED
    BY <1>5, <1>7, <1>14, <2>1, HoldsSplit
<1> HIDE DEF a2
<1>16. Holds(s, 1, a1) /\ Holds(s, 1 + Len(a1), g)
  <2> HIDE DEF a1
  <2>1. a2 = a1 \o g
    BY DEF a2
  <2> QED
    BY <1>5, <1>6, <1>15, <2>1, HoldsSplit
<1>17. Holds(s, 1, lead) /\ Holds(s, 1 + Len(lead), x)
  BY <1>4, <1>5, <1>16, HoldsSplit
<1> HIDE DEF a1
<1> DEFINE L == Len(lead)
           X == Len(x)
           G == Len(g)
           H == Len(h)
           p == 1 + L + X + G
<1>18. L \in Nat /\ X \in Nat /\ G \in Nat /\ H \in Nat /\ Len(y) \in Nat
  BY <1>4, <1>5, LenProperties
<1>19. /\ 1 + Len(a1) = (1 + L) + X
       /\ 1 + Len(a2) = p /\ (1 + Len(a1)) + G = p
       /\ 1 + Len(a3) = p + 1
       /\ 1 + Len(a4) = p + 1 + H
       /\ 1 + Len(s) = (p + 1 + H) + Len(y)
  BY <1>6, <1>7, <1>8, <1>9, <1>11, <1>18, <1>32
<1>20. At(s, p) = op
  <2>1. Holds(s, p, o) /\ Len(o) # 0
    BY <1>15, <1>19, <1>32
  <2> QED
    BY <1>32, <2>1, HoldsFirst
<1>21. DigitsOf(DEC) \cap {" ", "-", "+", "*", "/", "x", "X", "NUL"} = {}
  BY <1>3, NoDigits
<1>22. At(s, (1 + L) + X) \notin DigitsOf(DEC)
  <2>1. CASE Len(g) = 0
    <3>1. G = 0
      BY <2>1
    <3>2. p = (1 + L) + X
      BY <1>18, <3>1
    <3> QED
      BY <1>20, <1>21, <3>2
  <2>2. CASE Len(g) = 1 /\ g[1] = " "
    <3>1. Len(g) # 0
      <4>1. Len(g) = 1
        BY <2>2, Zenon
      <4> QED
        BY ONLY <4>1
    <3>2. Holds(s, (1 + L) + X, g)
      BY <1>16, <1>19
    <3>3. At(s, (1 + L) + X) = " "
      BY <2>2, <3>1, <3>2, HoldsFirst
    <3> QED
      BY <1>21, <3>3
  <2> QED
    BY <2>1, <2>2, SpaceFacts, Zenon
<1>23. /\ atoi(s, 1 + L) = ToInt(Meaning(x)) /\ Meaning(x) \in Int
       /\ Skip(s, SkipOne(s, 1 + L, "-"), DigitsOf(DEC)) = (1 + L) + X
       /\ At(s, 1 + L) # " "
  <2>1. Holds(s, 1 + L, sx \o dx) /\ At(s, (1 + L) + Len(sx \o dx)) \notin DigitsOf(DEC)
    BY <1>1, <1>17, <1>22
  <2> DEFINE q == 1 + L
  <2>3. Holds(s, q, sx \o dx) /\ At(s, q + Len(sx \o dx)) \notin DigitsOf(DEC)
    BY <2>1
  <2> HIDE DEF q
  <2>2. /\ atoi(s, q) = ToInt(Meaning(sx \o dx)) /\ Meaning(sx \o dx) \in Int
        /\ Skip(s, SkipOne(s, q, "-"), DigitsOf(DEC)) = q + Len(sx \o dx)
        /\ At(s, q) # " "
    BY <1>1, <2>3, AtoiIs
  <2> QED
    BY <1>1, <2>2 DEF q
<1>24. Holds(s, p + 1 + H, y) /\ At(s, (p + 1 + H) + Len(y)) = "NUL"
  BY <1>12, <1>13, <1>19
<1>25. /\ atoi(s, p + 1 + H) = ToInt(Meaning(y)) /\ Meaning(y) \in Int
       /\ At(s, p + 1 + H) # " "
  <2> DEFINE q == p + 1 + H
  <2>1. Holds(s, q, sy \o dy) /\ At(s, q + Len(sy \o dy)) \notin DigitsOf(DEC)
    BY <1>2, <1>21, <1>24
  <2> HIDE DEF q
  <2>2. /\ atoi(s, q) = ToInt(Meaning(sy \o dy)) /\ Meaning(sy \o dy) \in Int
        /\ At(s, q) # " "
    BY <1>2, <2>1, AtoiIs
  <2> QED
    BY <1>2, <2>2 DEF q
<1>26. Skip(s, 1, {" "}) = 1 + L
  BY <1>17, <1>23, SkipSpaces
<1>27. Skip(s, (1 + L) + X, {" "}) = p
  <2>1. Holds(s, (1 + L) + X, g) /\ ((1 + L) + X) + G = p
    BY <1>16, <1>19
  <2>2. At(s, ((1 + L) + X) + G) # " "
    BY <1>20, <2>1
  <2> QED
    BY <2>1, <2>2, SkipSpaces
<1>28. Skip(s, p + 1, {" "}) = p + 1 + H
  <2>1. Holds(s, p + 1, h)
    BY <1>14, <1>19
  <2> QED
    BY <1>25, <2>1, SkipSpaces
<1>29. OperatorAt(s) = p
  BY <1>23, <1>26, <1>27 DEF OperatorAt
<1>30. atoi(s, 1) = IF lead = <<>> THEN ToInt(Meaning(x)) ELSE 0
  <2>1. CASE lead = <<>> /\ Len(lead) = 0
    <3>1. L = 0
      BY <2>1
    <3>2. 1 + L = 1
      BY <3>1
    <3> QED
      BY <1>23, <2>1, <3>2
  <2>2. CASE lead # <<>> /\ Len(lead) = 1 /\ lead[1] = " "
    <3>1. Len(lead) # 0
      <4>1. Len(lead) = 1
        BY <2>2, Zenon
      <4> QED
        BY ONLY <4>1
    <3>2. At(s, 1) = " "
      BY <1>17, <2>2, <3>1, HoldsFirst
    <3>3. Run(s, 1, 0, DigitsOf(DEC))
      <4>1. Len(s) \in Nat /\ 1 + 0 = 1
        BY <1>11, LenProperties
      <4>2. At(s, 1 + 0) \notin DigitsOf(DEC)
        BY <1>21, <3>2, <4>1
      <4>3. \A k \in 1..0 : s[1 + k - 1] \in DigitsOf(DEC)
        OBVIOUS
      <4>4. 1 + 0 <= Len(s) + 1
        BY ONLY <4>1
      <4> QED
        BY <4>1, <4>2, <4>3, <4>4 DEF Run
    <3> DEFINE f == [k \in 0..0 |-> 0]
    <3>4. SumsAt(f, s, 1, 0, DEC) /\ f[0] = 0
      BY DEF SumsAt
    <3> HIDE DEF f
    <3>5. Accumulate(s, 1, DEC) = 0 % WORD
      BY <1>3, <3>3, <3>4, AccumulateIs
    <3>6. 0 % WORD = 0 /\ 0 \in Ints /\ 0 \in Int
      <4>1. WORD \in Nat \ {0} /\ Max32 \in Nat /\ Min32 = -(Max32 + 1)
        BY WordFacts
      <4>2. 0 % WORD = 0
        BY ONLY <4>1, SmallMod
      <4> QED
        BY <4>1, <4>2 DEF Ints
    <3>7. ToInt(0) = 0
      BY ONLY <3>6, ToIntFacts
    <3>8. atoi(s, 1) = ToInt(0)
      BY <3>2, <3>5, <3>6 DEF atoi, SkipOne
    <3> QED
      BY <2>2, <3>7, <3>8
  <2> QED
    BY <2>1, <2>2, SpaceFacts, Zenon
<1> HIDE DEF p, L, X, G, H
<1>31. cmd_calc(s) = Answer(atoi(s, 1), op, ToInt(Meaning(y)))
  <2>1. op # "NUL"
    OBVIOUS
  <2>2. atoi(s, Skip(s, IF op = "NUL" THEN p ELSE p + 1, {" "})) = ToInt(Meaning(y))
    BY <1>25, <1>28, <2>1
  <2>3. op \notin {"+", "-", "*", "/"} <=> op = "x"
    OBVIOUS
  <2> QED
    BY <1>20, <1>29, <2>2, <2>3 DEF cmd_calc, Answer
<1> QED
  BY <1>23, <1>25, <1>30, <1>31

-----------------------------------------------------------------------------
(* Addresses.                                                              *)

\* Dividing twice is dividing by the product.
LEMMA NestedDiv ==
  ASSUME NEW x \in Nat, NEW a \in Nat \ {0}, NEW b \in Nat \ {0}
  PROVE  (x \div a) \div b = x \div (a * b)
<1> DEFINE q == x \div a
           p == q \div b
           r == x \div (a * b)
<1>1. a * b \in Nat \ {0} /\ x \in Int
  OBVIOUS
<1>2. q \in Int
  BY DivModFacts
<1>3. p \in Int
  <2> HIDE DEF q
  <2> QED
    BY ONLY <1>2, b \in Nat \ {0}, DivModFacts
<1>4. r \in Int
  BY ONLY <1>1, DivModFacts
<1>5. ASSUME NEW k \in Int PROVE k <= p <=> k <= r
  <2>1. k * b \in Int /\ (k * b) * a = k * (a * b)
    OBVIOUS
  <2>2. k <= p <=> k * b <= q
    <3> HIDE DEF q
    <3> QED
      BY ONLY <1>2, k \in Int, b \in Nat \ {0}, DivGalois
  <2>3. k * b <= q <=> (k * b) * a <= x
    BY ONLY <1>1, <2>1, a \in Nat \ {0}, DivGalois
  <2>4. k <= r <=> k * (a * b) <= x
    BY ONLY <1>1, k \in Int, DivGalois
  <2> QED
    BY ONLY <2>1, <2>2, <2>3, <2>4
<1> HIDE DEF p, r
<1>6. p <= r /\ r <= p
  <2>1. p <= p /\ r <= r
    BY <1>3, <1>4
  <2> QED
    BY ONLY <1>3, <1>4, <1>5, <2>1
<1>7. p = r
  BY ONLY <1>3, <1>4, <1>6
<1> QED
  BY <1>7 DEF p, q, r

\* The digits print_hex writes denote the word: after k of them the value is
\* n without its lower digits.
LEMMA HexDigitsOf ==
  ASSUME NEW n \in 0..(WORD - 1)
  PROVE  /\ Hex(n) \in [1..HexDigits -> {Digit[k] : k \in 1..HEX}]
         /\ Value(Hex(n), HEX) = n
<1> DEFINE W(k) == Power[HexDigits - k]
           f == [k \in 0..HexDigits |-> n \div W(k)]
           c(k) == (n \div W(k)) % HEX
<1>1. HexDigits \in Nat \ {0} /\ HEX \in Nat \ {0} /\ HEX \in 2..16
  BY BaseAssumption
<1>2. WORD \in Nat \ {0} /\ n \in Nat /\ n < WORD
  BY WordFacts
<1>3. ASSUME NEW k \in 0..HexDigits PROVE W(k) \in Nat \ {0}
  <2>1. HexDigits - k \in 0..HexDigits
    BY <1>1
  <2> QED
    BY <2>1, PowerFacts
<1>4. ASSUME NEW k \in 1..HexDigits PROVE W(k - 1) = W(k) * HEX
  <2>1. HexDigits - (k - 1) \in 1..HexDigits /\ (HexDigits - (k - 1)) - 1 = HexDigits - k
    BY <1>1
  <2>2. W(k - 1) = HEX * W(k)
    BY <2>1, PowerFacts
  <2>3. W(k) \in Nat
    BY <1>1, <1>3
  <2> HIDE DEF W
  <2> QED
    BY ONLY <1>1, <2>2, <2>3
<1>5. W(0) = WORD /\ W(HexDigits) = 1
  <2>1. HexDigits - 0 = HexDigits /\ HexDigits - HexDigits = 0
    BY <1>1
  <2> QED
    BY <2>1, PowerFacts DEF WORD
<1> HIDE DEF W
<1>6. ASSUME NEW k \in 0..HexDigits PROVE n \div W(k) \in Nat
  BY <1>2, <1>3, DivNat
<1>7. ASSUME NEW k \in 0..HexDigits PROVE c(k) \in 0..(HEX - 1)
  <2>1. n \div W(k) \in Nat
    BY <1>6
  <2> QED
    BY ONLY <1>1, <2>1, DivNat
<1>8. ASSUME NEW k \in 1..HexDigits
      PROVE  n \div W(k) = (n \div W(k - 1)) * HEX + c(k)
  <2> DEFINE q == n \div W(k)
  <2>1. k \in 0..HexDigits
    BY <1>1
  <2>2. W(k) \in Nat \ {0} /\ q \in Nat
    BY <1>3, <1>6, <2>1
  <2>3. q \div HEX = n \div (W(k) * HEX)
    BY ONLY <1>1, <1>2, <2>2, NestedDiv
  <2>4. q \div HEX = n \div W(k - 1)
    BY <1>4, <2>3
  <2>6. c(k) = q % HEX
    OBVIOUS
  <2> HIDE DEF q, c
  <2>8. q \in Int /\ HEX \in Nat \ {0}
    BY <1>1, <2>2
  <2>5. q = HEX * (q \div HEX) + (q % HEX) /\ q \div HEX \in Int
    BY ONLY <2>8, DivModFacts
  <2>7. q = (q \div HEX) * HEX + (q % HEX)
    BY ONLY <1>1, <2>5
  <2> QED
    BY <2>4, <2>6, <2>7 DEF q
<1>9. f \in [0..HexDigits -> Nat] /\ f[0] = 0 /\ f[HexDigits] = n
  <2>1. n \div WORD = 0
    <3>1. 0 * WORD + n = n /\ n \in 0..(WORD - 1) /\ 0 \in Int
      BY <1>2
    <3>2. (0 * WORD + n) \div WORD = 0
      BY ONLY <1>2, <3>1, DivModUnique
    <3> QED
      BY <3>1, <3>2
  <2>2. n \div 1 = n
    BY <1>2
  <2>3. f \in [0..HexDigits -> Nat]
    BY <1>6
  <2>4. f[0] = n \div W(0) /\ f[HexDigits] = n \div W(HexDigits)
    BY <1>1
  <2> HIDE DEF f
  <2> QED
    BY <1>5, <2>1, <2>2, <2>3, <2>4
<1> DEFINE a == Hex(n)
<1>10. a = [k \in 1..HexDigits |-> Digit[c(k) + 1]]
  BY DEF Hex, W
<1>11. ASSUME NEW k \in 1..HexDigits
       PROVE  /\ a[k] \in DigitsOf(HEX) /\ a[k] \in {Digit[x] : x \in 1..HEX}
              /\ DigitValue(a[k]) = c(k)
  <2>1. c(k) \in 0..(HEX - 1)
    BY <1>1, <1>7
  <2>2. a[k] = Digit[c(k) + 1]
    BY <1>10
  <2> HIDE DEF c, a
  <2>3. c(k) + 1 \in 1..HEX /\ c(k) + 1 \in 1..16 /\ (c(k) + 1) - 1 = c(k)
    BY <1>1, <2>1
  <2>4. DigitValue(a[k]) = (c(k) + 1) - 1
    BY <2>2, <2>3, DigitFacts
  <2>5. a[k] \in DigitsOf(HEX) /\ a[k] \in {Digit[x] : x \in 1..HEX}
    BY <2>2, <2>3 DEF DigitsOf
  <2> QED
    BY <2>3, <2>4, <2>5
<1>12. a \in Seq(DigitsOf(HEX)) /\ Len(a) = HexDigits /\ a \in [1..HexDigits -> {Digit[x] : x \in 1..HEX}]
  <2>1. a \in [1..HexDigits -> DigitsOf(HEX)] /\ a \in [1..HexDigits -> {Digit[x] : x \in 1..HEX}]
    BY <1>10, <1>11
  <2> HIDE DEF a
  <2>2. a \in Seq(DigitsOf(HEX)) /\ Len(a) = HexDigits
    <3>1. a \in [1..HexDigits -> DigitsOf(HEX)] /\ HexDigits \in Nat
      BY <1>1, <2>1
    <3> QED
      BY ONLY <3>1
  <2> QED
    BY <2>1, <2>2
<1>13. ASSUME NEW k \in 1..HexDigits PROVE f[k] = f[k - 1] * HEX + DigitValue(a[k])
  <2>1. k \in 0..HexDigits /\ k - 1 \in 0..HexDigits
    BY <1>1
  <2>2. f[k] = n \div W(k) /\ f[k - 1] = n \div W(k - 1)
    BY <2>1
  <2> HIDE DEF f, a, c
  <2> QED
    BY <1>8, <1>11, <2>2
<1> HIDE DEF f, a
<1>14. Sums(f, a, HEX)
  BY <1>9, <1>12, <1>13 DEF Sums
<1>15. Value(a, HEX) = f[Len(a)]
  BY <1>12, <1>14, ValueUnique
<1> QED
  BY <1>9, <1>12, <1>15 DEF a

\* The lines that TypesAddress means.
AddressForm(s, a) ==
  \E lead, behind \in Spaces, prefix \in Prefixes : s = lead \o prefix \o a \o behind

\* atoi_hex reads the digits of an address in any of the forms: their value,
\* in a word.
LEMMA AddressLine ==
  ASSUME NEW a \in Typed(HEX), NEW s, AddressForm(s, a)
  PROVE  Value(a, HEX) \in Nat /\ atoi_hex(s) = Value(a, HEX) % WORD
<1>0. PICK lead \in Spaces, behind \in Spaces, prefix \in Prefixes :
             s = lead \o prefix \o a \o behind
  BY DEF AddressForm
<1> DEFINE m == Len(a)
<1>1. HEX \in 1..16 /\ HEX \in 0..16 /\ m \in Nat \ {0}
  BY BaseAssumption, TypedDigits
<1>2. a \in Seq(DigitsOf(HEX)) /\ Len(a) = m
  BY TypedDigits
<1> HIDE DEF m
<1>3. s = ((lead \o prefix) \o a) \o behind
  BY <1>0
<1>4. a \in Seq(Chars) /\ lead \in Seq(Chars) /\ behind \in Seq(Chars) /\ prefix \in Seq(Chars)
  BY <1>1, <1>2, Pieces, SeqSubset
<1> DEFINE a1 == lead \o prefix
           a2 == a1 \o a
<1>5. a1 \in Seq(Chars) /\ Len(a1) = Len(lead) + Len(prefix)
  BY <1>4, ConcatProperties
<1>6. a2 \in Seq(Chars) /\ Len(a2) = Len(a1) + Len(a)
  <2> HIDE DEF a1
  <2> QED
    BY <1>4, <1>5, ConcatProperties
<1>7. s = a2 \o behind
  BY <1>3
<1> HIDE DEF a2
<1>8. s \in Seq(Chars) /\ Len(s) = Len(a2) + Len(behind)
  BY <1>4, <1>6, <1>7, ConcatProperties
<1>9. Holds(s, 1, s) /\ At(s, 1 + Len(s)) = "NUL"
  BY <1>8, HoldsLine
<1>10. Holds(s, 1, a2) /\ Holds(s, 1 + Len(a2), behind)
  BY <1>4, <1>6, <1>7, <1>9, HoldsSplit
<1>11. Holds(s, 1, a1) /\ Holds(s, 1 + Len(a1), a)
  <2> HIDE DEF a1
  <2>1. a2 = a1 \o a
    BY DEF a2
  <2> QED
    BY <1>4, <1>5, <1>10, <2>1, HoldsSplit
<1>12. Holds(s, 1, lead) /\ Holds(s, 1 + Len(lead), prefix)
  BY <1>4, <1>11, HoldsSplit
<1> HIDE DEF a1
<1> DEFINE i == 1 + Len(lead)
           j == i + Len(prefix)
<1>13. Len(lead) \in Nat /\ Len(prefix) \in Nat /\ Len(behind) \in Nat
  BY <1>4, LenProperties
<1>14. /\ 1 + Len(a1) = j /\ 1 + Len(a2) = j + m
       /\ 1 + Len(s) = (j + m) + Len(behind)
  BY <1>1, <1>2, <1>5, <1>6, <1>8, <1>13
<1>15. DigitsOf(HEX) \cap {" ", "-", "+", "*", "/", "x", "X", "NUL"} = {}
  BY <1>1, NoDigits
<1>16. At(s, j + m) \in {" ", "NUL"}
  <2>1. CASE Len(behind) = 0
    <3>1. j + m = 1 + Len(s)
      BY <1>1, <1>13, <1>14, <2>1
    <3> QED
      BY <1>9, <3>1
  <2>2. CASE Len(behind) = 1 /\ behind[1] = " "
    <3>1. Len(behind) # 0
      <4>1. Len(behind) = 1
        BY <2>2, Zenon
      <4> QED
        BY ONLY <4>1
    <3>2. Holds(s, j + m, behind)
      BY <1>10, <1>14
    <3>3. At(s, j + m) = " "
      BY <2>2, <3>1, <3>2, HoldsFirst
    <3> QED
      BY <3>3
  <2> QED
    BY <2>1, <2>2, SpaceFacts, Zenon
<1>17. Holds(s, j, a)
  BY <1>11, <1>14
<1>18. Holds(s, i, prefix) /\ i \in Nat \ {0} /\ j \in Nat \ {0}
  BY <1>12, <1>13
<1>19. At(s, j) \in DigitsOf(HEX)
  <2>1. 1 \in 1..Len(a) /\ Len(a) # 0
    BY <1>1, <1>2
  <2>2. a[1] \in DigitsOf(HEX)
    BY <1>2, <2>1, ElementOfSeq
  <2>3. At(s, j) = a[1]
    BY <1>17, <2>1, HoldsFirst
  <2> QED
    BY <2>2, <2>3
<1>20. At(s, j + 1) \notin {"x", "X"}
  <2>1. CASE m = 1
    BY <1>16, <2>1
  <2>2. CASE m # 1
    <3>1. 2 \in 1..Len(a)
      BY <1>1, <1>2, <2>2
    <3>2. a[2] \in DigitsOf(HEX)
      BY <1>2, <3>1, ElementOfSeq
    <3>3. s[j + 2 - 1] = a[2] /\ j + 2 - 1 = j + 1 /\ j + 1 <= Len(s)
      <4>1. s[j + 2 - 1] = a[2]
        BY <1>17, <3>1 DEF Holds
      <4>2. j + Len(a) <= Len(s) + 1 /\ Len(s) \in Nat /\ Len(a) \in Nat
        BY <1>17 DEF Holds
      <4>3. j + 2 - 1 = j + 1 /\ j + 1 <= Len(s)
        BY <1>18, <3>1, <4>2
      <4> QED
        BY <4>1, <4>3
    <3>4. At(s, j + 1) = a[2]
      BY <3>3 DEF At
    <3> QED
      BY <1>15, <3>2, <3>4
  <2> QED
    BY <2>1, <2>2
<1> HIDE DEF i, j
<1>21. /\ IF At(s, i) = "0" /\ At(s, i + 1) \in {"x", "X"} THEN i + 2 = j ELSE i = j
       /\ At(s, i) # " "
  <2>1. CASE prefix = <<>>
    <3>1. i = j
      <4>1. Len(prefix) = 0
        BY <2>1
      <4> QED
        BY <1>18, <4>1 DEF j
    <3> QED
      BY <1>15, <1>19, <1>20, <3>1
  <2>2. ASSUME NEW x \in {"x", "X"}, prefix = <<"0", x>>
        PROVE  At(s, i) = "0" /\ At(s, i + 1) = x /\ i + 2 = j
    <3>1. Len(prefix) = 2
      BY <2>2
    <3>2. prefix[1] = "0" /\ prefix[2] = x
      BY <2>2
    <3>3. i + 2 = j
      BY ONLY <3>1 DEF j
    <3>4. i + 2 <= Len(s) + 1 /\ Len(s) \in Nat
      BY <1>18, <3>1 DEF Holds
    <3>5. i <= Len(s) /\ i + 1 <= Len(s) /\ i + 1 - 1 = i /\ i + 2 - 1 = i + 1
      BY <1>18, <3>4
    <3>6. 1 \in 1..Len(prefix) /\ 2 \in 1..Len(prefix)
      BY <3>1
    <3>7. s[i + 1 - 1] = prefix[1] /\ s[i + 2 - 1] = prefix[2]
      BY <1>18, <3>6 DEF Holds
    <3> QED
      BY <3>2, <3>3, <3>5, <3>7 DEF At
  <2> QED
    BY <2>1, <2>2 DEF Prefixes
<1>22. Skip(s, 1, {" "}) = i
  <2>1. At(s, 1 + Len(lead)) # " "
    BY <1>21 DEF i
  <2> QED
    BY <1>12, <2>1, SkipSpaces DEF i
<1>23. atoi_hex(s) = Accumulate(s, j, HEX)
  BY <1>21, <1>22 DEF atoi_hex
<1>24. PICK f : Sums(f, a, HEX) /\ Value(a, HEX) = f[m]
  BY <1>2, ValueIs
<1>25. \A k \in 1..m : s[j + k - 1] = a[k] /\ a[k] \in DigitsOf(HEX)
  BY <1>2, <1>17, ElementOfSeq DEF Holds
<1>26. SumsAt(f, s, j, m, HEX)
  BY <1>2, <1>24, <1>25 DEF SumsAt, Sums
<1>27. Run(s, j, m, DigitsOf(HEX))
  <2>1. Len(s) \in Nat /\ j + m <= Len(s) + 1
    BY <1>2, <1>17 DEF Holds
  <2>2. At(s, j + m) \notin DigitsOf(HEX)
    BY <1>15, <1>16
  <2> QED
    BY <1>1, <1>18, <1>25, <2>1, <2>2 DEF Run
<1>28. Accumulate(s, j, HEX) = f[m] % WORD
  BY <1>1, <1>26, <1>27, AccumulateIs
<1>29. Value(a, HEX) \in Nat
  BY <1>2, ValueType
<1> QED
  BY <1>23, <1>24, <1>28, <1>29

-----------------------------------------------------------------------------
(* calc.                                                                   *)

\* The only quotient of ints that is no int.
LEMMA QuotientFacts ==
  ASSUME NEW a \in Ints, NEW b \in Ints, b # 0
  PROVE  /\ Quotient(a, b) \in Int
         /\ Quotient(a, b) \notin Ints => a = Min32 /\ b = -1
<1> DEFINE m == IF a < 0 THEN -a ELSE a
           d == IF b < 0 THEN -b ELSE b
           q == m \div d
<1>1. Max32 \in Nat /\ Min32 = -(Max32 + 1) /\ a \in Int /\ b \in Int
  BY WordFacts DEF Ints
<1>2. m \in Nat /\ m <= Max32 + 1 /\ d \in Nat \ {0}
  BY <1>1 DEF Ints
<1>3. /\ m = Max32 + 1 /\ a < 0 => a = Min32
      /\ m = Max32 + 1 => a < 0
      /\ d = 1 /\ b < 0 => b = -1
  BY <1>1 DEF Ints
<1>4. Quotient(a, b) = IF (a < 0) = (b < 0) THEN q ELSE -q
  BY DEF Quotient
<1> HIDE DEF m, d
<1>5. q \in Nat /\ m = d * q + (m % d) /\ m % d \in Nat
  <2>1. m \in Int /\ d \in Nat \ {0}
    BY <1>2
  <2>2. m = d * q + (m % d) /\ m % d \in 0..(d - 1)
    BY ONLY <2>1, DivModFacts
  <2>3. q \in Nat
    BY ONLY <1>2, DivNat
  <2> QED
    BY <2>2, <2>3
<1>6. q <= m /\ (d # 1 => 2 * q <= m)
  <2>1. 1 * q <= d * q /\ (d # 1 => 2 * q <= d * q)
    <3> HIDE DEF q
    <3>1. d * q \in Nat
      BY <1>2, <1>5
    <3>2. q * 1 <= q * d
      BY <1>2, <1>5
    <3>3. d # 1 => q * 2 <= q * d
      BY <1>2, <1>5
    <3>4. q * d = d * q /\ q * 1 = 1 * q /\ q * 2 = 2 * q
      BY <1>2, <1>5
    <3> QED
      BY <3>2, <3>3, <3>4
  <2> HIDE DEF q
  <2>2. d * q \in Nat
    BY <1>2, <1>5
  <2> DEFINE e == d * q
  <2>3. e \in Nat /\ 1 * q <= e /\ (d # 1 => 2 * q <= e) /\ m = e + (m % d) /\ m % d \in Nat
    BY <1>5, <2>1, <2>2
  <2> HIDE DEF e
  <2> QED
    BY <1>2, <1>5, <2>3
<1> HIDE DEF q
<1>7. Quotient(a, b) \in Int
  BY <1>4, <1>5
<1>8. ASSUME Quotient(a, b) \notin Ints PROVE a = Min32 /\ b = -1
  <2>1. q > Max32 /\ (a < 0) = (b < 0)
    BY <1>1, <1>2, <1>4, <1>5, <1>6, <1>8 DEF Ints
  <2>2. m = Max32 + 1 /\ d = 1
    BY <1>1, <1>2, <1>5, <1>6, <2>1
  <2> QED
    BY <1>3, <2>1, <2>2
<1> QED
  BY <1>7, <1>8

\* What cmd_calc answers to a, op and b.
LEMMA AnswerFacts ==
  ASSUME NEW a \in Ints, NEW b \in Ints, NEW op \in {"+", "-", "*", "/", "x"}
  PROVE  /\ op # "x" /\ (op = "/" => b # 0) /\ Exact(a, op, b) \in Ints \ {Min32}
              => /\ IsNumeral(Answer(a, op, b))
                 /\ Meaning(Answer(a, op, b)) = Exact(a, op, b)
         /\ op = "/" /\ b = 0 => Answer(a, op, b) = <<"divide by zero">>
         /\ Answer(a, op, b) = <<"HALT">> => op = "/" /\ a = Min32 /\ b = -1
<1> DEFINE e == Exact(a, op, b)
           A == Answer(a, op, b)
<1>1. a \in Int /\ b \in Int
  BY WordFacts DEF Ints
<1>2. CASE op = "x"
  <2>1. A = <<"usage">>
    BY <1>2 DEF Answer
  <2>2. <<"usage">> # <<"HALT">>
    OBVIOUS
  <2> QED
    BY <1>2, <2>1, <2>2
<1>3. CASE op = "/" /\ b = 0
  <2>1. A = <<"divide by zero">>
    BY <1>3 DEF Answer
  <2>2. <<"divide by zero">> # <<"HALT">>
    OBVIOUS
  <2> QED
    BY <1>3, <2>1, <2>2
<1>4. CASE op = "/" /\ b # 0 /\ Traps(a, b)
  <2>1. e = Quotient(a, b)
    BY <1>4 DEF Exact
  <2>2. Quotient(a, b) \notin Ints
    BY <1>4 DEF Traps
  <2> QED
    BY <1>4, <2>1, <2>2, QuotientFacts
<1>5. CASE op # "x" /\ (op = "/" => b # 0 /\ ~Traps(a, b))
  <2>1. A = print_int(ToInt(e))
    BY <1>5 DEF Answer
  <2>2. e \in Int
    <3>1. CASE op = "/"
      BY <1>5, <3>1, QuotientFacts DEF Exact
    <3>2. CASE op = "*"
      BY <1>1, <3>2 DEF Exact
    <3>3. CASE op \in {"+", "-"}
      BY <1>1, <3>3 DEF Exact
    <3> QED
      BY <1>5, <3>1, <3>2, <3>3
  <2> HIDE DEF e, A
  <2>3. ToInt(e) \in Ints /\ (e \in Ints => ToInt(e) = e)
    BY <2>2, ToIntFacts
  <2>4. A[1] # "HALT"
    BY <2>1, <2>3, PrintInt
  <2>5. A # <<"HALT">>
    BY <2>4
  <2>6. e \in Ints \ {Min32} => IsNumeral(A) /\ Meaning(A) = e
    BY <2>1, <2>3, PrintInt
  <2> QED
    BY <1>5, <2>5, <2>6 DEF e, A
<1> QED
  BY <1>2, <1>3, <1>4, <1>5

-----------------------------------------------------------------------------
(* The console.                                                            *)

\* What was typed stays, and what is shown, once something is, is what the
\* command makes of it.
IInv ==
  /\ TypesExpression \/ TypesAddress
  /\ shown = <<>> \/ shown = IF asked.kind = "calc" THEN cmd_calc(line)
                                                    ELSE print_hex(atoi_hex(line))

THEOREM Invariance == Spec => []IInv
<1>1. Init => IInv
  BY DEF Init, IInv
<1>2. IInv /\ [Next]_vars => IInv'
  <2> SUFFICES ASSUME IInv, [Next]_vars PROVE IInv'
    OBVIOUS
  <2>1. asked' = asked /\ line' = line
    BY DEF Next, shell_calc, shell_address, vars
  <2>2. (TypesExpression \/ TypesAddress)'
    <3> DEFINE E(a, l) ==
          \E x, y \in Numerals, op \in {"+", "-", "*", "/", "x"}, lead, g, h \in Spaces :
            /\ a = [kind |-> "calc", x |-> Meaning(x), op |-> op, y |-> Meaning(y),
                    lead |-> lead # <<>>]
            /\ l = lead \o x \o g \o <<op>> \o h \o y
    <3>1. TypesExpression => TypesExpression'
      <4>1. (TypesExpression <=> E(asked, line)) /\ (TypesExpression' <=> E(asked', line'))
        BY Zenon DEF TypesExpression
      <4> HIDE DEF E
      <4> QED
        BY <2>1, <4>1
    <3>2. TypesAddress => TypesAddress'
      BY <2>1, Zenon DEF TypesAddress
    <3> QED
      BY <3>1, <3>2 DEF IInv
  <2>3. CASE shell_calc
    BY <2>1, <2>2, <2>3 DEF IInv, shell_calc
  <2>4. CASE shell_address
    <3>1. asked.kind # "calc"
      BY <2>4 DEF shell_address
    <3> QED
      BY <2>1, <2>2, <2>4, <3>1 DEF IInv, shell_address
  <2>5. CASE UNCHANGED vars
    BY <2>2, <2>5 DEF IInv, vars
  <2> QED
    BY <2>3, <2>4, <2>5 DEF Next
<1> QED
  BY <1>1, <1>2, PTL DEF Spec

\* The console shows what was meant, in every base, word and length of the
\* numerals: atoi, atoi_hex, cmd_calc, print_int and print_hex together are
\* exact, with the exceptions that NumbersExact names.
THEOREM NumbersExactThm == Spec => []NumbersExact
<1>1. IInv => NumbersExact
  <2> SUFFICES ASSUME IInv, shown # <<>> PROVE NumbersExact
    BY DEF NumbersExact
  <2>1. CASE TypesAddress
    <3>1. PICK a \in Typed(HEX) : asked = [kind |-> "address", n |-> Value(a, HEX)] /\ AddressForm(line, a)
      BY <2>1, Zenon DEF TypesAddress, AddressForm
    <3> DEFINE n == Value(a, HEX)
    <3>2. asked.kind = "address" /\ asked.kind # "calc" /\ asked.n = n
      BY <3>1
    <3>3. n \in Nat /\ atoi_hex(line) = n % WORD
      BY <3>1, AddressLine
    <3> HIDE DEF n
    <3>4. ASSUME n < WORD
          PROVE  \E digits \in [1..HexDigits -> {Digit[k] : k \in 1..HEX}] :
                   shown = <<"0", "x">> \o digits /\ Value(digits, HEX) = n
      <4>1. WORD \in Nat \ {0}
        BY WordFacts
      <4>2. n % WORD = n /\ n \in 0..(WORD - 1)
        <5>1. n % WORD = n
          BY ONLY <3>3, <3>4, <4>1, SmallMod
        <5> QED
          BY <3>3, <3>4, <4>1, <5>1
      <4>3. shown = <<"0", "x">> \o Hex(n)
        BY <3>2, <3>3, <4>2 DEF IInv, print_hex
      <4> QED
        BY <4>2, <4>3, HexDigitsOf
    <3> QED
      BY <3>2, <3>4 DEF NumbersExact
  <2>2. CASE TypesExpression
    <3>1. PICK x \in Numerals, y \in Numerals, op \in {"+", "-", "*", "/", "x"}, lead \in Spaces :
                 /\ asked = [kind |-> "calc", x |-> Meaning(x), op |-> op, y |-> Meaning(y),
                             lead |-> lead # <<>>]
                 /\ ExpressionForm(line, lead, x, op, y)
      BY <2>2, ZenonT(60) DEF TypesExpression, ExpressionForm
    <3>2. /\ asked.kind = "calc" /\ asked.kind # "address" /\ asked.op = op
          /\ asked.x = Meaning(x) /\ asked.y = Meaning(y) /\ asked.lead = (lead # <<>>)
      BY <3>1
    <3> DEFINE a == IF lead = <<>> THEN ToInt(Meaning(x)) ELSE 0
               b == ToInt(Meaning(y))
    <3>3. Meaning(x) \in Int /\ Meaning(y) \in Int /\ cmd_calc(line) = Answer(a, op, b)
      BY <3>1, CalcLine
    <3>4. shown = Answer(a, op, b)
      BY <3>2, <3>3 DEF IInv
    <3>5. /\ ToInt(Meaning(x)) \in Ints /\ (Meaning(x) \in Ints => ToInt(Meaning(x)) = Meaning(x))
          /\ b \in Ints /\ (Meaning(y) \in Ints => b = Meaning(y))
      BY <3>3, ToIntFacts
    <3>6. 0 \in Ints /\ 0 # Min32
      BY WordFacts DEF Ints
    <3>7. a \in Ints /\ (lead = <<>> => a = ToInt(Meaning(x))) /\ (a = Min32 => lead = <<>>)
      BY <3>5, <3>6
    <3> HIDE DEF a, b
    <3>8. /\ op # "x" /\ (op = "/" => b # 0) /\ Exact(a, op, b) \in Ints \ {Min32}
                => IsNumeral(shown) /\ Meaning(shown) = Exact(a, op, b)
          /\ op = "/" /\ b = 0 => shown = <<"divide by zero">>
          /\ shown = <<"HALT">> => op = "/" /\ a = Min32 /\ b = -1
      BY <3>4, <3>5, <3>7, AnswerFacts
    <3>9. Printable(asked) /\ ~asked.lead
             => IsNumeral(shown) /\ Meaning(shown) = Exact(asked.x, asked.op, asked.y)
      <4> SUFFICES ASSUME Printable(asked), ~asked.lead
                   PROVE  IsNumeral(shown) /\ Meaning(shown) = Exact(asked.x, asked.op, asked.y)
        OBVIOUS
      <4>1. /\ Meaning(x) \in Ints /\ Meaning(y) \in Ints /\ op # "x" /\ (op = "/" => Meaning(y) # 0)
            /\ Exact(Meaning(x), op, Meaning(y)) \in Ints \ {Min32} /\ lead = <<>>
        BY <3>2 DEF Printable
      <4>2. a = Meaning(x) /\ b = Meaning(y)
        BY <3>5, <3>7, <4>1
      <4> QED
        BY <3>2, <3>8, <4>1, <4>2
    <3>10. asked.op = "/" /\ asked.y = 0 => shown = <<"divide by zero">>
      BY <3>2, <3>5, <3>6, <3>8
    <3>11. shown = <<"HALT">> => asked.op = "/" /\ ToInt(asked.x) = Min32 /\ ToInt(asked.y) = -1
      BY <3>2, <3>7, <3>8 DEF b
    <3> QED
      BY <3>2, <3>9, <3>10, <3>11 DEF NumbersExact
  <2> QED
    BY <2>1, <2>2 DEF IInv
<1> QED
  BY <1>1, Invariance, PTL
=============================================================================
