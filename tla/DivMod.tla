------------------------------- MODULE DivMod -------------------------------
(***************************************************************************)
(* Facts about division, remainders and multiples that the proofs about    *)
(* the heap and about physical memory share.                               *)
(***************************************************************************)
EXTENDS Integers, TLAPS

\* Quotient and remainder.
LEMMA DivModFacts ==
  ASSUME NEW n \in Int, NEW m \in Nat \ {0}
  PROVE  /\ n = m * (n \div m) + (n % m)
         /\ n % m \in 0..(m - 1)
         /\ n \div m \in Int
OBVIOUS

\* A multiple leaves no remainder.
LEMMA MultipleMod ==
  ASSUME NEW k \in Int, NEW m \in Nat \ {0}
  PROVE  (k * m) % m = 0
OBVIOUS

\* The larger factor gives the larger multiple.
LEMMA MultipleOrder ==
  ASSUME NEW p \in Int, NEW q \in Int, NEW m \in Nat \ {0}
  PROVE  p <= q <=> p * m <= q * m
OBVIOUS

\* Sums and differences of multiples are multiples.
LEMMA SumMod ==
  ASSUME NEW x \in Int, NEW y \in Int, NEW m \in Nat \ {0}, x % m = 0, y % m = 0
  PROVE  (x + y) % m = 0 /\ (x - y) % m = 0
<1> DEFINE p == x \div m
           q == y \div m
<1>1. x = p * m /\ y = q * m /\ p \in Int /\ q \in Int
  BY DivModFacts
<1> HIDE DEF p, q
<1>2. x + y = (p + q) * m /\ x - y = (p - q) * m /\ p + q \in Int /\ p - q \in Int
  BY <1>1
<1> QED
  BY <1>2, MultipleMod

\* A multiple of a multiple is a multiple.
LEMMA TransMod ==
  ASSUME NEW x \in Int, NEW k \in Nat \ {0}, NEW m \in Nat \ {0}, x % k = 0, k % m = 0
  PROVE  x % m = 0
<1> DEFINE p == x \div k
           q == k \div m
<1>1. x = p * k /\ k = q * m /\ p \in Int /\ q \in Int
  BY DivModFacts
<1> HIDE DEF p, q
<1>2. x = (p * q) * m /\ p * q \in Int
  BY <1>1
<1> QED
  BY <1>2, MultipleMod

\* Rounding n up to a multiple of m: the least multiple that is not below n.
LEMMA RoundUpFacts ==
  ASSUME NEW n \in Nat, NEW m \in Nat \ {0}
  PROVE  LET up == ((n + m - 1) \div m) * m
         IN  /\ up \in Nat /\ n <= up /\ up < n + m
             /\ up % m = 0
             /\ \A s \in Nat : s % m = 0 /\ n <= s => up <= s
<1> DEFINE q  == (n + m - 1) \div m
           up == q * m
<1>1. n + m - 1 \in Int
  OBVIOUS
<1>2. q \in Int /\ up <= n + m - 1 /\ n <= up
  BY <1>1, DivModFacts
<1>3. up % m = 0
  BY <1>2, MultipleMod
<1>4. ASSUME NEW s \in Nat, s % m = 0, n <= s
      PROVE  up <= s
  <2> DEFINE p == s \div m
  <2>1. s = p * m /\ p \in Int
    BY <1>4, DivModFacts
  <2> HIDE DEF p, q
  <2>2. SUFFICES ASSUME q >= p + 1 PROVE FALSE
    BY <1>2, <2>1, MultipleOrder
  <2>3. q * m >= (p + 1) * m /\ (p + 1) * m = p * m + m
    BY <1>2, <2>1, <2>2, MultipleOrder
  <2> QED
    BY <1>2, <1>4, <2>1, <2>3
<1> QED
  BY <1>2, <1>3, <1>4

\* The larger number has the larger quotient.
LEMMA DivOrder ==
  ASSUME NEW x \in Int, NEW y \in Int, NEW m \in Nat \ {0}, x <= y
  PROVE  x \div m <= y \div m
<1> DEFINE p == x \div m
           q == y \div m
<1>1. /\ x = p * m + (x % m) /\ y = q * m + (y % m) /\ p \in Int /\ q \in Int
      /\ x % m \in 0..(m - 1) /\ y % m \in 0..(m - 1)
  BY DivModFacts
<1> HIDE DEF p, q
<1>2. ASSUME q < p PROVE FALSE
  <2>1. (q + 1) * m <= p * m /\ (q + 1) * m = q * m + m
    BY <1>1, <1>2, MultipleOrder
  <2>2. q * m \in Int /\ p * m \in Int
    BY <1>1
  <2> QED
    BY <1>1, <2>1, <2>2
<1> QED
  BY <1>1, <1>2 DEF p, q

\* A number below the modulus is its own remainder.
LEMMA SmallMod ==
  ASSUME NEW x \in Nat, NEW m \in Nat \ {0}, x < m
  PROVE  x % m = x
OBVIOUS

\* Quotient and remainder are what multiplying and adding put in.
LEMMA DivModUnique ==
  ASSUME NEW q \in Int, NEW m \in Nat \ {0}, NEW r \in 0..(m - 1)
  PROVE  (q * m + r) \div m = q /\ (q * m + r) % m = r
<1> DEFINE x == q * m + r
           p == x \div m
           s == x % m
<1>1. x \in Int /\ q * m \in Int
  OBVIOUS
<1>3. x = q * m + r
  OBVIOUS
<1> HIDE DEF x
<1>2. x = p * m + s /\ p \in Int /\ s \in 0..(m - 1)
  <2>1. x = m * p + s /\ p \in Int /\ s \in 0..(m - 1)
    BY <1>1, DivModFacts
  <2> HIDE DEF p, s
  <2> QED
    BY <2>1
<1> HIDE DEF p, s
<1>4. ASSUME q < p PROVE FALSE
  <2>1. (q + 1) * m <= p * m /\ (q + 1) * m = q * m + m
    BY <1>2, <1>4, MultipleOrder
  <2> QED
    BY <1>1, <1>2, <1>3, <2>1
<1>5. ASSUME p < q PROVE FALSE
  <2>1. (p + 1) * m <= q * m /\ (p + 1) * m = p * m + m /\ p * m \in Int
    BY <1>2, <1>5, MultipleOrder
  <2> QED
    BY <1>1, <1>2, <1>3, <2>1
<1>6. p = q
  BY <1>2, <1>4, <1>5
<1>7. s = r
  BY <1>1, <1>2, <1>3, <1>6
<1> QED
  BY <1>6, <1>7 DEF x, p, s

\* The quotient is the largest factor whose multiple fits.
LEMMA DivGalois ==
  ASSUME NEW k \in Int, NEW x \in Int, NEW m \in Nat \ {0}
  PROVE  k * m <= x <=> k <= x \div m
<1> DEFINE q == x \div m
           s == x % m
<1>1. x = m * q + s /\ q \in Int /\ s \in 0..(m - 1)
  BY DivModFacts
<1> HIDE DEF q, s
<1>2. k * m \in Int /\ q * m \in Int /\ m * q = q * m /\ (q + 1) * m = q * m + m
  BY <1>1
<1>3. ASSUME k <= q PROVE k * m <= x
  <2>1. k * m <= q * m
    BY <1>1, <1>3, MultipleOrder
  <2> QED
    BY <1>1, <1>2, <2>1
<1>4. ASSUME ~(k <= q), k * m <= x PROVE FALSE
  <2>1. (q + 1) * m <= k * m
    BY <1>1, <1>4, MultipleOrder
  <2> QED
    BY <1>1, <1>2, <1>4, <2>1
<1> QED
  BY <1>3, <1>4 DEF q

\* Dividing a natural number leaves one.
LEMMA DivNat ==
  ASSUME NEW x \in Nat, NEW m \in Nat \ {0}
  PROVE  x \div m \in Nat /\ x % m \in 0..(m - 1)
<1>1. x \div m \in Int /\ x % m \in 0..(m - 1)
  BY DivModFacts
<1>2. 0 * m <= x
  OBVIOUS
<1>3. 0 <= x \div m
  BY <1>2, DivGalois
<1> QED
  BY <1>1, <1>3

\* Adding a multiple of the modulus changes no remainder.
LEMMA ModShift ==
  ASSUME NEW k \in Int, NEW y \in Int, NEW m \in Nat \ {0}
  PROVE  (k * m + y) % m = y % m
<1> DEFINE p == y \div m
           r == y % m
<1>1. y = p * m + r /\ p \in Int /\ r \in 0..(m - 1)
  BY DivModFacts
<1> HIDE DEF p, r
<1>2. k * m + y = (k + p) * m + r /\ k + p \in Int
  BY <1>1
<1>3. ((k + p) * m + r) % m = r
  BY <1>1, <1>2, DivModUnique
<1> QED
  BY <1>2, <1>3 DEF r

\* Reducing the accumulator before a digit is added changes nothing.
SameStep(x, b, d, m) == ((x % m) * b + d) % m = (x * b + d) % m

LEMMA ModStep ==
  ASSUME NEW x \in Nat, NEW b \in Nat, NEW d \in Nat, NEW m \in Nat \ {0}
  PROVE  SameStep(x, b, d, m)
<1> DEFINE p == x \div m
           r == x % m
<1>1. x = p * m + r /\ p \in Int /\ r \in Nat
  BY DivModFacts
<1> HIDE DEF p, r
<1>2. x * b + d = (p * b) * m + (r * b + d) /\ p * b \in Int /\ r * b + d \in Int
  BY <1>1
<1>3. ((p * b) * m + (r * b + d)) % m = (r * b + d) % m
  BY ONLY <1>2, ModShift, m \in Nat \ {0}
<1> QED
  BY <1>2, <1>3 DEF r, SameStep
=============================================================================
