------------------------------ MODULE NatLemmas ------------------------------
(***************************************************************************)
(* What the proofs of SpscQueue, Rewind and Netplay need of numbers.       *)
(***************************************************************************)
EXTENDS Integers, WellFoundedInduction, TLAPS

\* A set of natural numbers that is not empty has a least element.  The proofs
\* by induction take the least number that a claim is false of.
LEMMA LeastNat ==
  ASSUME NEW S \in SUBSET Nat, S # {}
  PROVE  \E m \in S : \A n \in S : m <= n
<1>1. PICK m \in S : \A n \in S : <<n, m>> \notin OpToRel(<, Nat)
  BY NatLessThanWellFounded, WFMin, Zenon
<1>2. ASSUME NEW n \in S PROVE ~(n < m)
  <2>1. <<n, m>> \in Nat \X Nat
    OBVIOUS
  <2>2. n < m => <<n, m>> \in OpToRel(<, Nat)
    BY <2>1, Zenon DEF OpToRel
  <2>3. QED
    BY <2>2, <1>1
<1>3. QED
  BY <1>2

\* The first n + 1 values of the iteration of d from t on.
Iterates(d, t, n, g) ==
  g = [i \in 0..n |-> IF i = 0 THEN t ELSE d[g[i - 1]]]

\* They exist.
LEMMA IteratesExist ==
  ASSUME NEW d, NEW t
  PROVE  \A n \in Nat : \E g : Iterates(d, t, n, g)
<1> DEFINE Bad == { n \in Nat : ~ \E g : Iterates(d, t, n, g) }
<1>1. SUFFICES ASSUME Bad # {} PROVE FALSE
  OBVIOUS
<1>2. PICK n \in Bad : \A m \in Bad : n <= m
  BY <1>1, LeastNat
<1>3. CASE n = 0
  <2>1. Iterates(d, t, 0, [i \in 0..0 |-> t])
    BY DEF Iterates
  <2>2. QED
    BY <2>1, <1>3
<1>4. CASE n # 0
  <2>1. n - 1 \in Nat /\ n - 1 \notin Bad
    BY <1>2, <1>4
  <2>2. PICK g : Iterates(d, t, n - 1, g)
    BY <2>1
  <2> DEFINE h == [i \in 0..n |-> IF i = 0 THEN t ELSE d[g[i - 1]]]
  <2>3. \A i \in 0..n - 1 : h[i] = g[i]
    BY <2>1, <2>2 DEF Iterates
  <2>4. ASSUME NEW i \in 0..n, i # 0 PROVE h[i] = d[h[i - 1]]
    <3>1. i - 1 \in 0..n - 1
      BY <2>4
    <3>2. h[i] = d[g[i - 1]]
      BY <2>4
    <3>3. QED
      BY <2>3, <3>1, <3>2
  <2>5. Iterates(d, t, n, h)
    BY <2>4 DEF Iterates
  <2>6. QED
    BY <2>5
<1>5. QED
  BY <1>3, <1>4

\* They agree.
LEMMA IteratesAgree ==
  ASSUME NEW d, NEW t, NEW m \in Nat, NEW n \in Nat, NEW g, NEW h,
         Iterates(d, t, m, g), Iterates(d, t, n, h)
  PROVE  \A i \in Nat : i <= m /\ i <= n => g[i] = h[i]
<1> DEFINE Bad == { i \in Nat : i <= m /\ i <= n /\ g[i] # h[i] }
<1>1. SUFFICES ASSUME Bad # {} PROVE FALSE
  OBVIOUS
<1>2. PICK i \in Bad : \A j \in Bad : i <= j
  BY <1>1, LeastNat
<1>3. i = 0 \/ (i - 1 \in Nat /\ g[i - 1] = h[i - 1])
  BY <1>2
<1>4. g[i] = (IF i = 0 THEN t ELSE d[g[i - 1]]) /\ h[i] = (IF i = 0 THEN t ELSE d[h[i - 1]])
  <2>1. i \in 0..m /\ i \in 0..n
    BY <1>2
  <2>2. QED
    BY <2>1 DEF Iterates
<1>5. QED
  BY <1>2, <1>3, <1>4

\* f is the iteration of d from t on.
IsIteration(f, d, t) ==
  f = [i \in Nat |-> IF i = 0 THEN t ELSE d[f[i - 1]]]

\* A function that is defined by recursion over the natural numbers, and applies
\* a function d to the value before, exists.
THEOREM IterationExists ==
  ASSUME NEW d, NEW t
  PROVE  \E f : IsIteration(f, d, t)
<1> DEFINE upto(n) == CHOOSE g : Iterates(d, t, n, g)
           f == [n \in Nat |-> upto(n)[n]]
<1>1. \A n \in Nat : Iterates(d, t, n, upto(n))
  BY IteratesExist
<1> HIDE DEF upto
<1>2. ASSUME NEW n \in Nat PROVE f[n] = IF n = 0 THEN t ELSE d[f[n - 1]]
  <2>1. upto(n)[n] = IF n = 0 THEN t ELSE d[upto(n)[n - 1]]
    BY <1>1 DEF Iterates
  <2>2. CASE n # 0
    <3>1. n - 1 \in Nat
      BY <2>2
    <3>2. upto(n)[n - 1] = upto(n - 1)[n - 1]
      BY <3>1, <1>1, IteratesAgree
    <3>3. QED
      BY <2>1, <3>1, <3>2
  <2>3. QED
    BY <2>1, <2>2
<1>3. f = [i \in Nat |-> IF i = 0 THEN t ELSE d[f[i - 1]]]
  BY <1>2
<1>4. QED
  BY <1>3 DEF IsIteration
-----------------------------------------------------------------------------
(* Division with remainder. *)

\* Quotient and remainder.
LEMMA ModDef ==
  ASSUME NEW a \in Int, NEW b \in Nat \ {0}
  PROVE  /\ a % b \in 0..b - 1
         /\ a \div b \in Int
         /\ a = b * (a \div b) + (a % b)
OBVIOUS

\* The remainder is the only one.
LEMMA ModUnique ==
  ASSUME NEW b \in Nat \ {0}, NEW q \in Int, NEW r \in 0..b - 1
  PROVE  (b * q + r) % b = r
OBVIOUS

\* Of a number less than b away from 0.
LEMMA ModSmall ==
  ASSUME NEW b \in Nat \ {0}, NEW a \in Int, -b <= a, a < b
  PROVE  a % b = IF a < 0 THEN a + b ELSE a
OBVIOUS

\* Multiples of the modulus do not count.
LEMMA ModMultiple ==
  ASSUME NEW b \in Nat \ {0}, NEW a \in Int, NEW q \in Int
  PROVE  (a + b * q) % b = a % b
<1> DEFINE k == a \div b
           r == a % b
<1>1. k \in Int /\ r \in 0..b - 1 /\ a = b * k + r
  BY ModDef
<1> HIDE DEF k, r
<1>2. a + b * q = b * (k + q) + r
  BY <1>1
<1>3. (b * (k + q) + r) % b = r
  BY <1>1, ModUnique
<1>4. (b * k + r) % b = r
  BY <1>1, ModUnique
<1>5. QED
  BY <1>1, <1>2, <1>3, <1>4

\* Fewer than b numbers in a row have different remainders.
LEMMA ModDistinct ==
  ASSUME NEW b \in Nat \ {0}, NEW x \in Int, NEW y \in Int, x < y, y < x + b
  PROVE  x % b # y % b
<1> SUFFICES ASSUME x % b = y % b PROVE FALSE
  OBVIOUS
<1>1. PICK k \in Int : x = b * k + (x % b)
  BY ModDef
<1>2. PICK m \in Int : y = b * m + (y % b)
  BY ModDef
<1>3. x % b \in Int
  BY ModDef
<1>4. y - x = b * (m - k)
  BY <1>1, <1>2, <1>3
<1>5. m - k > 0 /\ m - k < 1
  <2>1. m - k <= 0 => b * (m - k) <= 0
    OBVIOUS
  <2>2. m - k >= 1 => b * (m - k) >= b
    OBVIOUS
  <2>3. QED
    BY <1>4, <2>1, <2>2
<1>6. QED
  BY <1>5

\* n places further round a ring of b places.
LEMMA ModPlus ==
  ASSUME NEW b \in Nat \ {0}, NEW x \in Int, NEW n \in Nat, n <= b
  PROVE  (x + n) % b = IF (x % b) + n < b THEN (x % b) + n ELSE (x % b) + n - b
<1> DEFINE k == x \div b
           r == x % b
<1>1. k \in Int /\ r \in 0..b - 1 /\ x = b * k + r
  BY ModDef
<1> HIDE DEF k
<1>2. SUFFICES (x + n) % b = IF r + n < b THEN r + n ELSE r + n - b
  OBVIOUS
<1> HIDE DEF r
<1>3. CASE r + n < b
  <2>1. x + n = b * k + (r + n)
    BY <1>1
  <2>2. r + n \in 0..b - 1
    BY <1>1, <1>3
  <2>3. QED
    BY <2>1, <2>2, <1>1, <1>3, ModUnique
<1>4. CASE r + n >= b
  <2>1. x + n = b * (k + 1) + (r + n - b)
    BY <1>1
  <2>2. r + n - b \in 0..b - 1 /\ k + 1 \in Int
    BY <1>1, <1>4
  <2>3. (b * (k + 1) + (r + n - b)) % b = r + n - b
    BY <2>2, ModUnique
  <2>4. QED
    BY <2>1, <2>3, <1>1, <1>4
<1>5. QED
  BY <1>1, <1>3, <1>4

\* Induction, on the set of the numbers that a claim is true of.
LEMMA SetInduction ==
  ASSUME NEW S, 0 \in S, \A i \in Nat : i \in S => i + 1 \in S
  PROVE  \A i \in Nat : i \in S
<1> DEFINE Bad == { i \in Nat : i \notin S }
<1>1. SUFFICES ASSUME Bad # {} PROVE FALSE
  OBVIOUS
<1>2. PICK m \in Bad : \A n \in Bad : m <= n
  BY <1>1, LeastNat
<1>3. m # 0 /\ m - 1 \in Nat /\ (m - 1) + 1 = m /\ ~(m <= m - 1)
  BY <1>2
<1>4. m - 1 \in S
  BY <1>2, <1>3
<1>5. QED
  BY <1>2, <1>3, <1>4

\* A product with a natural number grows with the other factor.
LEMMA TimesMonotone ==
  ASSUME NEW b \in Nat, NEW x \in Int, NEW y \in Int, x <= y
  PROVE  b * x <= b * y
OBVIOUS

\* As many times as a number goes into another.
LEMMA DivBound ==
  ASSUME NEW b \in Nat \ {0}, NEW x \in Nat, NEW k \in Int, b * k <= x
  PROVE  k <= x \div b
<1> DEFINE d == x \div b
           r == x % b
<1>1. d \in Int /\ r \in 0..b - 1 /\ x = b * d + r
  BY ModDef
<1> HIDE DEF d, r
<1>2. SUFFICES ASSUME d + 1 <= k PROVE FALSE
  BY <1>1 DEF d
<1>3. b * (d + 1) <= b * k
  BY <1>1, <1>2, TimesMonotone
<1>4. b * (d + 1) = b * d + b
  BY <1>1
<1>5. QED
  BY <1>1, <1>3, <1>4

\* And no oftener.
LEMMA DivBelow ==
  ASSUME NEW b \in Nat \ {0}, NEW x \in Nat, NEW k \in Int, x < b * k
  PROVE  x \div b \in Int /\ x \div b < k
<1> DEFINE d == x \div b
           r == x % b
<1>1. d \in Int /\ r \in 0..b - 1 /\ x = b * d + r
  BY ModDef
<1> HIDE DEF d, r
<1>2. SUFFICES ASSUME k <= d PROVE FALSE
  BY <1>1 DEF d
<1>3. b * k <= b * d
  BY <1>1, <1>2, TimesMonotone
<1>4. QED
  BY <1>1, <1>3
==============================================================================
