-------------------------- MODULE RewindProofs --------------------------
(***************************************************************************)
(* Rewind, proved for every core, every greatest length of a run, every    *)
(* capacity that holds two patches of the greatest length and every        *)
(* sequence of pushes and pops.                                            *)
(***************************************************************************)
EXTENDS Rewind, NatLemmas, SequenceTheorems

(***************************************************************************)
(* The patches: one is no longer than raw_maxsize says, and wherever it    *)
(* lies in memory it turns the new block back into the old one, as long as *)
(* the blocks are shorter than the greatest jump.                          *)
(***************************************************************************)

\* A loop: no turn, and one turn more.
LEMMA AfterDef ==
  ASSUME NEW T, NEW s
  PROVE  /\ After(T, s, 0) = s
         /\ \A n \in Nat : After(T, s, n + 1) = T[After(T, s, n)]
<1> DEFINE g == CHOOSE f : f = [i \in Nat |-> IF i = 0 THEN s ELSE T[f[i - 1]]]
<1>1. g = [i \in Nat |-> IF i = 0 THEN s ELSE T[g[i - 1]]]
  <2>1. IsIteration(CHOOSE f : IsIteration(f, T, s), T, s)
    BY IterationExists
  <2>2. QED
    BY <2>1, Zenon DEF IsIteration
<1>2. \A n : After(T, s, n) = g[n]
  BY DEF After
<1> HIDE DEF g
<1>3. g[0] = s
  BY <1>1
<1>4. ASSUME NEW n \in Nat PROVE g[n + 1] = T[g[n]]
  <2>1. n + 1 \in Nat /\ n + 1 # 0 /\ (n + 1) - 1 = n
    OBVIOUS
  <2>2. QED
    BY <1>1, <2>1
<1>5. QED
  BY <1>2, <1>3, <1>4
-----------------------------------------------------------------------------
(* Where the blocks differ. *)

\* Min is the least element.
LEMMA MinDef ==
  ASSUME NEW S \in SUBSET Nat, S # {}
  PROVE  Min(S) \in S /\ \A x \in S : Min(S) <= x
<1>1. \E x \in S : \A y \in S : x <= y
  BY LeastNat
<1>2. QED
  BY <1>1 DEF Min

\* One sequence behind another.
LEMMA ConcatIs ==
  ASSUME NEW S, NEW p \in Seq(S), NEW q \in Seq(S)
  PROVE  /\ p \o q \in Seq(S) /\ Len(p \o q) = Len(p) + Len(q)
         /\ \A i \in 1..Len(p) : (p \o q)[i] = p[i]
         /\ \A i \in 1..Len(q) : (p \o q)[Len(p) + i] = q[i]
<1>1. /\ p \o q \in Seq(S) /\ Len(p \o q) = Len(p) + Len(q)
      /\ \A i \in 1..(Len(p) + Len(q)) :
           (p \o q)[i] = IF i <= Len(p) THEN p[i] ELSE q[i - Len(p)]
  BY ConcatProperties
<1>2. Len(p) \in Nat /\ Len(q) \in Nat
  OBVIOUS
<1>3. ASSUME NEW i \in 1..Len(q) PROVE (p \o q)[Len(p) + i] = q[i]
  <2>1. Len(p) + i \in 1..(Len(p) + Len(q)) /\ ~(Len(p) + i <= Len(p))
        /\ (Len(p) + i) - Len(p) = i
    BY <1>2
  <2>2. QED
    BY <1>1, <2>1
<1>4. QED
  BY <1>1, <1>2, <1>3

\* A part of a sequence.
LEMMA SliceIs ==
  ASSUME NEW S, NEW p \in Seq(S), NEW m \in Nat, m >= 1, NEW n \in Nat, m + n - 1 <= Len(p)
  PROVE  /\ SubSeq(p, m, m + n - 1) \in Seq(S) /\ Len(SubSeq(p, m, m + n - 1)) = n
         /\ \A k \in 1..n : SubSeq(p, m, m + n - 1)[k] = p[m + k - 1]
OBVIOUS

\* Two blocks of the same length.
Pair(old, new) == old \in Seq(Word) /\ new \in Seq(Word) /\ Len(new) = Len(old)

\* What a block is padded with.
LEMMA PaddedIs ==
  ASSUME NEW block \in Seq(Word), NEW uniq \in {0, 1}
  PROVE  /\ Padded(block, uniq) \in Seq(Word)
         /\ Len(Padded(block, uniq)) = Len(block) + 12
         /\ \A i \in 1..Len(block) : Padded(block, uniq)[i] = block[i]
         /\ \A i \in 1..3 : Padded(block, uniq)[Len(block) + i] = 0
         /\ Padded(block, uniq)[Len(block) + 4] = uniq
<1> DEFINE m == <<0, 0, 0, uniq>>
           e == [i \in 1..8 |-> 0]
<1>1. 0 \in Word /\ 1 \in Word
  BY MaxRunAssumption DEF Word
<1>2. m \in Seq(Word) /\ Len(m) = 4 /\ m[1] = 0 /\ m[2] = 0 /\ m[3] = 0 /\ m[4] = uniq
  BY <1>1
<1>3. e \in Seq(Word) /\ Len(e) = 8
  BY <1>1
<1> HIDE DEF m, e
<1>4. /\ block \o m \in Seq(Word) /\ Len(block \o m) = Len(block) + Len(m)
      /\ \A i \in 1..Len(block) : (block \o m)[i] = block[i]
      /\ \A i \in 1..Len(m) : (block \o m)[Len(block) + i] = m[i]
  <2>1. block \in Seq(Word)
    OBVIOUS
  <2>3. m \in Seq(Word)
    BY <1>2
  <2>2. QED
    BY <2>1, <2>3, ConcatIs
<1> DEFINE bm == block \o m
<1>5. /\ bm \o e \in Seq(Word) /\ Len(bm \o e) = Len(bm) + Len(e)
      /\ \A i \in 1..Len(bm) : (bm \o e)[i] = bm[i]
  <2>1. bm \in Seq(Word)
    BY <1>4
  <2> HIDE DEF bm
  <2>2. QED
    BY ZenonT(40), <1>3, <2>1, ConcatIs
<1>6. Padded(block, uniq) = bm \o e
  BY DEF Padded, m, e
<1>7. Len(block) \in Nat
  OBVIOUS
<1> DEFINE p == Padded(block, uniq)
<1>8. /\ p \in Seq(Word) /\ Len(p) = Len(block) + 12
      /\ \A i \in 1..(Len(block) + 4) : p[i] = bm[i]
  <2>1. Len(bm) = Len(block) + 4
    BY <1>2, <1>4
  <2>2. Len(bm) + Len(e) = Len(block) + 12
    BY <1>3, <1>7, <2>1
  <2> HIDE DEF bm
  <2>3. p \in Seq(Word) /\ Len(p) = Len(block) + 12
    BY <1>5, <1>6, <2>2, Zenon
  <2>4. ASSUME NEW i \in 1..(Len(block) + 4) PROVE p[i] = bm[i]
    BY <1>5, <1>6, <2>1, <2>4, Zenon
  <2>5. QED
    BY <2>3, <2>4, Zenon
<1>9. \A i \in 1..4 : p[Len(block) + i] = m[i]
  <2>1. \A i \in 1..4 : bm[Len(block) + i] = m[i]
    BY <1>2, <1>4, Zenon
  <2>2. \A i \in 1..4 : Len(block) + i \in 1..(Len(block) + 4)
    BY <1>7
  <2> HIDE DEF bm, p
  <2>3. QED
    BY <1>8, <2>1, <2>2, Zenon
<1>10. \A i \in 1..Len(block) : p[i] = block[i]
  <2>1. \A i \in 1..Len(block) : i \in 1..(Len(block) + 4)
    BY <1>7
  <2>2. \A i \in 1..Len(block) : bm[i] = block[i]
    BY <1>4, Zenon
  <2> HIDE DEF bm, p
  <2>3. QED
    BY <1>8, <2>1, <2>2, Zenon
<1> HIDE DEF bm, p
<1>11. \A i \in 1..3 : i \in 1..4 /\ (i = 1 \/ i = 2 \/ i = 3)
  OBVIOUS
<1>12. \A i \in 1..3 : p[Len(block) + i] = 0
  BY <1>2, <1>9, <1>11
<1>13. p[Len(block) + 4] = uniq
  BY <1>2, <1>9
<1>14. QED
  BY <1>8, <1>10, <1>12, <1>13 DEF p

\* Where the padded blocks differ, how far the next difference is, and how many
\* words are stored there.
Differ(old, new, i) == Padded(old, 0)[i] # Padded(new, 1)[i]
Skip(old, new, p)   == find_change(Padded(old, 0), Padded(new, 1), p)
Same(old, new, q)   == find_same(Padded(old, 0), Padded(new, 1), q)

\* They differ where the blocks do, and at the fourth word behind them.
LEMMA DifferIs ==
  ASSUME NEW old, NEW new, Pair(old, new)
  PROVE  /\ \A i \in 1..Len(old) : Differ(old, new, i) <=> old[i] # new[i]
         /\ \A i \in 1..3 : ~Differ(old, new, Len(old) + i)
         /\ Differ(old, new, Len(old) + 4)
<1>1. old \in Seq(Word) /\ new \in Seq(Word) /\ Len(new) = Len(old)
  BY DEF Pair
<1>2. /\ \A i \in 1..Len(old) : Padded(old, 0)[i] = old[i]
      /\ \A i \in 1..3 : Padded(old, 0)[Len(old) + i] = 0
      /\ Padded(old, 0)[Len(old) + 4] = 0
  BY <1>1, PaddedIs
<1>3. /\ \A i \in 1..Len(new) : Padded(new, 1)[i] = new[i]
      /\ \A i \in 1..3 : Padded(new, 1)[Len(new) + i] = 0
      /\ Padded(new, 1)[Len(new) + 4] = 1
  BY <1>1, PaddedIs
<1>4. QED
  BY <1>1, <1>2, <1>3 DEF Differ

\* find_change finds the next difference.
LEMMA SkipIs ==
  ASSUME NEW old, NEW new, Pair(old, new), NEW p \in 1..(Len(old) + 1)
  PROVE  /\ Skip(old, new, p) \in Nat
         /\ Differ(old, new, p + Skip(old, new, p))
         /\ \A i \in p..(p + Skip(old, new, p) - 1) : ~Differ(old, new, i)
<1> DEFINE S == { i \in p..(Len(old) + 12) : Differ(old, new, i) }
           q == Min(S)
<1>1. Len(old) \in Nat /\ Len(Padded(old, 0)) = Len(old) + 12
  BY PaddedIs DEF Pair
<1>2. Skip(old, new, p) = q - p
  BY <1>1 DEF Skip, find_change, Differ
<1>3. Len(old) + 4 \in S
  BY <1>1, DifferIs
<1>4. S \subseteq Nat
  BY <1>1
<1>5. q \in S /\ \A i \in S : q <= i
  <2> HIDE DEF S
  <2>1. QED
    BY <1>3, <1>4, MinDef
<1> HIDE DEF q
<1>6. q \in Nat /\ p <= q /\ q <= Len(old) + 12 /\ Differ(old, new, q)
  BY <1>1, <1>5
<1>7. p + (q - p) = q
  BY <1>6
<1>8. ASSUME NEW i \in p..(q - 1) PROVE ~Differ(old, new, i)
  <2>1. i \in p..(Len(old) + 12) /\ ~(q <= i)
    BY <1>1, <1>6, <1>8
  <2>2. QED
    BY <1>5, <2>1
<1>9. QED
  BY <1>2, <1>6, <1>7, <1>8

\* find_same stops in front of two words that are equal, no later than at the word
\* behind the blocks.
LEMMA SameIs ==
  ASSUME NEW old, NEW new, Pair(old, new), NEW q \in 1..Len(old), Differ(old, new, q)
  PROVE  /\ Same(old, new, q) \in 1..(Len(old) + 1 - q)
         /\ ~Differ(old, new, q + Same(old, new, q))
         /\ ~Differ(old, new, q + Same(old, new, q) + 1)
<1> DEFINE n == Len(old)
           S == { k \in 0..(n + 12 - q - 1) : /\ k % 2 = 0
                                              /\ ~Differ(old, new, q + k)
                                              /\ ~Differ(old, new, q + k + 1) }
           j == Min(S)
<1>1. n \in Nat /\ Len(Padded(old, 0)) = n + 12
  BY PaddedIs DEF Pair
<1>2. Same(old, new, q) = IF j > 0 /\ ~Differ(old, new, q + j - 1) THEN j - 1 ELSE j
  <2>1. S = { k \in 0..(Len(Padded(old, 0)) - q - 1) :
                /\ k % 2 = 0
                /\ Padded(old, 0)[q + k] = Padded(new, 1)[q + k]
                /\ Padded(old, 0)[q + k + 1] = Padded(new, 1)[q + k + 1] }
    BY <1>1 DEF Differ
  <2> HIDE DEF S
  <2>2. QED
    BY <2>1 DEF Same, find_same, Differ
<1>3. ~Differ(old, new, n + 1) /\ ~Differ(old, new, n + 2) /\ ~Differ(old, new, n + 3)
  BY DifferIs
<1>4. \E k \in S : k <= n + 2 - q
  <2>1. CASE (n + 1 - q) % 2 = 0
    <3>1. n + 1 - q \in S
      <4>1. n + 1 - q \in 0..(n + 12 - q - 1) /\ q + (n + 1 - q) = n + 1 /\ q + (n + 1 - q) + 1 = n + 2
        BY <1>1
      <4>2. QED
        BY <1>3, <2>1, <4>1
    <3> HIDE DEF S
    <3>2. QED
      BY <1>1, <3>1
  <2>2. CASE (n + 1 - q) % 2 # 0
    <3>1. n + 2 - q \in S
      <4>1. n + 2 - q \in 0..(n + 12 - q - 1) /\ q + (n + 2 - q) = n + 2 /\ q + (n + 2 - q) + 1 = n + 3
        BY <1>1
      <4>2. (n + 2 - q) % 2 = 0
        BY <1>1, <2>2
      <4>3. QED
        BY <1>3, <4>1, <4>2
    <3> HIDE DEF S
    <3>2. QED
      BY <1>1, <3>1
  <2>3. QED
    BY <2>1, <2>2
<1>5. S \in SUBSET Nat /\ S # {}
  <2>1. 0..(n + 12 - q - 1) \subseteq Nat
    BY <1>1
  <2>2. S \subseteq 0..(n + 12 - q - 1)
    OBVIOUS
  <2> HIDE DEF S
  <2>3. QED
    BY <1>4, <2>1, <2>2
<1>6. j \in S /\ \A k \in S : j <= k
  <2> HIDE DEF S
  <2>1. QED
    BY <1>5, MinDef
<1> HIDE DEF j
<1>7. /\ j \in Nat /\ j <= n + 2 - q /\ j % 2 = 0
      /\ ~Differ(old, new, q + j) /\ ~Differ(old, new, q + j + 1)
  BY <1>1, <1>4, <1>6
<1>8. j >= 2
  <2>1. j # 0
    BY <1>7
  <2>2. QED
    BY <1>7, <2>1
<1> HIDE DEF S
<1>9. CASE Differ(old, new, q + j - 1)
  <2>1. Same(old, new, q) = j
    BY <1>2, <1>9
  <2>2. j # n + 2 - q
    <3>1. j = n + 2 - q => q + j - 1 = n + 1
      BY <1>1
    <3>2. QED
      BY <1>3, <1>9, <3>1
  <2>3. QED
    BY <1>1, <1>7, <1>8, <2>1, <2>2
<1>10. CASE ~Differ(old, new, q + j - 1)
  <2>1. Same(old, new, q) = j - 1 /\ q + (j - 1) = q + j - 1 /\ q + (j - 1) + 1 = q + j
    BY <1>2, <1>7, <1>8, <1>10
  <2>2. QED
    BY <1>1, <1>7, <1>8, <1>10, <2>1
<1>11. QED
  BY <1>9, <1>10
-----------------------------------------------------------------------------
(* A turn of raw_compress. *)

\* The states of its loop, and its initial state.
Loops(old) == [at : 1..(Len(old) + 1), patch : Seq(Word)]
Begin == [at |-> 1, patch |-> <<>>]

\* The words that are stored at q.
Run(old, new, q) == Min({Same(old, new, q), MaxRun})

\* The lesser of two numbers.
LEMMA MinOfTwo ==
  ASSUME NEW x \in Nat, NEW y \in Nat
  PROVE  Min({x, y}) = IF x <= y THEN x ELSE y
<1>1. Min({x, y}) \in {x, y} /\ \A z \in {x, y} : Min({x, y}) <= z
  <2>1. {x, y} \in SUBSET Nat /\ {x, y} # {}
    OBVIOUS
  <2>2. QED
    BY <2>1, MinDef
<1>2. QED
  BY <1>1

\* A run is not empty and ends behind the blocks at the latest; one that is shorter
\* than the greatest is followed by two words that are equal.
LEMMA RunIs ==
  ASSUME NEW old, NEW new, Pair(old, new), NEW q \in 1..Len(old), Differ(old, new, q)
  PROVE  /\ Run(old, new, q) \in 1..MaxRun
         /\ q + Run(old, new, q) <= Len(old) + 1
         /\ Run(old, new, q) = MaxRun
              \/ /\ ~Differ(old, new, q + Run(old, new, q))
                 /\ ~Differ(old, new, q + Run(old, new, q) + 1)
<1>1. Len(old) \in Nat
  BY DEF Pair
<1>2. Same(old, new, q) \in 1..(Len(old) + 1 - q)
  BY SameIs
<1>3. Run(old, new, q) = IF Same(old, new, q) <= MaxRun THEN Same(old, new, q) ELSE MaxRun
  BY <1>1, <1>2, MinOfTwo, MaxRunAssumption DEF Run
<1>4. QED
  BY <1>1, <1>2, <1>3, SameIs, MaxRunAssumption

\* The three ways a turn goes.
TurnOf(old, new, s, skip, q, run, jump) ==
  IF q > Len(old) THEN s
  ELSE IF skip > MaxRun
  THEN [at |-> q, patch |-> s.patch \o <<0, jump % Base, jump \div Base>>]
  ELSE [at |-> q + run,
        patch |-> s.patch \o <<run, skip>> \o Stored(Padded(old, 0), Padded(new, 1), q, run)]

LEMMA TurnCases ==
  ASSUME NEW old, NEW new, NEW s \in Loops(old)
  PROVE  CompressTurn(old, new)[s] =
           TurnOf(old, new, s, Skip(old, new, s.at), s.at + Skip(old, new, s.at),
                  Run(old, new, s.at + Skip(old, new, s.at)),
                  Min({Skip(old, new, s.at), Base * Base - 1}))
BY DEF CompressTurn, Loops, Skip, Run, Same, TurnOf

\* Behind the last difference nothing happens.
LEMMA TurnEnds ==
  ASSUME NEW old, NEW new, NEW s \in Loops(old), s.at + Skip(old, new, s.at) > Len(old)
  PROVE  CompressTurn(old, new)[s] = s
BY TurnCases DEF TurnOf

\* A long stretch that is equal: a jump.
LEMMA TurnJumps ==
  ASSUME NEW old, NEW new, Pair(old, new), Len(old) < Base * Base,
         NEW s \in Loops(old), NEW t, t = CompressTurn(old, new)[s],
         NEW skip, skip = Skip(old, new, s.at),
         s.at + skip <= Len(old), skip > MaxRun
  PROVE  /\ t \in Loops(old) /\ t.at = s.at + skip
         /\ Len(t.patch) = Len(s.patch) + 3
         /\ \A k \in 1..Len(s.patch) : t.patch[k] = s.patch[k]
         /\ t.patch[Len(s.patch) + 1] = 0
         /\ t.patch[Len(s.patch) + 2] \in Nat /\ t.patch[Len(s.patch) + 3] \in Nat
         /\ t.patch[Len(s.patch) + 2] + Base * t.patch[Len(s.patch) + 3] = skip
<1>1. /\ s.at \in 1..(Len(old) + 1) /\ s.patch \in Seq(Word) /\ Len(s.patch) \in Nat
      /\ Len(old) \in Nat
  BY DEF Loops, Pair
<1>2. skip \in Nat /\ skip <= Len(old)
  BY <1>1, SkipIs
<1>3. Base \in Nat \ {0} /\ Base * Base - 1 \in Nat /\ Word = 0..(Base - 1)
  BY MaxRunAssumption DEF Base, Word
<1>4. Min({skip, Base * Base - 1}) = skip
  BY <1>2, <1>3, MinOfTwo
<1> DEFINE w == <<0, skip % Base, skip \div Base>>
<1>5. t = [at |-> s.at + skip, patch |-> s.patch \o w]
  <2>1. ~(s.at + skip > Len(old))
    BY <1>1, <1>2
  <2> DEFINE q == s.at + skip
             run == Run(old, new, q)
             more == s.patch \o <<run, skip>> \o Stored(Padded(old, 0), Padded(new, 1), q, run)
  <2>2. CompressTurn(old, new)[s] = TurnOf(old, new, s, skip, q, run, skip)
    BY <1>4, TurnCases
  <2>3. TurnOf(old, new, s, skip, q, run, skip) =
          IF q > Len(old) THEN s
          ELSE IF skip > MaxRun THEN [at |-> q, patch |-> s.patch \o w]
          ELSE [at |-> q + run, patch |-> more]
    BY DEF TurnOf
  <2> HIDE DEF run, more, w
  <2>4. QED
    BY <2>1, <2>2, <2>3
<1>6. /\ skip % Base \in 0..(Base - 1) /\ skip \div Base \in Int
      /\ skip = Base * (skip \div Base) + (skip % Base)
  <2>1. skip \in Int /\ Base \in Nat \ {0}
    BY <1>2, <1>3
  <2>2. QED
    BY <2>1, ModDef
<1>7. skip % Base \in Word /\ skip \div Base \in Word
  <2> DEFINE d == skip \div Base
             r == skip % Base
  <2>1. skip < Base * Base
    BY <1>2, <1>3
  <2>2. d \in Int /\ r \in 0..(Base - 1) /\ skip = Base * d + r
    BY <1>6
  <2> HIDE DEF d, r
  <2>3. d >= 0
    <3>1. SUFFICES ASSUME d <= -1 PROVE FALSE
      BY <2>2
    <3>2. Base * d <= Base * (-1)
      BY SMTT(40), <1>3, <2>2, <3>1, TimesMonotone
    <3>3. QED
      BY <1>2, <1>3, <2>2, <3>2
  <2>4. d < Base
    <3>1. SUFFICES ASSUME Base <= d PROVE FALSE
      BY <1>3, <2>2
    <3>2. Base * Base <= Base * d
      BY <1>3, <2>2, <3>1, TimesMonotone
    <3>3. QED
      BY <1>3, <2>1, <2>2, <3>2
  <2>5. QED
    BY <1>3, <2>2, <2>3, <2>4 DEF d, r
<1>8. w \in Seq(Word) /\ Len(w) = 3 /\ w[1] = 0 /\ w[2] = skip % Base /\ w[3] = skip \div Base
  BY <1>7, MaxRunAssumption DEF Word
<1> HIDE DEF w
<1>9. /\ s.patch \o w \in Seq(Word) /\ Len(s.patch \o w) = Len(s.patch) + Len(w)
      /\ \A i \in 1..Len(s.patch) : (s.patch \o w)[i] = s.patch[i]
      /\ \A i \in 1..Len(w) : (s.patch \o w)[Len(s.patch) + i] = w[i]
  <2>1. s.patch \in Seq(Word) /\ w \in Seq(Word)
    BY <1>1, <1>8
  <2>2. QED
    BY <2>1, ConcatIs
<1>10. t \in Loops(old) /\ t.at = s.at + skip /\ t.patch = s.patch \o w
  <2>1. s.at + skip \in 1..(Len(old) + 1)
    BY <1>1, <1>2
  <2>2. QED
    BY <1>5, <1>9, <2>1 DEF Loops
<1>11. \A i \in 1..3 : t.patch[Len(s.patch) + i] = w[i]
  BY <1>8, <1>9, <1>10
<1>12. /\ t.patch[Len(s.patch) + 1] = w[1] /\ t.patch[Len(s.patch) + 2] = w[2]
       /\ t.patch[Len(s.patch) + 3] = w[3]
  BY <1>11
<1>13. Len(t.patch) = Len(s.patch) + 3
  BY <1>8, <1>9, <1>10
<1>14. \A i \in 1..Len(s.patch) : t.patch[i] = s.patch[i]
  BY <1>9, <1>10
<1>15. skip % Base \in Nat /\ skip \div Base \in Nat /\ (skip % Base) + Base * (skip \div Base) = skip
  BY <1>3, <1>6, <1>7
<1>16. QED
  BY <1>8, <1>10, <1>12, <1>13, <1>14, <1>15

\* Words that differ: a run.
LEMMA TurnRuns ==
  ASSUME NEW old, NEW new, Pair(old, new),
         NEW s \in Loops(old), NEW t, t = CompressTurn(old, new)[s],
         NEW skip, skip = Skip(old, new, s.at),
         NEW q, q = s.at + skip, q <= Len(old), skip <= MaxRun,
         NEW run, run = Run(old, new, q)
  PROVE  /\ t \in Loops(old) /\ t.at = q + run
         /\ Len(t.patch) = Len(s.patch) + 2 + run
         /\ \A k \in 1..Len(s.patch) : t.patch[k] = s.patch[k]
         /\ t.patch[Len(s.patch) + 1] = run /\ t.patch[Len(s.patch) + 2] = skip
         /\ \A k \in 1..run : t.patch[Len(s.patch) + 2 + k] = old[q + k - 1]
<1>1. /\ s.at \in 1..(Len(old) + 1) /\ s.patch \in Seq(Word) /\ Len(s.patch) \in Nat
      /\ Len(old) \in Nat
  BY DEF Loops, Pair
<1>2. skip \in Nat /\ q \in 1..Len(old) /\ Differ(old, new, q)
  BY <1>1, SkipIs
<1>3. run \in 1..MaxRun /\ q + run <= Len(old) + 1
  BY <1>2, RunIs
<1> DEFINE w == <<run, skip>>
           words == Stored(Padded(old, 0), Padded(new, 1), q, run)
<1>4. t = [at |-> q + run, patch |-> (s.patch \o w) \o words]
  <2> DEFINE jump == Min({skip, Base * Base - 1})
  <2>1. t = TurnOf(old, new, s, skip, q, run, jump)
    BY TurnCases
  <2>2. ~(q > Len(old)) /\ ~(skip > MaxRun)
    BY <1>1, <1>2, MaxRunAssumption
  <2> HIDE DEF jump
  <2>3. QED
    BY <2>1, <2>2 DEF TurnOf
<1>5. /\ words \in Seq(Word) /\ Len(words) = run
      /\ \A k \in 1..run : words[k] = old[q + k - 1]
  <2> DEFINE a == Padded(old, 0)
  <2>1. /\ a \in Seq(Word) /\ Len(a) = Len(old) + 12
        /\ \A i \in 1..Len(old) : a[i] = old[i]
    BY PaddedIs DEF Pair
  <2> HIDE DEF a
  <2>2. words = SubSeq(a, q, q + run - 1)
    BY DEF Stored, a
  <2>3. /\ SubSeq(a, q, q + run - 1) \in Seq(Word)
        /\ Len(SubSeq(a, q, q + run - 1)) = run
        /\ \A k \in 1..run : SubSeq(a, q, q + run - 1)[k] = a[q + k - 1]
    <3>1. q \in Nat /\ q >= 1 /\ run \in Nat /\ q + run - 1 <= Len(a)
      BY SMTT(40), <1>1, <1>2, <1>3, <2>1, MaxRunAssumption
    <3>2. QED
      <4>1. a \in Seq(Word)
        BY <2>1
      <4>2. QED
        BY SMTT(40), <3>1, <4>1, SliceIs
  <2>4. \A k \in 1..run : q + k - 1 \in 1..Len(old)
    BY <1>1, <1>2, <1>3
  <2> HIDE DEF words
  <2>5. QED
    BY <2>1, <2>2, <2>3, <2>4
<1>6. w \in Seq(Word) /\ Len(w) = 2 /\ w[1] = run /\ w[2] = skip
  BY <1>2, <1>3, MaxRunAssumption DEF Word
<1> HIDE DEF w, words
<1> DEFINE sw == s.patch \o w
<1>7. /\ sw \in Seq(Word) /\ Len(sw) = Len(s.patch) + Len(w)
      /\ \A i \in 1..Len(s.patch) : sw[i] = s.patch[i]
      /\ \A i \in 1..Len(w) : sw[Len(s.patch) + i] = w[i]
  <2>1. s.patch \in Seq(Word) /\ w \in Seq(Word)
    BY <1>1, <1>6
  <2>2. QED
    BY <2>1, ConcatIs
<1> HIDE DEF sw
<1>8. /\ sw \o words \in Seq(Word) /\ Len(sw \o words) = Len(sw) + Len(words)
      /\ \A i \in 1..Len(sw) : (sw \o words)[i] = sw[i]
      /\ \A i \in 1..Len(words) : (sw \o words)[Len(sw) + i] = words[i]
  <2>1. sw \in Seq(Word) /\ words \in Seq(Word)
    BY <1>5, <1>7
  <2>2. QED
    BY <2>1, ConcatIs
<1>9. t \in Loops(old) /\ t.at = q + run /\ t.patch = sw \o words
  <2>1. q + run \in 1..(Len(old) + 1)
    BY <1>1, <1>2, <1>3
  <2>2. t = [at |-> q + run, patch |-> sw \o words]
    BY <1>4 DEF sw
  <2>3. QED
    BY <1>8, <2>1, <2>2 DEF Loops
<1>10. Len(sw) = Len(s.patch) + 2
  BY <1>6, <1>7
<1>11. Len(t.patch) = Len(s.patch) + 2 + run
  BY <1>5, <1>8, <1>9, <1>10
<1>12. \A k \in 1..Len(s.patch) : t.patch[k] = s.patch[k]
  <2>1. \A k \in 1..Len(s.patch) : k \in 1..Len(sw)
    BY <1>1, <1>10
  <2>2. QED
    BY <1>7, <1>8, <1>9, <2>1
<1>13. t.patch[Len(s.patch) + 1] = run /\ t.patch[Len(s.patch) + 2] = skip
  <2>1. Len(s.patch) + 1 \in 1..Len(sw) /\ Len(s.patch) + 2 \in 1..Len(sw)
    BY <1>1, <1>10
  <2>2. 1 \in 1..Len(w) /\ 2 \in 1..Len(w)
    BY <1>6
  <2>3. QED
    BY <1>6, <1>7, <1>8, <1>9, <2>1, <2>2
<1>14. \A k \in 1..run : t.patch[Len(s.patch) + 2 + k] = old[q + k - 1]
  BY <1>5, <1>8, <1>9, <1>10
<1>15. QED
  BY <1>9, <1>11, <1>12, <1>13, <1>14
-----------------------------------------------------------------------------
(* The loop of raw_compress. *)

\* The state of the loop after so many turns.
State(old, new, i) == After(CompressTurn(old, new), Begin, i)

\* Nothing differs from here on.
Done(old, new, s) == s.at + Skip(old, new, s.at) > Len(old)

LEMMA StateNext ==
  ASSUME NEW old, NEW new
  PROVE  /\ State(old, new, 0) = Begin
         /\ \A i \in Nat : State(old, new, i + 1) = CompressTurn(old, new)[State(old, new, i)]
BY AfterDef DEF State

\* Each turn ends in a state of the loop that goes on from the words so far.
LEMMA TurnType ==
  ASSUME NEW old, NEW new, Pair(old, new), Len(old) < Base * Base,
         NEW s \in Loops(old), NEW t, t = CompressTurn(old, new)[s]
  PROVE  /\ t \in Loops(old)
         /\ Len(s.patch) <= Len(t.patch)
         /\ \A k \in 1..Len(s.patch) : t.patch[k] = s.patch[k]
         /\ Done(old, new, s) \/ s.at < t.at
<1> DEFINE skip == Skip(old, new, s.at)
           run == Run(old, new, s.at + skip)
<1>1. /\ s.at \in 1..(Len(old) + 1) /\ s.patch \in Seq(Word) /\ Len(s.patch) \in Nat
      /\ Len(old) \in Nat
  BY DEF Loops, Pair
<1>2. skip \in Nat /\ Differ(old, new, s.at + skip)
  BY <1>1, SkipIs
<1>3. CASE Done(old, new, s)
  <2>1. t = s
    BY <1>3, TurnEnds DEF Done
  <2>2. QED
    BY <1>1, <1>3, <2>1
<1>4. CASE ~Done(old, new, s)
  <2>1. s.at + skip <= Len(old)
    BY <1>1, <1>2, <1>4 DEF Done
  <2>2. CASE skip > MaxRun
    <3>1. /\ t \in Loops(old) /\ t.at = s.at + skip
          /\ Len(t.patch) = Len(s.patch) + 3
          /\ \A k \in 1..Len(s.patch) : t.patch[k] = s.patch[k]
      BY <2>1, <2>2, TurnJumps
    <3> HIDE DEF skip
    <3>2. QED
      BY <1>1, <1>2, <2>2, <3>1, MaxRunAssumption
  <2>3. CASE skip <= MaxRun
    <3>1. /\ t \in Loops(old) /\ t.at = s.at + skip + run
          /\ Len(t.patch) = Len(s.patch) + 2 + run
          /\ \A k \in 1..Len(s.patch) : t.patch[k] = s.patch[k]
      BY <2>1, <2>3, TurnRuns
    <3>2. run \in 1..MaxRun
      BY <1>1, <1>2, <2>1, RunIs
    <3> HIDE DEF skip, run
    <3>3. QED
      BY <1>1, <1>2, <3>1, <3>2, MaxRunAssumption
  <2>4. QED
    BY <1>2, <2>2, <2>3, MaxRunAssumption
<1>5. QED
  BY <1>3, <1>4

LEMMA StateType ==
  ASSUME NEW old, NEW new, Pair(old, new), Len(old) < Base * Base
  PROVE  \A i \in Nat : State(old, new, i) \in Loops(old)
<1> DEFINE S == { i \in Nat : State(old, new, i) \in Loops(old) }
<1>1. 0 \in S
  <2>1. Len(old) \in Nat
    BY DEF Pair
  <2>2. Begin \in Loops(old)
    BY <2>1 DEF Begin, Loops
  <2>3. QED
    BY <2>2, StateNext
<1>2. ASSUME NEW i \in Nat, i \in S PROVE i + 1 \in S
  BY SMTT(40), <1>2, StateNext, TurnType
<1>3. \A i \in Nat : i \in S
  <2> HIDE DEF S
  <2>1. QED
    BY <1>1, <1>2, SetInduction
<1>4. QED
  BY <1>3

\* Once the rest is equal the loop is at its end.
LEMMA StateStays ==
  ASSUME NEW old, NEW new, Pair(old, new), Len(old) < Base * Base,
         NEW i \in Nat, Done(old, new, State(old, new, i))
  PROVE  \A k \in Nat : State(old, new, i + k) = State(old, new, i)
<1> DEFINE S == { k \in Nat : State(old, new, i + k) = State(old, new, i) }
<1>1. 0 \in S
  OBVIOUS
<1>2. ASSUME NEW k \in Nat, k \in S PROVE k + 1 \in S
  <2>1. State(old, new, i + k) = State(old, new, i)
    BY <1>2
  <2>2. State(old, new, i) \in Loops(old)
    BY StateType
  <2>3. CompressTurn(old, new)[State(old, new, i)] = State(old, new, i)
    BY <2>2, TurnEnds DEF Done
  <2>4. i + k \in Nat /\ i + (k + 1) = (i + k) + 1
    OBVIOUS
  <2>5. QED
    BY <2>1, <2>3, <2>4, StateNext
<1>3. \A k \in Nat : k \in S
  <2> HIDE DEF S
  <2>1. QED
    BY <1>1, <1>2, SetInduction
<1>4. QED
  BY <1>3

\* As many turns as there are words are enough.
LEMMA StateDone ==
  ASSUME NEW old, NEW new, Pair(old, new), Len(old) < Base * Base
  PROVE  Done(old, new, State(old, new, Len(old)))
<1> DEFINE S == { i \in Nat : Done(old, new, State(old, new, i)) \/ i < State(old, new, i).at }
<1>1. 0 \in S
  BY StateNext DEF Begin
<1>2. ASSUME NEW i \in Nat, i \in S PROVE i + 1 \in S
  <2> DEFINE s == State(old, new, i)
             t == State(old, new, i + 1)
  <2>1. s \in Loops(old) /\ t \in Loops(old) /\ t = CompressTurn(old, new)[s]
    BY StateType, StateNext
  <2>2. s.at \in Nat /\ t.at \in Nat
    BY <2>1 DEF Loops
  <2>3. CASE Done(old, new, s)
    BY <2>1, <2>3, TurnEnds DEF Done
  <2>4. CASE ~Done(old, new, s)
    <3>1. s.at < t.at
      BY <2>1, <2>4, TurnType
    <3>2. i < s.at
      BY <1>2, <2>4
    <3> HIDE DEF s, t
    <3>3. i + 1 < t.at
      BY <2>2, <3>1, <3>2
    <3>4. QED
      BY <3>3 DEF t
  <2>5. QED
    BY <2>3, <2>4
<1>3. \A i \in Nat : i \in S
  <2> HIDE DEF S
  <2>1. QED
    BY <1>1, <1>2, SetInduction
<1> DEFINE s == State(old, new, Len(old))
<1>4. Len(old) \in Nat
  BY DEF Pair
<1>5. s \in Loops(old) /\ (Done(old, new, s) \/ Len(old) < s.at)
  BY <1>3, <1>4, StateType
<1> HIDE DEF S, s
<1>6. s.at \in 1..(Len(old) + 1)
  BY <1>5 DEF Loops
<1>7. Skip(old, new, s.at) \in Nat
  BY <1>6, SkipIs
<1>8. Len(old) < s.at => Done(old, new, s)
  BY <1>4, <1>6, <1>7 DEF Done
<1>9. QED
  BY <1>5, <1>8 DEF s

\* q begins with p.
Begins(p, q) == Len(p) <= Len(q) /\ \A w \in 1..Len(p) : q[w] = p[w]

\* The words of a turn stay.
LEMMA StatePrefix ==
  ASSUME NEW old, NEW new, Pair(old, new), Len(old) < Base * Base, NEW i \in Nat
  PROVE  \A k \in Nat : Begins(State(old, new, i).patch, State(old, new, i + k).patch)
<1> DEFINE P(k) == State(old, new, k).patch
           S == { k \in Nat : /\ Len(P(i)) <= Len(P(i + k))
                              /\ \A w \in 1..Len(P(i)) : P(i + k)[w] = P(i)[w] }
<1>1. \A k \in Nat : Len(P(k)) \in Nat
  BY StateType DEF Loops
<1>2. 0 \in S
  BY <1>1
<1>3. ASSUME NEW k \in Nat, k \in S PROVE k + 1 \in S
  <2>1. i + k \in Nat /\ i + (k + 1) = (i + k) + 1
    OBVIOUS
  <2>2. /\ State(old, new, i + k) \in Loops(old)
        /\ State(old, new, (i + k) + 1) = CompressTurn(old, new)[State(old, new, i + k)]
    BY <2>1, StateType, StateNext
  <2>3. /\ Len(P(i + k)) <= Len(P((i + k) + 1))
        /\ \A w \in 1..Len(P(i + k)) : P((i + k) + 1)[w] = P(i + k)[w]
    BY <2>2, TurnType
  <2>4. /\ Len(P(i)) <= Len(P(i + k))
        /\ \A w \in 1..Len(P(i)) : P(i + k)[w] = P(i)[w]
    BY <1>3
  <2>5. Len(P(i)) \in Nat /\ Len(P(i + k)) \in Nat /\ Len(P(i + (k + 1))) \in Nat
    BY <1>1, <2>1
  <2> HIDE DEF P
  <2>6. QED
    BY <2>1, <2>3, <2>4, <2>5
<1>4. \A k \in Nat : k \in S
  <2> HIDE DEF S
  <2>1. QED
    BY <1>2, <1>3, SetInduction
<1>5. QED
  BY <1>4 DEF Begins
-----------------------------------------------------------------------------
(* The length of a patch. *)

\* What a patch of so many words has been paid for with, after f runs of the
\* greatest length or jumps: each of these may have two words of overhead.  A
\* shorter run leaves a debt of two words, and two equal words to pay it with.
Settled(s, f) == Len(s.patch) <= (s.at - 1) + 2 * f /\ MaxRun * f <= s.at - 1

Owing(old, new, s, f) ==
  /\ Len(s.patch) <= (s.at - 1) + 2 * f + 2 /\ (MaxRun * f) + 1 <= s.at - 1
  /\ ~Differ(old, new, s.at) /\ ~Differ(old, new, s.at + 1)

Paid(old, new, s) == \E f \in Nat : Settled(s, f) \/ Owing(old, new, s, f)

LEMMA Payment ==
  ASSUME NEW len \in Nat, NEW at \in Nat, NEW skip \in Nat, NEW f \in Nat, NEW x \in Nat,
         NEW run \in Nat, run >= 1, MaxRun \in Nat, MaxRun >= 2,
         \/ len <= (at - 1) + 2 * f /\ x <= at - 1
         \/ len <= (at - 1) + 2 * f + 2 /\ x + 1 <= at - 1 /\ 2 <= skip
  PROVE  /\ skip > MaxRun =>
              len + 3 <= (at + skip - 1) + 2 * (f + 1) /\ x + MaxRun <= at + skip - 1
         /\ run = MaxRun =>
              len + 2 + run <= (at + skip + run - 1) + 2 * (f + 1) /\ x + MaxRun <= at + skip + run - 1
         /\ len + 2 + run <= (at + skip + run - 1) + 2 * f + 2 /\ x + 1 <= at + skip + run - 1
OBVIOUS

LEMMA TurnPays ==
  ASSUME NEW old, NEW new, Pair(old, new), Len(old) < Base * Base,
         NEW s \in Loops(old), NEW t, t = CompressTurn(old, new)[s], Paid(old, new, s)
  PROVE  Paid(old, new, t)
<1> DEFINE skip == Skip(old, new, s.at)
           q == s.at + skip
           run == Run(old, new, q)
<1>1. /\ s.at \in 1..(Len(old) + 1) /\ s.patch \in Seq(Word) /\ Len(s.patch) \in Nat
      /\ Len(old) \in Nat
  BY DEF Loops, Pair
<1>2. skip \in Nat /\ Differ(old, new, q)
  BY <1>1, SkipIs
<1>3. CASE Done(old, new, s)
  BY <1>3, TurnEnds DEF Done
<1>4. CASE ~Done(old, new, s)
  <2>1. q \in 1..Len(old)
    BY <1>1, <1>2, <1>4 DEF Done
  <2>2. PICK f \in Nat : Settled(s, f) \/ Owing(old, new, s, f)
    BY DEF Paid
  <2> DEFINE x == MaxRun * f
  <2>3. x \in Nat /\ MaxRun * (f + 1) = x + MaxRun /\ MaxRun \in Nat /\ MaxRun >= 2
    BY MaxRunAssumption
  <2>4. \/ Len(s.patch) <= (s.at - 1) + 2 * f /\ x <= s.at - 1
        \/ Len(s.patch) <= (s.at - 1) + 2 * f + 2 /\ x + 1 <= s.at - 1 /\ 2 <= skip
    <3>1. ASSUME Owing(old, new, s, f) PROVE 2 <= skip
      <4>1. skip # 0 /\ skip # 1
        <5>1. s.at + 0 = s.at
          BY <1>1
        <5>2. QED
          BY <1>2, <3>1, <5>1 DEF Owing
      <4> HIDE DEF skip
      <4>2. QED
        BY <1>2, <4>1
    <3>2. QED
      BY <2>2, <3>1 DEF Settled, Owing
  <2>5. run \in 1..MaxRun
    BY <1>2, <2>1, RunIs
  <2> DEFINE len == Len(s.patch)
             at == s.at
  <2>6. /\ skip > MaxRun =>
              len + 3 <= (at + skip - 1) + 2 * (f + 1) /\ x + MaxRun <= at + skip - 1
        /\ run = MaxRun =>
              len + 2 + run <= (at + skip + run - 1) + 2 * (f + 1) /\ x + MaxRun <= at + skip + run - 1
        /\ len + 2 + run <= (at + skip + run - 1) + 2 * f + 2 /\ x + 1 <= at + skip + run - 1
    <3>1. /\ len \in Nat /\ at \in Nat /\ skip \in Nat /\ f \in Nat /\ x \in Nat
          /\ run \in Nat /\ run >= 1 /\ MaxRun \in Nat /\ MaxRun >= 2
      BY <1>1, <1>2, <2>2, <2>3, <2>5
    <3>2. \/ len <= (at - 1) + 2 * f /\ x <= at - 1
          \/ len <= (at - 1) + 2 * f + 2 /\ x + 1 <= at - 1 /\ 2 <= skip
      BY <2>4
    <3> HIDE DEF len, at, skip, x, run
    <3>3. QED
      BY <3>1, <3>2, Payment
  <2>7. CASE skip > MaxRun
    <3>1. t.at = q /\ Len(t.patch) = len + 3
      BY <2>1, <2>7, TurnJumps
    <3> HIDE DEF skip, x, len
    <3>5. t.at - 1 = at + skip - 1
      BY <1>1, <1>2, <3>1
    <3>2. Len(t.patch) <= (t.at - 1) + 2 * (f + 1) /\ x + MaxRun <= t.at - 1
      BY <2>6, <2>7, <3>1, <3>5, Zenon
    <3>3. Settled(t, f + 1)
      BY <2>3, <3>2 DEF Settled
    <3>4. QED
      BY <2>2, <3>3 DEF Paid
  <2>8. CASE skip <= MaxRun
    <3>1. t.at = q + run /\ Len(t.patch) = len + 2 + run
      BY <2>1, <2>8, TurnRuns
    <3>2. run = MaxRun \/ (~Differ(old, new, q + run) /\ ~Differ(old, new, q + run + 1))
      BY <1>2, <2>1, RunIs
    <3> HIDE DEF skip, run, x, len
    <3>6. t.at - 1 = at + skip + run - 1
      BY <1>1, <1>2, <2>5, <3>1
    <3>3. CASE run = MaxRun
      <4>1. Len(t.patch) <= (t.at - 1) + 2 * (f + 1) /\ x + MaxRun <= t.at - 1
        BY <2>6, <3>1, <3>3, <3>6, Zenon
      <4>2. Settled(t, f + 1)
        BY <2>3, <4>1 DEF Settled
      <4>3. QED
        BY <2>2, <4>2 DEF Paid
    <3>4. CASE run # MaxRun
      <4>1. Len(t.patch) <= (t.at - 1) + 2 * f + 2 /\ x + 1 <= t.at - 1
        BY <2>6, <3>1, <3>6, Zenon
      <4>2. ~Differ(old, new, t.at) /\ ~Differ(old, new, t.at + 1)
        BY <3>1, <3>2, <3>4
      <4>3. Owing(old, new, t, f)
        BY <4>1, <4>2 DEF Owing, x
      <4>4. QED
        BY <2>2, <4>3 DEF Paid
    <3>5. QED
      BY <3>3, <3>4
  <2>9. QED
    BY <1>2, <2>3, <2>7, <2>8
<1>5. QED
  BY <1>3, <1>4

LEMMA StatePaid ==
  ASSUME NEW old, NEW new, Pair(old, new), Len(old) < Base * Base
  PROVE  \A i \in Nat : Paid(old, new, State(old, new, i))
<1> DEFINE S == { i \in Nat : Paid(old, new, State(old, new, i)) }
<1>1. 0 \in S
  <2>1. Begin.at = 1 /\ Len(Begin.patch) = 0
    BY DEF Begin
  <2>2. MaxRun * 0 = 0
    BY MaxRunAssumption
  <2>3. Settled(Begin, 0)
    BY <2>1, <2>2 DEF Settled
  <2>4. QED
    BY <2>3, StateNext DEF Paid
<1>2. ASSUME NEW i \in Nat, i \in S PROVE i + 1 \in S
  BY <1>2, StateType, StateNext, TurnPays
<1>3. \A i \in Nat : i \in S
  <2> HIDE DEF S
  <2>1. QED
    BY <1>1, <1>2, SetInduction
<1>4. QED
  BY <1>3

\* What raw_compress returns.
Patch(old, new) == State(old, new, Len(old)).patch

LEMMA CompressIs ==
  ASSUME NEW old, NEW new, Pair(old, new), Len(old) < Base * Base
  PROVE  /\ state_manager_raw_compress(old, new) \in Seq(Word)
         /\ Patch(old, new) \in Seq(Word)
         /\ Len(state_manager_raw_compress(old, new)) = Len(Patch(old, new)) + 3
         /\ \A k \in 1..Len(Patch(old, new)) :
              state_manager_raw_compress(old, new)[k] = Patch(old, new)[k]
         /\ \A k \in 1..3 : state_manager_raw_compress(old, new)[Len(Patch(old, new)) + k] = 0
<1> DEFINE p == Patch(old, new)
           z == <<0, 0, 0>>
<1>1. state_manager_raw_compress(old, new) = p \o z
  BY DEF state_manager_raw_compress, State, Begin, Patch
<1>2. p \in Seq(Word)
  BY StateType DEF Pair, Loops, Patch
<1>3. z \in Seq(Word) /\ Len(z) = 3 /\ \A k \in 1..3 : z[k] = 0
  <2>1. 0 \in Word
    BY MaxRunAssumption DEF Word
  <2>2. QED
    BY <2>1
<1> HIDE DEF p, z
<1>4. /\ p \o z \in Seq(Word) /\ Len(p \o z) = Len(p) + Len(z)
      /\ \A i \in 1..Len(p) : (p \o z)[i] = p[i]
      /\ \A i \in 1..Len(z) : (p \o z)[Len(p) + i] = z[i]
  <2>1. z \in Seq(Word)
    BY <1>3
  <2>2. QED
    BY <1>2, <2>1, ConcatIs
<1>5. QED
  BY <1>1, <1>2, <1>3, <1>4 DEF p

\* raw_maxsize "returns the maximum compressed size of a savestate": no patch is
\* longer, whatever differs.
THEOREM NoPatchIsLonger ==
  ASSUME NEW old, NEW new, Pair(old, new), Len(old) < Base * Base
  PROVE  Fits(old, new)
<1> DEFINE n == Len(old)
           s == State(old, new, n)
           d == (n + MaxRun - 1) \div MaxRun
<1>1. n \in Nat
  BY DEF Pair
<1>2. s.at \in 1..(n + 1) /\ Len(s.patch) \in Nat
  <2>1. s \in Loops(old)
    BY <1>1, StateType
  <2> HIDE DEF s
  <2>2. QED
    BY <2>1 DEF Loops
<1>3. PICK f \in Nat : Settled(s, f) \/ Owing(old, new, s, f)
  BY <1>1, StatePaid DEF Paid
<1>4. MaxRun \in Nat \ {0} /\ n + MaxRun - 1 \in Nat
  BY <1>1, MaxRunAssumption
<1>5. Len(s.patch) <= n + 2 * d
  <2> DEFINE x == MaxRun * f
  <2>1. x \in Nat /\ MaxRun * (f + 1) = x + MaxRun
    BY <1>3, <1>4
  <2>2. d \in Int
    BY <1>4, ModDef
  <2>3. CASE Settled(s, f)
    <3>1. Len(s.patch) <= (s.at - 1) + 2 * f /\ x <= s.at - 1
      BY <2>3 DEF Settled
    <3> HIDE DEF s, x
    <3>2. x <= n + MaxRun - 1
      BY <1>1, <1>2, <1>4, <2>1, <3>1
    <3>3. f <= d
      BY SMTT(40), <1>3, <1>4, <3>2, DivBound DEF x
    <3> HIDE DEF d, n
    <3>4. QED
      BY <1>1, <1>2, <1>3, <2>2, <3>1, <3>3
  <2>4. CASE Owing(old, new, s, f)
    <3>1. Len(s.patch) <= (s.at - 1) + 2 * f + 2 /\ x + 1 <= s.at - 1
      BY <2>4 DEF Owing
    <3> HIDE DEF s, x
    <3>2. MaxRun * (f + 1) <= n + MaxRun - 1
      BY <1>1, <1>2, <1>4, <2>1, <3>1
    <3>3. f + 1 <= d
      <4>1. f + 1 \in Int
        BY <1>3
      <4>2. QED
        BY <1>4, <3>2, <4>1, DivBound
    <3> HIDE DEF d, n
    <3>4. QED
      BY <1>1, <1>2, <1>3, <2>2, <3>1, <3>3
  <2>5. QED
    BY <1>3, <2>3, <2>4
<1>6. Len(state_manager_raw_compress(old, new)) = Len(s.patch) + 3
  BY CompressIs DEF Patch
<1>7. state_manager_raw_maxsize(n) = n + 2 * d + 3
  BY DEF state_manager_raw_maxsize
<1>8. d \in Int
  BY <1>4, ModDef
<1> HIDE DEF d, s
<1>9. QED
  BY <1>1, <1>2, <1>5, <1>6, <1>7, <1>8 DEF Fits
-----------------------------------------------------------------------------
(* A patch turns the new block back into the old one. *)

\* The patch lies at an address of the memory.
Holds(memory, at, patch) == \A k \in 1..Len(patch) : memory[at + k - 1] = patch[k]

\* The block when it has been turned back up to x.
Mixed(old, new, x) == [k \in 1..Len(old) |-> IF k < x THEN old[k] ELSE new[k]]

\* The states of the loop of raw_decompress, and the one that goes with a state of
\* the loop of raw_compress.
Applies == [from : Nat, to : Nat, out : Seq(Nat)]
Applied(old, new, at, s) ==
  [from |-> at + Len(s.patch), to |-> s.at, out |-> Mixed(old, new, s.at)]

LEMMA MixedType ==
  ASSUME NEW old, NEW new, Pair(old, new), NEW x
  PROVE  Mixed(old, new, x) \in Seq(Nat) /\ Len(Mixed(old, new, x)) = Len(old)
<1>1. old \in Seq(Nat) /\ new \in Seq(Nat) /\ Len(new) = Len(old) /\ Len(old) \in Nat
  BY MaxRunAssumption DEF Pair, Word
<1>2. Mixed(old, new, x) \in [1..Len(old) -> Nat]
  BY <1>1 DEF Mixed
<1>3. QED
  BY SMTT(40), <1>1, <1>2

LEMMA AppliedType ==
  ASSUME NEW old, NEW new, Pair(old, new), NEW at \in Nat, NEW s \in Loops(old)
  PROVE  Applied(old, new, at, s) \in Applies
<1>1. s.at \in Nat /\ Len(s.patch) \in Nat
  BY DEF Loops
<1>2. QED
  BY <1>1, MixedType DEF Applied, Applies

\* The three ways a turn of raw_decompress goes.
LEMMA ApplyEnds ==
  ASSUME NEW memory, NEW d \in Applies, memory[d.from] = 0,
         memory[d.from + 1] + Base * memory[d.from + 2] = 0
  PROVE  DecompressTurn(memory)[d] = d
BY DEF DecompressTurn, Applies

LEMMA ApplyJumps ==
  ASSUME NEW memory, NEW d \in Applies, memory[d.from] = 0,
         NEW jump, jump = memory[d.from + 1] + Base * memory[d.from + 2], jump # 0
  PROVE  DecompressTurn(memory)[d] = [from |-> d.from + 3, to |-> d.to + jump, out |-> d.out]
<1>1. DecompressTurn(memory)[d] = [d EXCEPT !.from = @ + 3, !.to = @ + jump]
  BY DEF DecompressTurn, Applies
<1>2. d = [from |-> d.from, to |-> d.to, out |-> d.out]
  BY DEF Applies
<1>3. QED
  BY <1>1, <1>2

RunApplied(memory, d, run, to) ==
  [from |-> d.from + 2 + run, to |-> to + run,
   out |-> [i \in DOMAIN d.out |-> IF i \in to..(to + run - 1) THEN memory[d.from + 2 + i - to]
                                                            ELSE d.out[i]]]

LEMMA ApplyRuns ==
  ASSUME NEW memory, NEW d \in Applies, memory[d.from] # 0
  PROVE  DecompressTurn(memory)[d] =
           RunApplied(memory, d, memory[d.from], d.to + memory[d.from + 1])
BY DEF DecompressTurn, Applies, RunApplied

\* The words that a turn adds are read back by one turn.
LEMMA TurnBack ==
  ASSUME NEW old, NEW new, Pair(old, new), Len(old) < Base * Base,
         NEW s \in Loops(old), ~Done(old, new, s),
         NEW t, t = CompressTurn(old, new)[s],
         NEW memory, NEW at \in Nat, Holds(memory, at, t.patch)
  PROVE  DecompressTurn(memory)[Applied(old, new, at, s)] = Applied(old, new, at, t)
<1> DEFINE skip == Skip(old, new, s.at)
           q == s.at + skip
           run == Run(old, new, q)
           n == Len(old)
           len == Len(s.patch)
           from == at + len
           d == Applied(old, new, at, s)
<1>1. /\ s.at \in 1..(n + 1) /\ s.patch \in Seq(Word) /\ len \in Nat /\ n \in Nat /\ from \in Nat
  BY DEF Loops, Pair
<1>2. /\ skip \in Nat /\ Differ(old, new, q)
      /\ \A i \in s.at..(q - 1) : ~Differ(old, new, i)
  BY <1>1, SkipIs
<1>3. q \in 1..n
  BY <1>1, <1>2 DEF Done
<1>4. \A i \in s.at..(q - 1) : i \in 1..n /\ old[i] = new[i]
  <2>1. \A i \in s.at..(q - 1) : i \in 1..n
    BY <1>1, <1>3
  <2>2. QED
    BY <1>2, <2>1, DifferIs
<1>5. d \in Applies /\ d.from = from /\ d.to = s.at /\ d.out = Mixed(old, new, s.at)
  BY AppliedType DEF Applied
<1>6. \A k \in 1..Len(t.patch) : memory[at + k - 1] = t.patch[k]
  BY DEF Holds
<1> HIDE DEF skip, run, d
<1>7. CASE skip > MaxRun
  <2>1. /\ t \in Loops(old) /\ t.at = q /\ Len(t.patch) = len + 3
        /\ t.patch[len + 1] = 0
        /\ t.patch[len + 2] \in Nat /\ t.patch[len + 3] \in Nat
        /\ t.patch[len + 2] + Base * t.patch[len + 3] = skip
    <3>1. s.at + skip <= Len(old)
      BY <1>1, <1>3
    <3>2. QED
      BY SMTT(40), <3>1, <1>7, TurnJumps DEF skip
  <2>2. /\ memory[from] = t.patch[len + 1] /\ memory[from + 1] = t.patch[len + 2]
        /\ memory[from + 2] = t.patch[len + 3]
    <3>1. len + 1 \in 1..Len(t.patch) /\ len + 2 \in 1..Len(t.patch) /\ len + 3 \in 1..Len(t.patch)
      BY SMTT(40), <1>1, <2>1
    <3>2. /\ at + (len + 1) - 1 = from /\ at + (len + 2) - 1 = from + 1
          /\ at + (len + 3) - 1 = from + 2
      BY <1>1
    <3>3. QED
      BY <1>6, <3>1, <3>2
  <2>3. skip # 0
    BY <1>2, <1>7, MaxRunAssumption
  <2>4. DecompressTurn(memory)[d] = [from |-> from + 3, to |-> q, out |-> Mixed(old, new, s.at)]
    <3>1. memory[d.from] = 0 /\ memory[d.from + 1] + Base * memory[d.from + 2] = skip
      BY <1>5, <2>1, <2>2
    <3>2. DecompressTurn(memory)[d] = [from |-> d.from + 3, to |-> d.to + skip, out |-> d.out]
      BY SMTT(40), <1>5, <2>3, <3>1, ApplyJumps
    <3>3. QED
      BY <1>5, <3>2
  <2>5. Mixed(old, new, q) = Mixed(old, new, s.at)
    <3>1. ASSUME NEW k \in 1..n
          PROVE  (IF k < q THEN old[k] ELSE new[k]) = (IF k < s.at THEN old[k] ELSE new[k])
      <4>1. k < s.at => k < q
        BY <1>1, <1>2
      <4>2. k < q /\ ~(k < s.at) => k \in s.at..(q - 1)
        BY <1>1, <1>2
      <4>3. QED
        BY <1>4, <4>1, <4>2
    <3> HIDE DEF q
    <3>2. QED
      BY <3>1 DEF Mixed
  <2>6. Applied(old, new, at, t) = [from |-> from + 3, to |-> q, out |-> Mixed(old, new, s.at)]
    BY <1>1, <2>1, <2>5 DEF Applied
  <2>7. QED
    BY <2>4, <2>6 DEF d
<1>8. CASE skip <= MaxRun
  <2>1. /\ t \in Loops(old) /\ t.at = q + run
        /\ Len(t.patch) = len + 2 + run
        /\ t.patch[len + 1] = run /\ t.patch[len + 2] = skip
        /\ \A k \in 1..run : t.patch[len + 2 + k] = old[q + k - 1]
    <3>1. q <= Len(old)
      BY <1>1, <1>3
    <3>2. QED
      BY SMTT(40), <3>1, <1>8, TurnRuns DEF skip, run
  <2>2. run \in Nat /\ run >= 1 /\ q + run <= n + 1
    BY <1>2, <1>3, RunIs, MaxRunAssumption DEF run
  <2>3. /\ memory[from] = run /\ memory[from + 1] = skip
        /\ \A k \in 1..run : memory[from + 1 + k] = old[q + k - 1]
    <3>1. len + 1 \in 1..Len(t.patch) /\ len + 2 \in 1..Len(t.patch)
      <4> HIDE DEF len
      <4>1. len \in Nat
        BY <1>1
      <4>2. Len(t.patch) = len + 2 + run
        BY <2>1
      <4>3. QED
        BY <2>2, <4>1, <4>2
    <3>2. at + (len + 1) - 1 = from /\ at + (len + 2) - 1 = from + 1
      BY <1>1
    <3>3. ASSUME NEW k \in 1..run PROVE memory[from + 1 + k] = old[q + k - 1]
      <4>1. len + 2 + k \in 1..Len(t.patch) /\ at + (len + 2 + k) - 1 = from + 1 + k
        BY <1>1, <2>1, <2>2
      <4>2. memory[at + (len + 2 + k) - 1] = t.patch[len + 2 + k]
        BY <1>6, <4>1
      <4>3. QED
        BY <2>1, <4>1, <4>2
    <3>4. QED
      BY <1>6, <2>1, <3>1, <3>2, <3>3
  <2> DEFINE out == [i \in 1..n |-> IF i \in q..(q + run - 1) THEN memory[from + 2 + i - q]
                                                            ELSE Mixed(old, new, s.at)[i]]
  <2>4. DecompressTurn(memory)[d] = [from |-> from + 2 + run, to |-> q + run, out |-> out]
    <3>1. DOMAIN Mixed(old, new, s.at) = 1..n
      BY DEF Mixed
    <3>2. memory[d.from] # 0
      BY <1>5, <2>2, <2>3
    <3>3. memory[d.from] = run /\ d.to + memory[d.from + 1] = q
      BY <1>5, <2>3
    <3> HIDE DEF q
    <3>4. DecompressTurn(memory)[d] = RunApplied(memory, d, run, q)
      BY <1>5, <3>2, <3>3, ApplyRuns
    <3>5. QED
      BY <1>5, <3>1, <3>4 DEF RunApplied
  <2>5. out = Mixed(old, new, q + run)
    <3>1. ASSUME NEW k \in 1..n
          PROVE  (IF k \in q..(q + run - 1) THEN memory[from + 2 + k - q]
                                            ELSE Mixed(old, new, s.at)[k])
                   = (IF k < q + run THEN old[k] ELSE new[k])
      <4>1. CASE k \in q..(q + run - 1)
        <5>1. k - q + 1 \in 1..run /\ from + 2 + k - q = from + 1 + (k - q + 1)
              /\ q + (k - q + 1) - 1 = k /\ k < q + run
          <6> HIDE DEF q, from
          <6>1. QED
            BY SMTT(40), <1>1, <1>3, <2>2, <4>1
        <5>2. memory[from + 1 + (k - q + 1)] = old[q + (k - q + 1) - 1]
          BY <2>3, <5>1
        <5>3. QED
          BY <4>1, <5>1, <5>2
      <4>2. CASE k \notin q..(q + run - 1)
        <5>1. Mixed(old, new, s.at)[k] = IF k < s.at THEN old[k] ELSE new[k]
          BY DEF Mixed
        <5>2. k < s.at => k < q + run
          BY <1>1, <1>2, <2>2
        <5>3. k < q + run /\ ~(k < s.at) => k \in s.at..(q - 1)
          BY SMTT(40), <1>1, <1>2, <1>3, <2>2, <4>2
        <5>4. QED
          BY <1>4, <4>2, <5>1, <5>2, <5>3
      <4>3. QED
        BY <4>1, <4>2
    <3> HIDE DEF q, from
    <3>2. QED
      BY <3>1 DEF Mixed
  <2>6. Applied(old, new, at, t) = [from |-> from + 2 + run, to |-> q + run, out |-> out]
    <3>1. at + (len + 2 + run) = from + 2 + run
      BY <1>1, <2>2
    <3> HIDE DEF out, q
    <3>2. QED
      BY <2>1, <2>5, <3>1 DEF Applied
  <2>7. QED
    BY <2>4, <2>6 DEF d
<1>9. QED
  BY <1>2, <1>7, <1>8, MaxRunAssumption

\* After so many turns either loop has come as far as the other.
LEMMA Replays ==
  ASSUME NEW old, NEW new, Pair(old, new), Len(old) < Base * Base,
         NEW memory, NEW at \in Nat, Holds(memory, at, state_manager_raw_compress(old, new))
  PROVE  \A i \in 0..Len(old) :
           After(DecompressTurn(memory), [from |-> at, to |-> 1, out |-> new], i)
             = Applied(old, new, at, State(old, new, i))
<1> DEFINE n == Len(old)
           first == [from |-> at, to |-> 1, out |-> new]
           D(i) == After(DecompressTurn(memory), first, i)
           St(i) == State(old, new, i)
           S == { i \in Nat : i <= n => D(i) = Applied(old, new, at, St(i)) }
           p == state_manager_raw_compress(old, new)
<1>1. n \in Nat /\ Patch(old, new) = St(n).patch
  BY DEF Pair, Patch
<1>2. /\ Patch(old, new) \in Seq(Word) /\ Len(p) = Len(Patch(old, new)) + 3
      /\ \A k \in 1..Len(Patch(old, new)) : p[k] = Patch(old, new)[k]
      /\ \A k \in 1..3 : p[Len(Patch(old, new)) + k] = 0
  BY CompressIs
<1>3. \A k \in 1..Len(p) : memory[at + k - 1] = p[k]
  BY DEF Holds
<1> HIDE DEF p
<1>4. 0 \in S
  <2>1. St(0) = Begin /\ D(0) = first
    BY StateNext, AfterDef
  <2>2. Mixed(old, new, 1) = new
    <3>1. new = [k \in 1..n |-> new[k]]
      BY <1>1 DEF Pair
    <3>2. \A k \in 1..n : ~(k < 1)
      BY <1>1
    <3>3. QED
      BY <3>1, <3>2 DEF Mixed
  <2>3. Applied(old, new, at, Begin) = first
    <3>1. Begin.at = 1 /\ Len(Begin.patch) = 0 /\ at + 0 = at
      BY DEF Begin
    <3>2. QED
      BY <2>2, <3>1 DEF Applied
  <2>4. QED
    BY <2>1, <2>3
<1>5. ASSUME NEW i \in Nat, i \in S PROVE i + 1 \in S
  <2> SUFFICES ASSUME i + 1 <= n PROVE D(i + 1) = Applied(old, new, at, St(i + 1))
    OBVIOUS
  <2>1. D(i) = Applied(old, new, at, St(i)) /\ D(i + 1) = DecompressTurn(memory)[D(i)]
    <3>1. i <= n
      BY <1>1
    <3>2. D(i) = Applied(old, new, at, St(i))
      BY <1>5, <3>1
    <3>3. QED
      BY <3>2, AfterDef
  <2>2. St(i) \in Loops(old) /\ St(i + 1) \in Loops(old) /\ St(i + 1) = CompressTurn(old, new)[St(i)]
    <3>1. i + 1 \in Nat
      OBVIOUS
    <3>2. QED
      BY <3>1, StateType, StateNext
  <2> HIDE DEF D, S
  <2>3. CASE Done(old, new, St(i))
    <3>1. St(i + 1) = St(i)
      BY <2>2, <2>3, TurnEnds DEF Done
    <3>2. Patch(old, new) = St(i).patch
      <4>1. n - i \in Nat /\ i + (n - i) = n
        BY <1>1
      <4>2. State(old, new, i + (n - i)) = State(old, new, i)
        BY <2>3, <4>1, StateStays
      <4>3. QED
        BY <1>1, <4>1, <4>2
    <3> DEFINE d == Applied(old, new, at, St(i))
               len == Len(Patch(old, new))
    <3>3. d \in Applies /\ d.from = at + len
      <4>1. d.from = at + Len(St(i).patch)
        BY DEF Applied
      <4>2. QED
        BY <2>2, <3>2, <4>1, AppliedType
    <3>4. len \in Nat
      BY <1>2
    <3> HIDE DEF d
    <3>5. memory[d.from] = 0 /\ memory[d.from + 1] = 0 /\ memory[d.from + 2] = 0
      <4>1. /\ len + 1 \in 1..Len(p) /\ len + 2 \in 1..Len(p) /\ len + 3 \in 1..Len(p)
            /\ at + (len + 1) - 1 = d.from /\ at + (len + 2) - 1 = d.from + 1
            /\ at + (len + 3) - 1 = d.from + 2
        BY <1>2, <3>3, <3>4
      <4>2. p[len + 1] = 0 /\ p[len + 2] = 0 /\ p[len + 3] = 0
        BY <1>2
      <4>3. QED
        BY <1>3, <4>1, <4>2
    <3>6. memory[d.from + 1] + Base * memory[d.from + 2] = 0
      BY <3>5, MaxRunAssumption DEF Base
    <3>7. DecompressTurn(memory)[d] = d
      BY <3>3, <3>5, <3>6, ApplyEnds
    <3>8. QED
      BY <2>1, <3>1, <3>7 DEF d
  <2>4. CASE ~Done(old, new, St(i))
    <3>1. /\ Len(St(i + 1).patch) <= Len(Patch(old, new))
          /\ \A w \in 1..Len(St(i + 1).patch) : Patch(old, new)[w] = St(i + 1).patch[w]
      <4>1. i + 1 \in Nat /\ n - (i + 1) \in Nat /\ (i + 1) + (n - (i + 1)) = n
        BY <1>1
      <4>2. Begins(State(old, new, i + 1).patch, State(old, new, (i + 1) + (n - (i + 1))).patch)
        BY <4>1, StatePrefix
      <4>3. QED
        BY <1>1, <4>1, <4>2 DEF Begins
    <3> DEFINE t == St(i + 1)
    <3>2. Len(t.patch) \in Nat /\ Len(Patch(old, new)) \in Nat
      BY <1>2, <2>2 DEF Loops
    <3>3. Holds(memory, at, t.patch)
      <4>1. ASSUME NEW k \in 1..Len(t.patch) PROVE memory[at + k - 1] = t.patch[k]
        <5>1. k \in 1..Len(Patch(old, new)) /\ k \in 1..Len(p)
          BY <1>2, <3>1, <3>2
        <5>2. QED
          BY <1>2, <1>3, <3>1, <5>1
      <4> HIDE DEF t
      <4>2. QED
        BY <4>1 DEF Holds
    <3>4. DecompressTurn(memory)[Applied(old, new, at, St(i))] = Applied(old, new, at, t)
      BY <2>2, <2>4, <3>3, TurnBack
    <3>5. QED
      BY <2>1, <3>4
  <2>5. QED
    BY <2>3, <2>4
<1>6. \A i \in Nat : i \in S
  <2> HIDE DEF S
  <2>1. QED
    BY <1>4, <1>5, SetInduction
<1>7. QED
  BY <1>1, <1>6

\* A patch that lies anywhere in the memory turns the new block back into the old.
LEMMA PatchApplies ==
  ASSUME NEW old, NEW new, Pair(old, new), Len(old) < Base * Base,
         NEW memory, NEW at \in Nat, Holds(memory, at, state_manager_raw_compress(old, new))
  PROVE  state_manager_raw_decompress(memory, at, new) = old
<1> DEFINE n == Len(old)
           s == State(old, new, n)
<1>1. n \in Nat /\ Len(new) = n
  BY DEF Pair
<1>2. state_manager_raw_decompress(memory, at, new) = Mixed(old, new, s.at)
  <2>1. n \in 0..n
    BY <1>1
  <2>2. After(DecompressTurn(memory), [from |-> at, to |-> 1, out |-> new], n) = Applied(old, new, at, s)
    BY <2>1, Replays
  <2>3. QED
    BY <1>1, <2>2 DEF state_manager_raw_decompress, Applied
<1>3. s \in Loops(old) /\ s.at + Skip(old, new, s.at) > n
  BY <1>1, StateType, StateDone DEF Done
<1> HIDE DEF s
<1>4. s.at \in 1..(n + 1)
  BY <1>3 DEF Loops
<1>5. ASSUME NEW k \in 1..n PROVE (IF k < s.at THEN old[k] ELSE new[k]) = old[k]
  <2>1. /\ Skip(old, new, s.at) \in Nat
        /\ \A i \in s.at..(s.at + Skip(old, new, s.at) - 1) : ~Differ(old, new, i)
    BY <1>4, SkipIs
  <2>2. ~(k < s.at) => k \in s.at..(s.at + Skip(old, new, s.at) - 1)
    BY <1>1, <1>3, <1>4, <2>1
  <2>3. QED
    BY <2>1, <2>2, DifferIs
<1>6. old = [k \in 1..n |-> old[k]]
  BY DEF Pair
<1>7. QED
  BY <1>2, <1>5, <1>6 DEF Mixed

\* "Takes 'patch' from a previous call to raw_compress and applies it to 'data'
\* ('src' from that call), yielding 'dst' in that call": whatever the two blocks
\* are, as long as they are shorter than the greatest jump.
THEOREM PatchUndoes ==
  ASSUME NEW old, NEW new, Pair(old, new), Len(old) < Base * Base
  PROVE  Undoes(old, new)
<1> DEFINE p == state_manager_raw_compress(old, new)
           memory == [i \in 0..(Len(p) - 1) |-> p[i + 1]]
<1>1. Len(p) \in Nat
  BY CompressIs
<1> HIDE DEF p
<1>2. ASSUME NEW k \in 1..Len(p) PROVE memory[0 + k - 1] = p[k]
  <2>1. 0 + k - 1 \in 0..(Len(p) - 1) /\ (0 + k - 1) + 1 = k
    BY <1>1
  <2>2. QED
    BY <2>1
<1> HIDE DEF memory
<1>3. Holds(memory, 0, p)
  BY <1>2 DEF Holds
<1>4. state_manager_raw_decompress(memory, 0, new) = old
  BY <1>3, PatchApplies DEF p
<1>5. QED
  BY <1>4 DEF Undoes, memory, p

(***************************************************************************)
(* The ring.  The starts of the patches are numbered on without wrapping   *)
(* around, from the tail on (u), so that they grow and the head is less    *)
(* than a capacity ahead of the tail; b are the blocks the patches lead    *)
(* from and to.                                                            *)
(***************************************************************************)
\* The ring holds two patches of the greatest length, or state_manager_push_do
\* finds it too small for one.
RingFits ==
  \A c \in Capacities : c > SizeT /\ (c < SizeT + MaxCompSize \/ c >= 2 * MaxCompSize)

\* The length of a patch, and what it does.
LEMMA PatchSizes ==
  ASSUME NEW old \in Blocks, NEW new \in Blocks
  PROVE  /\ Pair(old, new) /\ Len(old) < Base * Base
         /\ MaxCompSize \in Nat /\ MaxCompSize >= 5
         /\ state_manager_raw_compress(old, new) \in Seq(Nat)
         /\ Len(state_manager_raw_compress(old, new)) \in 3..(MaxCompSize - 2)
<1>1. old \in Seq(Word) /\ new \in Seq(Word) /\ Len(old) = BlockSize /\ Len(new) = BlockSize
      /\ BlockSize < Base * Base
  BY RewindAssumption
<1>2. Pair(old, new) /\ Len(old) < Base * Base
  BY <1>1 DEF Pair
<1> DEFINE p == state_manager_raw_compress(old, new)
           d == (BlockSize + MaxRun - 1) \div MaxRun
<1>3. p \in Seq(Word) /\ Patch(old, new) \in Seq(Word) /\ Len(p) = Len(Patch(old, new)) + 3
  BY <1>2, CompressIs
<1>4. Len(p) <= state_manager_raw_maxsize(BlockSize)
  BY <1>1, <1>2, NoPatchIsLonger DEF Fits
<1>5. BlockSize \in Nat
  BY <1>1
<1>6. d \in Nat
  <2>1. BlockSize + MaxRun - 1 \in Nat /\ MaxRun \in Nat \ {0} /\ MaxRun * 0 <= BlockSize + MaxRun - 1
    BY <1>5, MaxRunAssumption
  <2>2. d \in Int
    BY <2>1, ModDef
  <2>3. 0 <= d
    BY <2>1, DivBound
  <2>4. QED
    BY <2>2, <2>3
<1>7. state_manager_raw_maxsize(BlockSize) = BlockSize + 2 * d + 3
  BY DEF state_manager_raw_maxsize
<1>8. MaxCompSize = BlockSize + 2 * d + 5
  <2> HIDE DEF d
  <2>1. QED
    BY <1>5, <1>6, <1>7 DEF MaxCompSize, SizeT
<1>9. Word \subseteq Nat
  BY MaxRunAssumption DEF Word
<1> HIDE DEF p, d
<1>10. p \in Seq(Nat)
  <2>1. Len(p) \in Nat /\ p = [i \in 1..Len(p) |-> p[i]] /\ \A i \in 1..Len(p) : p[i] \in Word
    BY <1>3
  <2>2. \A i \in 1..Len(p) : p[i] \in Nat
    BY <1>9, <2>1
  <2>3. [i \in 1..Len(p) |-> p[i]] \in Seq(Nat)
    BY <2>1, <2>2
  <2>4. QED
    BY <2>1, <2>3
<1>11. Len(p) \in 3..(MaxCompSize - 2) /\ MaxCompSize \in Nat /\ MaxCompSize >= 5
  BY <1>3, <1>4, <1>5, <1>6, <1>7, <1>8
<1>12. QED
  BY <1>2, <1>10, <1>11 DEF p
-----------------------------------------------------------------------------
(* Where the patches lie. *)

\* The address of a place, when the places are numbered on behind the end.
Addr(c, x) == IF x < c THEN x ELSE x - c

\* A patch and its two pointers: the patch from the block `new` to `old` begins at
\* place x, and the next one at y.
Link(c, mem, x, y, old, new) ==
  /\ x + Len(state_manager_raw_compress(old, new)) + 2 <= y
  /\ mem[Addr(c, x)] = Addr(c, y)
  /\ mem[Addr(c, y) - 1] = Addr(c, x)
  /\ Holds(mem, Addr(c, x) + 1, state_manager_raw_compress(old, new))

\* Where a patch may begin: one of the greatest length ends in front of the end of the
\* memory, and the pointer in front of it is not a part of a patch at the start.
Fit(c, x) ==
  /\ Addr(c, x) = 1 \/ Addr(c, x) >= 3
  /\ Addr(c, x) - 1 + MaxCompSize <= c

\* The places of n patches and of the head: they take less than the memory.
Places(c, n, u) ==
  /\ n \in Nat /\ c \in Nat /\ u \in [0..n -> Nat]
  /\ u[0] < c /\ u[n] + 2 <= u[0] + c
  /\ \A i, j \in 0..n : i <= j => u[i] + 5 * (j - i) <= u[j]
  /\ \/ n = 0 /\ u[0] = 1 /\ c < SizeT + MaxCompSize
     \/ c >= 2 * MaxCompSize /\ \A i \in 0..n : Fit(c, u[i])

\* n patches, and the n + 1 blocks they lead from and to.
Laid(c, mem, n, u, b) ==
  /\ Places(c, n, u)
  /\ b \in [0..n -> Blocks]
  /\ \A i \in 0..(n - 1) : Link(c, mem, u[i], u[i + 1], b[i], b[i + 1])

\* The room in front of the tail.
Room(c, n, u) == u[0] + c - u[n] - 1

\* The places and the blocks that are left when the k oldest patches are forgotten.
Kept(c, n, u, k) == [i \in 0..(n - k) |-> IF u[k] < c THEN u[i + k] ELSE u[i + k] - c]
Later(n, b, k) == [i \in 0..(n - k) |-> b[i + k]]

\* And when the newest one is taken off.
Fewer(n, f) == [i \in 0..(n - 1) |-> f[i]]

\* And when one is put behind them.
More(n, f, x) == [i \in 0..(n + 1) |-> IF i = n + 1 THEN x ELSE f[i]]

LEMMA Sizes ==
  ASSUME NEW block \in Blocks
  PROVE  SizeT = 1 /\ MaxCompSize \in Nat /\ MaxCompSize >= 5
BY PatchSizes DEF SizeT

\* The places grow and have addresses in the memory, and only the tail's is the tail.
LEMMA PlacesGrow ==
  ASSUME NEW c, NEW n, NEW u, Places(c, n, u), NEW i \in 0..n
  PROVE  /\ u[0] \in Nat /\ u[i] \in Nat /\ u[n] \in Nat
         /\ u[0] <= u[i] /\ u[i] <= u[n] /\ u[i] < 2 * c
         /\ Addr(c, u[i]) \in 0..(c - 1) /\ Addr(c, u[0]) = u[0]
         /\ i # 0 => Addr(c, u[i]) # u[0]
         /\ i # n => u[i] + 5 <= u[i + 1]
<1>1. n \in Nat /\ c \in Nat /\ u \in [0..n -> Nat] /\ u[0] < c /\ u[n] + 2 <= u[0] + c
  BY DEF Places
<1>2. 0 \in 0..n /\ n \in 0..n /\ 0 <= i /\ i <= n /\ i \in Int
  BY <1>1
<1>3. u[0] \in Nat /\ u[i] \in Nat /\ u[n] \in Nat
  BY <1>1, <1>2
<1>4. u[0] + 5 * (i - 0) <= u[i] /\ u[i] + 5 * (n - i) <= u[n]
  BY <1>2 DEF Places
<1>5. i # n => u[i] + 5 <= u[i + 1]
  <2>1. SUFFICES ASSUME i # n PROVE u[i] + 5 <= u[i + 1]
    OBVIOUS
  <2>2. i + 1 \in 0..n /\ i <= i + 1 /\ 5 * ((i + 1) - i) = 5
    BY <1>1, <1>2, <2>1
  <2>3. u[i] + 5 * ((i + 1) - i) <= u[i + 1]
    BY <2>2 DEF Places
  <2>4. QED
    BY <2>2, <2>3
<1>6. u[0] <= u[i] /\ u[i] <= u[n] /\ u[i] < 2 * c /\ (i # 0 => u[0] < u[i])
  BY <1>1, <1>2, <1>3, <1>4
<1>7. Addr(c, u[i]) \in 0..(c - 1) /\ Addr(c, u[0]) = u[0] /\ (i # 0 => Addr(c, u[i]) # u[0])
  BY <1>1, <1>3, <1>6 DEF Addr
<1>8. QED
  BY <1>3, <1>5, <1>6, <1>7

\* A pointer of the places is never 0, and the address in front of a place is that of
\* the place in front.
LEMMA PlacesFit ==
  ASSUME NEW block \in Blocks, NEW c, NEW n, NEW u, Places(c, n, u), NEW i \in 0..n
  PROVE  /\ Addr(c, u[i]) >= 1 /\ u[i] # c /\ u[i] >= 1
         /\ Addr(c, u[i]) - 1 = Addr(c, u[i] - 1)
<1>1. SizeT = 1 /\ MaxCompSize \in Nat
  BY Sizes
<1>2. u[i] \in Nat /\ u[i] < 2 * c /\ c \in Nat
  BY PlacesGrow DEF Places
<1>3. Addr(c, u[i]) >= 1
  <2>1. CASE n = 0 /\ u[0] = 1 /\ c < SizeT + MaxCompSize
    <3>1. i = 0 /\ u[0] < c
      BY <2>1 DEF Places
    <3>2. QED
      BY <1>2, <2>1, <3>1 DEF Addr
  <2>2. CASE Fit(c, u[i])
    BY <1>2, <2>2 DEF Fit, Addr
  <2>3. QED
    BY <2>1, <2>2 DEF Places
<1>4. QED
  BY <1>2, <1>3 DEF Addr
-----------------------------------------------------------------------------
(* The oldest patches are forgotten. *)

LEMMA KeptIs ==
  ASSUME NEW c, NEW n, NEW u, Places(c, n, u), NEW k \in 0..n, NEW i \in 0..(n - k)
  PROVE  /\ n \in Nat /\ n - k \in Nat /\ i + k \in 0..n
         /\ Kept(c, n, u, k)[i] \in Nat
         /\ Kept(c, n, u, k)[i] = (IF u[k] < c THEN u[i + k] ELSE u[i + k] - c)
         /\ Addr(c, Kept(c, n, u, k)[i]) = Addr(c, u[i + k])
<1>1. n \in Nat /\ c \in Nat
  BY DEF Places
<1>2. i \in Nat /\ k \in Nat /\ n - k \in Nat /\ i + k \in 0..n /\ k <= i + k
  BY <1>1
<1>3. u[k] \in Nat /\ u[i + k] \in Nat /\ u[i + k] < 2 * c
  BY <1>2, PlacesGrow
<1>4. u[k] + 5 * ((i + k) - k) <= u[i + k]
  BY <1>2 DEF Places
<1>5. Kept(c, n, u, k)[i] = (IF u[k] < c THEN u[i + k] ELSE u[i + k] - c)
  BY DEF Kept
<1>6. u[k] <= u[i + k]
  BY <1>2, <1>3, <1>4
<1>7. Kept(c, n, u, k)[i] \in Nat /\ Addr(c, Kept(c, n, u, k)[i]) = Addr(c, u[i + k])
  BY <1>1, <1>3, <1>5, <1>6 DEF Addr
<1>8. QED
  BY <1>1, <1>2, <1>5, <1>7

LEMMA KeptPlaces ==
  ASSUME NEW c, NEW n, NEW u, Places(c, n, u), NEW k \in 0..n
  PROVE  /\ Places(c, n - k, Kept(c, n, u, k))
         /\ Kept(c, n, u, k)[0] = Addr(c, u[k])
         /\ Addr(c, Kept(c, n, u, k)[n - k]) = Addr(c, u[n])
<1> DEFINE v == Kept(c, n, u, k)
           m == n - k
<1>1. n \in Nat /\ c \in Nat /\ k \in Nat /\ m \in Nat /\ 0 \in 0..m /\ m \in 0..m /\ m + k = n /\ 0 + k = k
      /\ u[0] < c /\ u[n] + 2 <= u[0] + c
  BY DEF Places
<1>2. \A i \in 0..m : /\ i + k \in 0..n /\ v[i] \in Nat
                      /\ v[i] = (IF u[k] < c THEN u[i + k] ELSE u[i + k] - c)
                      /\ Addr(c, v[i]) = Addr(c, u[i + k])
  BY KeptIs
<1>3. v \in [0..m -> Nat]
  <2>1. v = [i \in 0..m |-> v[i]]
    BY DEF Kept
  <2> HIDE DEF v, m
  <2>2. QED
    BY <1>2, <2>1
<1>4. u[0] \in Nat /\ u[k] \in Nat /\ u[n] \in Nat /\ u[0] <= u[k] /\ u[k] < 2 * c
  BY <1>1, PlacesGrow
<1>5. v[0] = (IF u[k] < c THEN u[k] ELSE u[k] - c) /\ v[m] = (IF u[k] < c THEN u[n] ELSE u[n] - c)
  <2> HIDE DEF v, m
  <2>1. QED
    BY <1>1, <1>2
<1>6. v[0] = Addr(c, u[k])
  BY <1>5 DEF Addr
<1>7. Addr(c, v[m]) = Addr(c, u[n])
  BY <1>1, <1>2
<1>8. v[0] < c /\ v[m] + 2 <= v[0] + c
  <2> HIDE DEF v, m
  <2>1. QED
    BY <1>1, <1>4, <1>5
<1>9. ASSUME NEW i \in 0..m, NEW j \in 0..m, i <= j PROVE v[i] + 5 * (j - i) <= v[j]
  <2>1. i + k \in 0..n /\ j + k \in 0..n /\ i + k <= j + k /\ (j + k) - (i + k) = j - i
    BY <1>1, <1>2, <1>9
  <2>2. u[i + k] + 5 * ((j + k) - (i + k)) <= u[j + k]
    BY <2>1 DEF Places
  <2>3. u[i + k] + 5 * (j - i) <= u[j + k]
    BY <2>1, <2>2
  <2>4. u[i + k] \in Nat /\ u[j + k] \in Nat
    BY <2>1, PlacesGrow
  <2>5. v[i] = (IF u[k] < c THEN u[i + k] ELSE u[i + k] - c) /\ v[j] = (IF u[k] < c THEN u[j + k] ELSE u[j + k] - c)
    BY <1>2
  <2> HIDE DEF v, m
  <2>6. QED
    BY <1>1, <2>3, <2>4, <2>5
<1>10. \/ m = 0 /\ v[0] = 1 /\ c < SizeT + MaxCompSize
       \/ c >= 2 * MaxCompSize /\ \A i \in 0..m : Fit(c, v[i])
  <2>1. CASE n = 0 /\ u[0] = 1 /\ c < SizeT + MaxCompSize
    <3>1. k = 0 /\ m = 0
      <4>1. n = 0 /\ k \in Nat /\ k <= n
        BY <1>1, <2>1
      <4>2. k = 0
        BY <4>1
      <4>3. QED
        BY <4>1, <4>2
    <3> HIDE DEF v, m
    <3>2. v[0] = 1
      BY <1>1, <1>4, <1>5, <2>1, <3>1
    <3>3. QED
      BY <2>1, <3>1, <3>2
  <2>2. CASE c >= 2 * MaxCompSize /\ \A i \in 0..n : Fit(c, u[i])
    <3>1. \A i \in 0..m : Fit(c, v[i])
      BY <1>2, <2>2 DEF Fit
    <3>2. QED
      BY <2>2, <3>1
  <2>3. QED
    BY <2>1, <2>2 DEF Places
<1> HIDE DEF v, m
<1>11. Places(c, m, v)
  BY <1>1, <1>3, <1>8, <1>9, <1>10 DEF Places
<1>12. QED
  BY <1>6, <1>7, <1>11 DEF v, m

LEMMA KeptLaid ==
  ASSUME NEW c, NEW mem, NEW n, NEW u, NEW b, Laid(c, mem, n, u, b), NEW k \in 0..n
  PROVE  Laid(c, mem, n - k, Kept(c, n, u, k), Later(n, b, k))
<1> DEFINE v == Kept(c, n, u, k)
           m == n - k
           d == Later(n, b, k)
<1>0. Places(c, n, u) /\ b \in [0..n -> Blocks]
  BY DEF Laid
<1>1. Places(c, n, u) /\ b \in [0..n -> Blocks] /\ n \in Nat /\ k \in Nat /\ m \in Nat
  <2>1. n \in Nat
    BY <1>0 DEF Places
  <2>2. QED
    BY <1>0, <2>1
<1>2. Places(c, m, v)
  BY <1>1, KeptPlaces
<1>3. \A i \in 0..m : /\ i + k \in 0..n
                      /\ Addr(c, v[i]) = Addr(c, u[i + k])
                      /\ v[i] = (IF u[k] < c THEN u[i + k] ELSE u[i + k] - c)
  BY <1>0, KeptIs
<1>4. d \in [0..m -> Blocks] /\ \A i \in 0..m : d[i] = b[i + k]
  BY <1>1, <1>3 DEF Later
<1>5. ASSUME NEW i \in 0..(m - 1) PROVE Link(c, mem, v[i], v[i + 1], d[i], d[i + 1])
  <2>1. i \in 0..m /\ i + 1 \in 0..m /\ i + k \in 0..(n - 1) /\ (i + 1) + k = (i + k) + 1
        /\ (i + k) + 1 \in 0..n /\ i + k \in 0..n
    BY <1>1
  <2>2. Link(c, mem, u[i + k], u[(i + k) + 1], b[i + k], b[(i + k) + 1])
    BY <2>1 DEF Laid
  <2>3. d[i] = b[i + k] /\ d[i + 1] = b[(i + k) + 1]
    <3>1. d[i] = b[i + k] /\ d[i + 1] = b[(i + 1) + k]
      BY <1>4, <2>1
    <3>2. QED
      BY <2>1, <3>1
  <2>4. Addr(c, v[i]) = Addr(c, u[i + k]) /\ v[i] = (IF u[k] < c THEN u[i + k] ELSE u[i + k] - c)
    BY <1>3, <2>1
  <2>5. /\ Addr(c, v[i + 1]) = Addr(c, u[(i + k) + 1])
        /\ v[i + 1] = (IF u[k] < c THEN u[(i + k) + 1] ELSE u[(i + k) + 1] - c)
    <3>1. /\ Addr(c, v[i + 1]) = Addr(c, u[(i + 1) + k])
          /\ v[i + 1] = (IF u[k] < c THEN u[(i + 1) + k] ELSE u[(i + 1) + k] - c)
      BY <1>3, <2>1
    <3>2. QED
      BY <2>1, <3>1
  <2>6. u[i + k] \in Nat /\ u[(i + k) + 1] \in Nat /\ c \in Nat
    BY <1>1, <2>1, PlacesGrow DEF Places
  <2>7. Len(state_manager_raw_compress(b[i + k], b[(i + k) + 1])) \in Int
    BY <1>1, <2>1, PatchSizes
  <2>8. QED
    <3> DEFINE p == state_manager_raw_compress(b[i + k], b[(i + k) + 1])
    <3>1. p = state_manager_raw_compress(d[i], d[i + 1])
      BY <2>3
    <3> HIDE DEF v, m, d
    <3>2. u[i + k] + Len(p) + 2 <= u[(i + k) + 1]
      BY <2>2 DEF Link
    <3>3. v[i] + Len(p) + 2 <= v[i + 1]
      <4> HIDE DEF p
      <4>1. Len(p) \in Int
        BY <2>7 DEF p
      <4>2. QED
        BY SMTT(40), <2>4, <2>5, <2>6, <3>2, <4>1
    <3>4. mem[Addr(c, v[i])] = Addr(c, v[i + 1]) /\ mem[Addr(c, v[i + 1]) - 1] = Addr(c, v[i])
      BY <2>2, <2>4, <2>5 DEF Link
    <3>5. Holds(mem, Addr(c, v[i]) + 1, p)
      BY <2>2, <2>4 DEF Link
    <3> HIDE DEF p
    <3>6. QED
      BY <3>1, <3>3, <3>4, <3>5 DEF Link
<1> HIDE DEF v, m, d
<1>6. Laid(c, mem, m, v, d)
  BY <1>2, <1>4, <1>5 DEF Laid
<1>7. QED
  BY <1>6 DEF v, m, d
-----------------------------------------------------------------------------
(* The newest patch is taken off. *)

FewerLies(c, mem, n, u, b) ==
  /\ n - 1 \in Nat
  /\ Laid(c, mem, n - 1, Fewer(n, u), Fewer(n, b))
  /\ Fewer(n, u)[0] = u[0] /\ Fewer(n, u)[n - 1] = u[n - 1] /\ Fewer(n, b)[n - 1] = b[n - 1]

LEMMA FewerLaid ==
  ASSUME NEW c, NEW mem, NEW n, NEW u, NEW b, Laid(c, mem, n, u, b), n # 0
  PROVE  FewerLies(c, mem, n, u, b)
<1>1. Places(c, n, u) /\ b \in [0..n -> Blocks]
  BY DEF Laid
<1>2. n \in Nat /\ c \in Nat /\ u \in [0..n -> Nat] /\ u[0] < c /\ u[n] + 2 <= u[0] + c
  BY <1>1 DEF Places
<1> DEFINE m == n - 1
<1>3. m \in Nat /\ 0 \in 0..m /\ m \in 0..m /\ m \in 0..n /\ m + 1 = n /\ \A i \in 0..m : i \in 0..n
  BY <1>2
<1> DEFINE v == Fewer(n, u)
           d == Fewer(n, b)
<1>4. v \in [0..m -> Nat] /\ (\A i \in 0..m : v[i] = u[i])
  BY <1>2, <1>3 DEF Fewer
<1>5. d \in [0..m -> Blocks] /\ (\A i \in 0..m : d[i] = b[i])
  BY <1>1, <1>3 DEF Fewer
<1>6. v[0] = u[0] /\ v[m] = u[m] /\ d[m] = b[m]
  BY <1>3, <1>4, <1>5
<1>7. u[m] + 5 <= u[n] /\ u[m] \in Nat /\ u[n] \in Nat
  <2>1. m # n
    BY <1>2
  <2> HIDE DEF m
  <2>2. u[m] + 5 <= u[m + 1] /\ u[m] \in Nat /\ u[n] \in Nat
    BY <1>1, <1>3, <2>1, PlacesGrow
  <2>3. QED
    BY <1>3, <2>2
<1> HIDE DEF m, v, d
<1>8. Places(c, m, v)
  <2>1. v[m] + 2 <= v[0] + c
    <3>1. u[0] \in Nat
      BY <1>2, <1>3
    <3>2. QED
      BY <1>2, <1>6, <1>7, <3>1
  <2>2. \A i, j \in 0..m : i <= j => v[i] + 5 * (j - i) <= v[j]
    <3>1. \A i, j \in 0..n : i <= j => u[i] + 5 * (j - i) <= u[j]
      BY <1>1 DEF Places
    <3>2. QED
      BY <1>3, <1>4, <3>1
  <2>3. c >= 2 * MaxCompSize /\ \A i \in 0..m : Fit(c, v[i])
    <3>1. c >= 2 * MaxCompSize /\ \A i \in 0..n : Fit(c, u[i])
      BY <1>1 DEF Places
    <3>2. QED
      BY <1>3, <1>4, <3>1
  <2>4. QED
    BY <1>2, <1>3, <1>4, <1>6, <2>1, <2>2, <2>3 DEF Places
<1>9. \A i \in 0..(m - 1) : Link(c, mem, v[i], v[i + 1], d[i], d[i + 1])
  <2>1. ASSUME NEW i \in 0..(m - 1) PROVE Link(c, mem, v[i], v[i + 1], d[i], d[i + 1])
    <3>1. i \in 0..m /\ i + 1 \in 0..m /\ i \in 0..(n - 1)
      BY <1>2, <1>3
    <3>2. Link(c, mem, u[i], u[i + 1], b[i], b[i + 1])
      BY <3>1 DEF Laid
    <3>3. v[i] = u[i] /\ v[i + 1] = u[i + 1] /\ d[i] = b[i] /\ d[i + 1] = b[i + 1]
      BY <1>4, <1>5, <3>1
    <3>4. QED
      BY <3>2, <3>3
  <2>2. QED
    BY <2>1
<1>10. Laid(c, mem, m, v, d)
  BY <1>5, <1>8, <1>9 DEF Laid
<1>11. QED
  BY <1>3, <1>6, <1>10 DEF FewerLies, m, v, d
-----------------------------------------------------------------------------
(* A patch is put behind the others. *)

LEMMA MorePlaces ==
  ASSUME NEW block \in Blocks, NEW c, NEW n, NEW u, Places(c, n, u), c >= 2 * MaxCompSize,
         NEW y \in Nat, u[n] + 5 <= y, y + 2 <= u[0] + c, Fit(c, y)
  PROVE  Places(c, n + 1, More(n, u, y))
<1> DEFINE m == n + 1
           v == More(n, u, y)
<1>1. n \in Nat /\ c \in Nat /\ u \in [0..n -> Nat] /\ u[0] < c /\ u[n] + 2 <= u[0] + c
  BY DEF Places
<1>2. m \in Nat /\ 0 \in 0..n /\ n \in 0..n /\ 0 \in 0..m /\ m \in 0..m /\ 0 # m
      /\ \A i \in 0..m : i # m => i \in 0..n /\ i <= n
  BY <1>1
<1>3. \A i \in 0..m : v[i] = (IF i = m THEN y ELSE u[i])
  BY DEF More
<1>4. v \in [0..m -> Nat]
  BY <1>1, <1>2 DEF More
<1>5. v[0] = u[0] /\ v[m] = y
  BY <1>2, <1>3
<1> HIDE DEF m, v
<1>6. \A i, j \in 0..m : i <= j => v[i] + 5 * (j - i) <= v[j]
  <2>1. SUFFICES ASSUME NEW i \in 0..m, NEW j \in 0..m, i <= j PROVE v[i] + 5 * (j - i) <= v[j]
    OBVIOUS
  <2>2. m = n + 1
    BY DEF m
  <2>3. CASE j # m
    <3>1. i # m /\ i \in 0..n /\ j \in 0..n
      BY <1>2, <2>1, <2>3
    <3>2. u[i] + 5 * (j - i) <= u[j]
      BY <2>1, <3>1 DEF Places
    <3>3. QED
      BY <1>3, <2>3, <3>1, <3>2
  <2>4. CASE j = m /\ i # m
    <3>1. i \in 0..n /\ i <= n
      BY <1>2, <2>4
    <3>2. u[i] + 5 * (n - i) <= u[n]
      BY <1>2, <3>1 DEF Places
    <3>3. u[i] \in Nat /\ u[n] \in Nat
      BY <1>1, <1>2, <3>1
    <3>4. u[i] + 5 * (m - i) <= y
      BY <1>1, <2>2, <3>1, <3>2, <3>3
    <3>5. QED
      BY <1>3, <2>4, <3>4
  <2>5. CASE j = m /\ i = m
    BY <1>2, <1>4, <2>5
  <2>6. QED
    BY <2>3, <2>4, <2>5
<1>7. \A i \in 0..m : Fit(c, v[i])
  <2>1. \A i \in 0..n : Fit(c, u[i])
    <3>1. SizeT = 1 /\ MaxCompSize \in Nat /\ MaxCompSize >= 5
      BY Sizes
    <3>2. ~(c < SizeT + MaxCompSize)
      BY <1>1, <3>1
    <3>3. QED
      BY <3>2 DEF Places
  <2>2. QED
    BY <1>2, <1>3, <2>1
<1>8. Places(c, m, v)
  BY <1>1, <1>2, <1>4, <1>5, <1>6, <1>7 DEF Places
<1>9. QED
  BY <1>8 DEF m, v

\* The cells of a patch are those of the places from its own to the next one's.
LEMMA LinkCells ==
  ASSUME NEW old \in Blocks, NEW new \in Blocks, NEW c \in Nat, NEW mem, NEW mem2,
         NEW x \in Nat, NEW y \in Nat, y < 2 * c, Fit(c, x), Addr(c, y) - 1 = Addr(c, y - 1),
         Link(c, mem, x, y, old, new),
         \A w \in x..(y - 1) : mem2[Addr(c, w)] = mem[Addr(c, w)]
  PROVE  Link(c, mem2, x, y, old, new)
<1> DEFINE p == state_manager_raw_compress(old, new)
<1>1. Len(p) \in 3..(MaxCompSize - 2) /\ MaxCompSize \in Nat
  BY PatchSizes
<1>2. /\ x + Len(p) + 2 <= y
      /\ mem[Addr(c, x)] = Addr(c, y) /\ mem[Addr(c, y) - 1] = Addr(c, x)
      /\ Holds(mem, Addr(c, x) + 1, p)
  BY DEF Link
<1> HIDE DEF p
<1>3. x \in x..(y - 1) /\ y - 1 \in x..(y - 1)
  BY <1>1, <1>2
<1>4. mem2[Addr(c, x)] = Addr(c, y)
  BY <1>2, <1>3
<1>5. mem2[Addr(c, y) - 1] = Addr(c, x)
  BY <1>2, <1>3
<1>6. ASSUME NEW k \in 1..Len(p) PROVE mem2[Addr(c, x) + 1 + k - 1] = p[k]
  <2>1. x + k \in x..(y - 1)
    BY <1>1, <1>2
  <2>2. Addr(c, x + k) = Addr(c, x) + 1 + k - 1
    BY <1>1 DEF Fit, Addr
  <2>3. mem[Addr(c, x) + 1 + k - 1] = p[k]
    BY <1>2 DEF Holds
  <2>4. mem2[Addr(c, x + k)] = mem[Addr(c, x + k)]
    BY <2>1
  <2>5. QED
    BY <2>2, <2>3, <2>4
<1>7. Holds(mem2, Addr(c, x) + 1, p)
  BY <1>6 DEF Holds
<1>8. QED
  BY <1>2, <1>4, <1>5, <1>7 DEF Link, p

LEMMA MoreLaid ==
  ASSUME NEW c, NEW mem, NEW mem2, NEW n, NEW u, NEW b, Laid(c, mem, n, u, b),
         c >= 2 * MaxCompSize, NEW y \in Nat, u[n] + 5 <= y, y + 2 <= u[0] + c, Fit(c, y),
         \A w \in u[0]..(u[n] - 1) : mem2[Addr(c, w)] = mem[Addr(c, w)],
         NEW s \in Blocks, Link(c, mem2, u[n], y, b[n], s)
  PROVE  Laid(c, mem2, n + 1, More(n, u, y), More(n, b, s))
<1> DEFINE m == n + 1
           v == More(n, u, y)
           d == More(n, b, s)
<1>1. Places(c, n, u) /\ b \in [0..n -> Blocks]
  BY DEF Laid
<1>2. n \in Nat /\ c \in Nat
  BY <1>1 DEF Places
<1>3. Places(c, m, v)
  BY <1>1, MorePlaces
<1>4. m \in Nat /\ n # m /\ (\A i \in 0..m : i # m => i \in 0..n)
      /\ \A i \in 0..(m - 1) : i \in 0..n /\ i \in 0..m /\ i + 1 \in 0..m /\ i # m
                               /\ (i = n \/ (i + 1 # m /\ i \in 0..(n - 1) /\ i + 1 \in 0..n))
  BY <1>2
<1>5. d \in [0..m -> Blocks]
  BY <1>1, <1>4 DEF More
<1>6. \A i \in 0..m : v[i] = (IF i = m THEN y ELSE u[i]) /\ d[i] = (IF i = m THEN s ELSE b[i])
  BY DEF More
<1>7. n + 1 = m
  OBVIOUS
<1> HIDE DEF m, v, d
<1>8. \A i \in 0..(m - 1) : Link(c, mem2, v[i], v[i + 1], d[i], d[i + 1])
  <2>1. SUFFICES ASSUME NEW i \in 0..(m - 1) PROVE Link(c, mem2, v[i], v[i + 1], d[i], d[i + 1])
    OBVIOUS
  <2>2. CASE i = n
    <3>1. v[i] = u[n] /\ v[i + 1] = y /\ d[i] = b[n] /\ d[i + 1] = s
      BY <1>4, <1>6, <1>7, <2>2
    <3>2. QED
      BY <3>1
  <2>3. CASE i # n
    <3>1. i \in 0..n /\ i \in 0..(n - 1) /\ i + 1 \in 0..n /\ i \in 0..m /\ i + 1 \in 0..m /\ i # m /\ i + 1 # m
      BY <1>4, <2>3
    <3>2. v[i] = u[i] /\ v[i + 1] = u[i + 1] /\ d[i] = b[i] /\ d[i + 1] = b[i + 1]
      BY <1>6, <3>1
    <3>3. Link(c, mem, u[i], u[i + 1], b[i], b[i + 1])
      BY <3>1 DEF Laid
    <3>4. b[i] \in Blocks /\ b[i + 1] \in Blocks
      BY <1>1, <3>1
    <3>5. u[i] \in Nat /\ u[i + 1] \in Nat /\ u[i + 1] < 2 * c /\ u[0] <= u[i] /\ u[i + 1] <= u[n]
          /\ u[0] \in Nat /\ u[n] \in Nat
      BY <1>1, <3>1, PlacesGrow
    <3>6. Fit(c, u[i])
      <4>1. SizeT = 1 /\ MaxCompSize \in Nat /\ MaxCompSize >= 5
        BY Sizes
      <4>2. ~(c < SizeT + MaxCompSize)
        BY <1>2, <4>1
      <4>3. QED
        BY <1>1, <3>1, <4>2 DEF Places
    <3>7. Addr(c, u[i + 1]) - 1 = Addr(c, u[i + 1] - 1)
      BY <1>1, <3>1, PlacesFit
    <3>8. \A w \in u[i]..(u[i + 1] - 1) : mem2[Addr(c, w)] = mem[Addr(c, w)]
      <4>1. \A w \in u[i]..(u[i + 1] - 1) : w \in u[0]..(u[n] - 1)
        BY <3>5
      <4>2. QED
        BY <4>1
    <3>9. Link(c, mem2, u[i], u[i + 1], b[i], b[i + 1])
      BY <1>2, <3>3, <3>4, <3>5, <3>6, <3>7, <3>8, LinkCells
    <3>10. QED
      BY <3>2, <3>9
  <2>4. QED
    BY <2>2, <2>3
<1>9. Laid(c, mem2, m, v, d)
  BY <1>3, <1>5, <1>8 DEF Laid
<1>10. QED
  BY <1>9 DEF m, v, d

\* The memory once a patch has been written behind h, with the pointers at its sides.
Written(mem, h, end, back, p) ==
  [[i \in DOMAIN mem |-> IF i \in (h + SizeT)..(end - 1) THEN p[i - h - SizeT + 1] ELSE mem[i]]
     EXCEPT ![back] = h, ![h] = back + SizeT]

Writes(c, mem, w, h, end, back, p) ==
  /\ w \in [0..(c - 1) -> Nat]
  /\ w[h] = back + 1 /\ w[back] = h
  /\ \A k \in 1..Len(p) : w[h + k] = p[k]
  /\ \A i \in 0..(c - 1) : (i < h \/ i >= end) /\ i # back => w[i] = mem[i]

LEMMA WrittenIs ==
  ASSUME NEW c \in Nat, NEW mem \in [0..(c - 1) -> Nat], NEW p \in Seq(Nat),
         NEW h \in 0..(c - 1), NEW back \in 0..(c - 1), NEW end \in 0..c, end = h + 1 + Len(p),
         back < h \/ back >= end
  PROVE  Writes(c, mem, Written(mem, h, end, back, p), h, end, back, p)
<1> DEFINE f == [i \in 0..(c - 1) |-> IF i \in (h + 1)..(end - 1) THEN p[i - h] ELSE mem[i]]
           g == [f EXCEPT ![back] = h, ![h] = back + 1]
<1>1. Len(p) \in Nat /\ h \in Nat /\ back \in Nat /\ h # back
  OBVIOUS
<1>2. Written(mem, h, end, back, p) = g
  <2>1. DOMAIN mem = 0..(c - 1)
    OBVIOUS
  <2>2. \A i \in 0..(c - 1) : i - h - 1 + 1 = i - h
    BY <1>1
  <2>3. [i \in DOMAIN mem |-> IF i \in (h + 1)..(end - 1) THEN p[i - h - 1 + 1] ELSE mem[i]] = f
    BY <2>1, <2>2
  <2>4. QED
    BY <2>3 DEF Written, SizeT
<1>3. f \in [0..(c - 1) -> Nat]
  <2>1. \A i \in (h + 1)..(end - 1) : p[i - h] \in Nat
    <3>1. SUFFICES ASSUME NEW i \in (h + 1)..(end - 1) PROVE p[i - h] \in Nat
      OBVIOUS
    <3>2. i - h \in 1..Len(p)
      BY <1>1
    <3>3. QED
      BY SMTT(40), <3>2
  <2>2. \A i \in 0..(c - 1) : f[i] \in Nat
    BY <2>1
  <2>3. QED
    BY <2>2
<1>4. g \in [0..(c - 1) -> Nat]
  <2> HIDE DEF f
  <2>1. h \in Nat /\ back + 1 \in Nat
    BY <1>1
  <2>2. \A e \in [0..(c - 1) -> Nat], i, x \in Nat : [e EXCEPT ![i] = x] \in [0..(c - 1) -> Nat]
    OBVIOUS
  <2>3. QED
    BY <1>1, <1>3, <2>1, <2>2
<1>5. \A i \in 0..(c - 1) : g[i] = (IF i = h THEN back + 1 ELSE IF i = back THEN h ELSE f[i])
  <2> HIDE DEF f
  <2>1. QED
    BY <1>1, <1>3
<1>6. \A i \in 0..(c - 1) : f[i] = (IF i \in (h + 1)..(end - 1) THEN p[i - h] ELSE mem[i])
  OBVIOUS
<1> HIDE DEF f, g
<1>7. g[h] = back + 1 /\ g[back] = h
  BY <1>1, <1>5
<1>8. ASSUME NEW k \in 1..Len(p) PROVE g[h + k] = p[k]
  <2>1. h + k \in 0..(c - 1) /\ h + k # h /\ h + k # back /\ h + k \in (h + 1)..(end - 1) /\ (h + k) - h = k
    BY SMTT(40), <1>1
  <2>2. g[h + k] = f[h + k]
    BY <1>5, <2>1
  <2>3. f[h + k] = p[(h + k) - h]
    BY <1>6, <2>1
  <2>4. QED
    BY <2>1, <2>2, <2>3
<1>9. ASSUME NEW i \in 0..(c - 1), i < h \/ i >= end, i # back PROVE g[i] = mem[i]
  <2>1. i # h /\ i \notin (h + 1)..(end - 1)
    BY <1>1, <1>9
  <2>2. QED
    BY <1>5, <1>6, <1>9, <2>1
<1>10. QED
  BY <1>2, <1>4, <1>7, <1>8, <1>9 DEF Writes

\* The patches that are kept are not written to.
LEMMA Apart ==
  ASSUME NEW c \in Nat, NEW x \in Nat, NEW z \in Nat, NEW y \in Nat, NEW len \in Nat,
         x < c, x <= z, z + 2 <= x + c, z + len + 2 <= y, y + 2 <= x + c,
         Addr(c, y) >= 1, Addr(c, z) + 1 + len <= c,
         NEW w \in x..(z - 1)
  PROVE  /\ Addr(c, w) \in 0..(c - 1)
         /\ Addr(c, w) < Addr(c, z) \/ Addr(c, w) >= Addr(c, z) + 1 + len
         /\ Addr(c, w) # Addr(c, y) - 1
BY DEF Addr

\* And what is written in front of the next place is not in the patch.
LEMMA NextApart ==
  ASSUME NEW c \in Nat, NEW x \in Nat, NEW z \in Nat, NEW y \in Nat, NEW len \in Nat,
         x < c, x <= z, z + 2 <= x + c, len >= 3, z + len + 2 <= y, y + 2 <= x + c,
         Addr(c, y) = 1 \/ Addr(c, y) >= 3, Addr(c, z) + 1 + len <= c
  PROVE  /\ z + 5 <= y
         /\ Addr(c, y) >= 1 /\ Addr(c, y) - 1 \in 0..(c - 1)
         /\ Addr(c, y) - 1 < Addr(c, z) \/ Addr(c, y) - 1 >= Addr(c, z) + 1 + len
BY DEF Addr

LEMMA WrittenLaid ==
  ASSUME NEW c, NEW mem \in [0..(c - 1) -> Nat], NEW n, NEW u, NEW b, Laid(c, mem, n, u, b),
         c >= 2 * MaxCompSize, NEW s \in Blocks, NEW p, p = state_manager_raw_compress(b[n], s),
         NEW h, h = Addr(c, u[n]), NEW len \in Nat, len = Len(p), h + 1 + len <= c,
         NEW y \in Nat, u[n] + len + 2 <= y, y + 2 <= u[0] + c, Fit(c, y),
         NEW mem2, mem2 = Written(mem, h, h + 1 + len, Addr(c, y) - 1, p)
  PROVE  /\ mem2 \in [0..(c - 1) -> Nat]
         /\ Laid(c, mem2, n + 1, More(n, u, y), More(n, b, s))
<1> DEFINE end == h + 1 + len
           back == Addr(c, y) - 1
<1>1. Places(c, n, u) /\ b \in [0..n -> Blocks]
  BY DEF Laid
<1>2. n \in Nat /\ c \in Nat /\ n \in 0..n /\ u[0] < c /\ u[n] + 2 <= u[0] + c
  BY <1>1 DEF Places
<1>3. b[n] \in Blocks
  BY <1>1, <1>2
<1>4. p \in Seq(Nat) /\ len \in 3..(MaxCompSize - 2) /\ MaxCompSize \in Nat
  BY <1>3, PatchSizes
<1>5. u[0] \in Nat /\ u[n] \in Nat /\ u[0] <= u[n] /\ h \in 0..(c - 1)
  BY <1>1, <1>2, PlacesGrow
<1>6. u[n] + 5 <= y /\ Addr(c, y) >= 1 /\ back \in 0..(c - 1) /\ (back < h \/ back >= end)
  <2>1. len \in Nat /\ len >= 3 /\ Addr(c, u[n]) + 1 + len <= c
    BY <1>4
  <2>2. Addr(c, y) = 1 \/ Addr(c, y) >= 3
    BY DEF Fit
  <2>3. /\ u[n] + 5 <= y
        /\ Addr(c, y) >= 1 /\ Addr(c, y) - 1 \in 0..(c - 1)
        /\ Addr(c, y) - 1 < Addr(c, u[n]) \/ Addr(c, y) - 1 >= Addr(c, u[n]) + 1 + len
    BY <1>2, <1>5, <2>1, <2>2, NextApart
  <2>4. QED
    BY <2>3
<1>7. end \in 0..c /\ end = h + 1 + len
  BY <1>5
<1>8. mem2 = Written(mem, h, end, back, p)
  OBVIOUS
<1> HIDE DEF end, back
<1>9. /\ mem2 \in [0..(c - 1) -> Nat]
      /\ mem2[h] = back + 1 /\ mem2[back] = h
      /\ \A k \in 1..Len(p) : mem2[h + k] = p[k]
      /\ \A i \in 0..(c - 1) : (i < h \/ i >= end) /\ i # back => mem2[i] = mem[i]
  <2>1. len = Len(p) /\ end = h + 1 + Len(p)
    BY <1>7
  <2>2. back < h \/ back >= end
    BY <1>6
  <2>3. Writes(c, mem, Written(mem, h, end, back, p), h, end, back, p)
    BY <1>2, <1>4, <1>5, <1>6, <1>7, <2>1, <2>2, WrittenIs
  <2>4. QED
    BY <1>8, <2>3 DEF Writes
<1>10. \A w \in u[0]..(u[n] - 1) : mem2[Addr(c, w)] = mem[Addr(c, w)]
  <2>1. SUFFICES ASSUME NEW w \in u[0]..(u[n] - 1) PROVE mem2[Addr(c, w)] = mem[Addr(c, w)]
    OBVIOUS
  <2>3. /\ Addr(c, w) \in 0..(c - 1)
        /\ Addr(c, w) < Addr(c, u[n]) \/ Addr(c, w) >= Addr(c, u[n]) + 1 + len
        /\ Addr(c, w) # Addr(c, y) - 1
    BY <1>2, <1>5, <1>6, Apart
  <2>4. QED
    BY <1>7, <1>9, <2>3 DEF back
<1>11. Link(c, mem2, u[n], y, b[n], s)
  <2>1. \A k \in 1..Len(p) : mem2[h + 1 + k - 1] = p[k]
    <3>1. \A k \in 1..Len(p) : h + 1 + k - 1 = h + k
      BY <1>4, <1>5
    <3>2. QED
      BY <1>9, <3>1
  <2>2. mem2[Addr(c, u[n])] = Addr(c, y)
    <3>1. mem2[Addr(c, u[n])] = (Addr(c, y) - 1) + 1
      BY <1>9 DEF back
    <3>2. Addr(c, y) - 1 \in Nat
      BY <1>6 DEF back
    <3>3. Addr(c, y) \in Int
      BY <1>2 DEF Addr
    <3>4. QED
      BY <3>1, <3>3
  <2>3. mem2[Addr(c, y) - 1] = Addr(c, u[n])
    BY <1>9 DEF back
  <2>4. Holds(mem2, Addr(c, u[n]) + 1, p)
    BY <2>1 DEF Holds
  <2>5. QED
    BY <2>2, <2>3, <2>4 DEF Link
<1>12. Laid(c, mem2, n + 1, More(n, u, y), More(n, b, s))
  BY <1>6, <1>10, <1>11, MoreLaid
<1>13. QED
  BY <1>9, <1>12
-----------------------------------------------------------------------------
(* Where the next patch may begin. *)

\* In front of the edge: behind this one.
LEMMA Behind ==
  ASSUME NEW block \in Blocks, NEW c, NEW n, NEW u, Places(c, n, u), c >= 2 * MaxCompSize,
         Room(c, n, u) > MaxCompSize, NEW len \in 3..(MaxCompSize - 2),
         Addr(c, u[n]) + 1 + len + MaxCompSize <= c
  PROVE  /\ u[n] + len + 2 \in Nat
         /\ u[n] + len + 2 + 2 <= u[0] + c
         /\ Fit(c, u[n] + len + 2)
         /\ Addr(c, u[n] + len + 2) = Addr(c, u[n]) + 1 + len + 1
<1>1. n \in Nat /\ c \in Nat /\ n \in 0..n /\ u[0] < c
  BY DEF Places
<1>2. u[0] \in Nat /\ u[n] \in Nat /\ u[n] < 2 * c
  BY <1>1, PlacesGrow
<1>3. Addr(c, u[n]) >= 1
  BY <1>1, PlacesFit
<1>4. MaxCompSize \in Nat
  BY Sizes
<1>5. QED
  BY <1>1, <1>2, <1>3, <1>4 DEF Room, Addr, Fit

\* At the edge: at the start of the memory, where the tail must not be.
LEMMA AtStart ==
  ASSUME NEW block \in Blocks, NEW c, NEW n, NEW u, Places(c, n, u), c >= 2 * MaxCompSize,
         Room(c, n, u) > MaxCompSize, NEW len \in 3..(MaxCompSize - 2),
         Addr(c, u[n]) + 1 + len + MaxCompSize > c
  PROVE  /\ u[n] < c /\ Addr(c, u[n]) + 1 + len <= c
         /\ u[0] = 1 => n # 0
         /\ u[0] # 1 => /\ c + 1 \in Nat /\ u[n] + len + 2 <= c + 1 /\ c + 1 + 2 <= u[0] + c
                        /\ Fit(c, c + 1) /\ Addr(c, c + 1) = 1
<1>1. n \in Nat /\ c \in Nat /\ n \in 0..n /\ 0 \in 0..n /\ u[0] < c
  BY DEF Places
<1>2. u[0] \in Nat /\ u[n] \in Nat /\ u[n] < 2 * c /\ u[0] <= u[n] /\ Addr(c, u[0]) = u[0]
  BY <1>1, PlacesGrow
<1>3. SizeT = 1 /\ MaxCompSize \in Nat /\ MaxCompSize >= 5
  BY Sizes
<1>4. Fit(c, u[0]) /\ Fit(c, u[n])
  <2>1. ~(c < SizeT + MaxCompSize)
    BY <1>1, <1>3
  <2>2. QED
    BY <1>1, <2>1 DEF Places
<1>5. u[n] < c
  BY <1>1, <1>2, <1>3, <1>4 DEF Room, Addr, Fit
<1>6. Addr(c, u[n]) + 1 + len <= c
  BY <1>1, <1>2, <1>3, <1>4, <1>5 DEF Addr, Fit
<1>7. u[0] = 1 => n # 0
  BY <1>1, <1>2, <1>3, <1>5 DEF Addr
<1>8. u[0] # 1 => u[0] >= 3
  BY <1>2, <1>4 DEF Fit
<1>9. u[n] + len + 2 <= c + 1
  BY <1>1, <1>2, <1>5, <1>6 DEF Addr
<1>10. Fit(c, c + 1) /\ Addr(c, c + 1) = 1
  BY <1>1, <1>3 DEF Fit, Addr
<1>11. QED
  BY <1>1, <1>2, <1>5, <1>6, <1>7, <1>8, <1>9, <1>10
-----------------------------------------------------------------------------
(* Old frames are discarded. *)

LEMMA RemainingIs ==
  ASSUME NEW n, NEW u, Places(capacity, n, u), NEW k \in 0..n
  PROVE  Remaining(Addr(capacity, u[k]), Addr(capacity, u[n])) = u[k] + capacity - u[n] - 1
<1> DEFINE d == u[n] - u[k]
           e == Addr(capacity, u[k]) + capacity - SizeT - Addr(capacity, u[n]) - 1
<1>1. n \in Nat /\ capacity \in Nat /\ k \in 0..n /\ n \in 0..n /\ u[0] < capacity /\ u[n] + 2 <= u[0] + capacity
  BY DEF Places
<1>2. u[0] \in Nat /\ u[k] \in Nat /\ u[n] \in Nat /\ u[0] <= u[k] /\ u[k] <= u[n]
  BY <1>1, PlacesGrow
<1>3. capacity \in Nat \ {0} /\ d \in 0..(capacity - 2)
  BY <1>1, <1>2
<1>4. e = capacity - 2 - d \/ e = (capacity - 2 - d) + capacity
  BY <1>1, <1>2 DEF Addr, SizeT
<1> HIDE DEF d
<1>5. capacity - 2 - d \in Int /\ 0 <= capacity - 2 - d /\ capacity - 2 - d < capacity
  BY <1>3
<1>6. (capacity - 2 - d) % capacity = capacity - 2 - d
  <2>1. -capacity <= capacity - 2 - d /\ ~(capacity - 2 - d < 0)
    BY <1>3
  <2>2. QED
    BY <1>3, <1>5, <2>1, ModSmall
<1>7. ((capacity - 2 - d) + capacity) % capacity = (capacity - 2 - d) % capacity
  <2>1. PICK q \in Int : q = 1
    OBVIOUS
  <2>2. ((capacity - 2 - d) + capacity * q) % capacity = (capacity - 2 - d) % capacity
    BY <1>3, <1>5, ModMultiple
  <2>3. capacity * q = capacity
    BY <1>1, <2>1
  <2>4. QED
    BY <2>2, <2>3
<1>8. e % capacity = capacity - 2 - d
  BY <1>4, <1>6, <1>7
<1>9. Remaining(Addr(capacity, u[k]), Addr(capacity, u[n])) = (e % capacity) + 1
  BY DEF Remaining
<1> HIDE DEF e
<1>10. QED
  BY <1>1, <1>2, <1>8, <1>9 DEF d

\* Five cells or more to a patch.
LEMMA PatchesBounded ==
  ASSUME NEW n, NEW u, Places(capacity, n, u)
  PROVE  MostPatches \in Int /\ n <= MostPatches
<1>1. n \in Nat /\ capacity \in Nat /\ 0 \in 0..n /\ n \in 0..n /\ u[0] < capacity /\ u[n] + 2 <= u[0] + capacity
  BY DEF Places
<1>2. u[0] + 5 * (n - 0) <= u[n]
  BY <1>1 DEF Places
<1>3. u[0] \in Nat /\ u[n] \in Nat
  BY <1>1, PlacesGrow
<1>4. 5 * n <= capacity
  BY <1>1, <1>2, <1>3
<1>5. MostPatches = capacity \div 5
  BY DEF MostPatches, SizeT
<1>6. 5 \in Nat \ {0} /\ n \in Int
  BY <1>1
<1>7. n <= capacity \div 5
  BY <1>1, <1>4, <1>6, DivBound
<1>8. capacity \div 5 \in Int
  BY <1>1, <1>6, ModDef
<1>9. QED
  BY <1>5, <1>7, <1>8

\* The room behind the head with the tail at the k-th patch.
Space(n, u, k) == u[k] + capacity - u[n] - 1

DiscardTurn(h) == [x \in Nat |-> IF Remaining(x, h) <= MaxCompSize THEN data[x] ELSE x]

\* As few patches are forgotten as make room for the longest one.
LEMMA DiscardIs ==
  ASSUME NEW n, NEW u, NEW b, Laid(capacity, data, n, u, b), capacity >= 2 * MaxCompSize
  PROVE  \E k \in 0..n : /\ Discard(u[0], Addr(capacity, u[n])) = Addr(capacity, u[k])
                         /\ Space(n, u, k) > MaxCompSize
                         /\ k # 0 => Space(n, u, k - 1) <= MaxCompSize
<1> DEFINE h == Addr(capacity, u[n])
           A(i) == After(DiscardTurn(h), u[0], i)
           At(i, k) == /\ A(i) = Addr(capacity, u[k])
                       /\ k # 0 => Space(n, u, k - 1) <= MaxCompSize
                       /\ k = i \/ Space(n, u, k) > MaxCompSize
           S == { i \in Nat : \E k \in 0..n : At(i, k) }
<1>1. Places(capacity, n, u) /\ b \in [0..n -> Blocks]
  BY DEF Laid
<1>2. n \in Nat /\ capacity \in Nat /\ 0 \in 0..n /\ n \in 0..n /\ u[0] < capacity
  BY <1>1 DEF Places
<1>3. MaxCompSize \in Nat /\ MaxCompSize >= 5
  BY <1>1, <1>2, Sizes
<1>4. Space(n, u, n) > MaxCompSize
  <2>1. u[n] \in Nat
    BY <1>1, <1>2, PlacesGrow
  <2>2. QED
    BY <1>2, <1>3, <2>1 DEF Space
<1>5. A(0) = u[0] /\ \A i \in Nat : A(i + 1) = DiscardTurn(h)[A(i)]
  BY AfterDef
<1>6. 0 \in S
  <2>1. Addr(capacity, u[0]) = u[0]
    BY <1>1, <1>2, PlacesGrow
  <2>2. At(0, 0)
    BY <1>5, <2>1
  <2> HIDE DEF At
  <2>3. QED
    BY <1>2, <2>2
<1> HIDE DEF A
<1>7. ASSUME NEW i \in Nat, i \in S PROVE i + 1 \in S
  <2>1. PICK k \in 0..n : At(i, k)
    BY <1>7
  <2>2. Addr(capacity, u[k]) \in Nat
    BY <1>1, PlacesGrow
  <2>3. A(i + 1) = (IF Remaining(Addr(capacity, u[k]), h) <= MaxCompSize THEN data[Addr(capacity, u[k])]
                                                                         ELSE Addr(capacity, u[k]))
    <3>1. A(i + 1) = DiscardTurn(h)[A(i)]
      BY <1>5
    <3>2. A(i) = Addr(capacity, u[k])
      BY <2>1
    <3> HIDE DEF h
    <3>3. QED
      BY <2>2, <3>1, <3>2 DEF DiscardTurn
  <2>4. Remaining(Addr(capacity, u[k]), h) = Space(n, u, k)
    BY <1>1, RemainingIs DEF Space
  <2>5. Space(n, u, k) \in Int
    <3>1. u[k] \in Nat /\ u[n] \in Nat
      BY <1>1, <1>2, PlacesGrow
    <3>2. QED
      BY <1>2, <3>1 DEF Space
  <2> HIDE DEF h
  <2>6. CASE Space(n, u, k) > MaxCompSize
    <3>1. A(i + 1) = Addr(capacity, u[k])
      BY <1>3, <2>3, <2>4, <2>5, <2>6
    <3>2. At(i + 1, k)
      BY <2>1, <2>6, <3>1
    <3> HIDE DEF At
    <3>3. QED
      BY <3>2
  <2>7. CASE ~(Space(n, u, k) > MaxCompSize)
    <3>1. k = i /\ k # n /\ Space(n, u, k) <= MaxCompSize
      BY <1>3, <1>4, <2>1, <2>5, <2>7
    <3>2. k \in 0..(n - 1) /\ k + 1 \in 0..n /\ (k + 1) - 1 = k
      BY <1>2, <3>1
    <3>3. data[Addr(capacity, u[k])] = Addr(capacity, u[k + 1])
      BY <3>2 DEF Laid, Link
    <3>4. A(i + 1) = Addr(capacity, u[k + 1])
      BY <2>3, <2>4, <3>1, <3>3
    <3>5. At(i + 1, k + 1)
      BY <3>1, <3>2, <3>4
    <3> HIDE DEF At
    <3>6. QED
      BY <3>2, <3>5
  <2>8. QED
    BY <2>6, <2>7
<1>8. \A i \in Nat : i \in S
  <2> HIDE DEF S
  <2>1. QED
    BY <1>6, <1>7, SetInduction
<1>9. MostPatches \in Nat /\ n <= MostPatches
  BY <1>1, <1>2, PatchesBounded
<1>10. PICK k \in 0..n : At(MostPatches, k)
  BY <1>8, <1>9
<1>11. Space(n, u, k) > MaxCompSize
  <2>1. CASE k = MostPatches
    <3>1. k = n
      BY <1>2, <1>9, <2>1
    <3>2. QED
      BY <1>4, <3>1
  <2>2. QED
    BY <1>10, <2>1
<1>12. Discard(u[0], h) = A(MostPatches)
  BY DEF Discard, DiscardTurn, A
<1>13. Discard(u[0], h) = Addr(capacity, u[k]) /\ (k # 0 => Space(n, u, k - 1) <= MaxCompSize)
  BY <1>10, <1>12
<1>14. QED
  BY <1>11, <1>13

LEMMA RoomIs ==
  ASSUME NEW n, NEW u, Places(capacity, n, u), NEW k \in 0..n
  PROVE  Room(capacity, n - k, Kept(capacity, n, u, k)) = Space(n, u, k)
<1> DEFINE v == Kept(capacity, n, u, k)
<1>1. n \in Nat /\ capacity \in Nat /\ k \in 0..n /\ 0 \in 0..(n - k) /\ n - k \in 0..(n - k)
      /\ 0 + k = k /\ (n - k) + k = n
  BY DEF Places
<1>2. u[k] \in Nat /\ u[n] \in Nat
  BY <1>1, PlacesGrow
<1>3. v[0] = (IF u[k] < capacity THEN u[k] ELSE u[k] - capacity)
  <2>1. v[0] = (IF u[k] < capacity THEN u[0 + k] ELSE u[0 + k] - capacity)
    BY <1>1, KeptIs
  <2>2. QED
    BY <1>1, <2>1
<1>4. v[n - k] = (IF u[k] < capacity THEN u[n] ELSE u[n] - capacity)
  <2>1. v[n - k] = (IF u[k] < capacity THEN u[(n - k) + k] ELSE u[(n - k) + k] - capacity)
    BY <1>1, KeptIs
  <2>2. QED
    BY <1>1, <2>1
<1>5. Room(capacity, n - k, v) = v[0] + capacity - v[n - k] - 1
  BY DEF Room
<1> HIDE DEF v
<1>6. v[0] + capacity - v[n - k] - 1 = u[k] + capacity - u[n] - 1
  BY <1>1, <1>2, <1>3, <1>4
<1>7. QED
  BY <1>5, <1>6 DEF Space, v
-----------------------------------------------------------------------------
(* A state is pushed. *)

\* The next place is one patch behind, or at the start of the memory because two
\* would not have had room in front of the end.
Near(x, y) ==
  \/ y <= x + MaxCompSize
  \/ x < capacity /\ y = capacity + 1 /\ y <= x + 2 * MaxCompSize - 1

\* m patches were forgotten because there was no room with one of them left, or
\* because the head has come to the start of the memory and the tail was there.
Needed(n, u, m) ==
  m # 0 => \/ Space(n, u, m - 1) <= MaxCompSize
           \/ /\ Kept(capacity, n, u, m - 1)[0] = 1
              /\ Kept(capacity, n, u, m - 1)[n - m + 1] < capacity
              /\ Kept(capacity, n, u, m - 1)[n - m + 1] + 2 * MaxCompSize > capacity + 1

\* The ring after a push that forgets m patches and puts the head at place y.
Pushed(n, u, b, s, m, y) ==
  /\ Laid(capacity, data', n - m + 1, More(n - m, Kept(capacity, n, u, m), y), More(n - m, Later(n, b, m), s))
  /\ tail' = Kept(capacity, n, u, m)[0] /\ head' = Addr(capacity, y) /\ thisblock' = s
  /\ data' \in [0..(capacity - 1) -> Nat]
  /\ Near(Kept(capacity, n, u, m)[n - m], y)
  /\ Needed(n, u, m)

\* What state_manager_push_do does once the tail is known.
PushAt(h, len, p, t, s) ==
  LET end  == h + 1 + len
      back == IF end + MaxCompSize > capacity THEN 0 ELSE end
  IN  /\ tail' = IF end + MaxCompSize > capacity /\ t = 1 THEN data[1] ELSE t
      /\ head' = back + 1
      /\ data' = Written(data, h, end, back, p)
      /\ thisblock' = s

LEMMA PushAtIs ==
  ASSUME NEW b, NEW h \in Nat, h >= 1, NEW s, NEW p, p = state_manager_raw_compress(b, s),
         NEW len \in Nat, len = Len(p), capacity \in Nat, capacity >= 2,
         data \in [0..(capacity - 1) -> Nat], state_manager_push_do(b, h, s)
  PROVE  PushAt(h, len, p, Discard(tail, h), s)
<1> DEFINE end == h + 1 + len
           with == [i \in DOMAIN data |-> IF i \in (h + SizeT)..(end - 1)
                                          THEN p[i - h - SizeT + 1] ELSE data[i]]
           back == IF end + MaxCompSize > capacity THEN 0 ELSE end
           t == Discard(tail, h)
<1>1. with[1] = data[1]
  <2>1. 1 \in DOMAIN data /\ 1 \notin (h + SizeT)..(end - 1)
    BY DEF SizeT
  <2>2. QED
    BY <2>1
<1>2. end = h + SizeT + Len(p)
  BY DEF SizeT
<1> HIDE DEF end
<1>3. /\ tail' = (IF Wraps(end) THEN TailMoves(with, t) ELSE t)
      /\ head' = back + SizeT
      /\ data' = [with EXCEPT ![back] = h, ![h] = back + SizeT]
      /\ thisblock' = s
  BY <1>2 DEF state_manager_push_do, Wraps
<1> HIDE DEF t
<1>4. tail' = (IF end + MaxCompSize > capacity /\ t = 1 THEN data[1] ELSE t)
  BY <1>1, <1>3 DEF Wraps, TailMoves, SizeT
<1>5. data' = Written(data, h, end, back, p)
  BY <1>3 DEF Written
<1>6. head' = back + 1
  BY <1>3 DEF SizeT
<1>7. QED
  BY <1>3, <1>4, <1>5, <1>6 DEF PushAt, end, t

LEMMA KeptWritten ==
  ASSUME NEW c, NEW mem \in [0..(c - 1) -> Nat], NEW n, NEW u, NEW b, Laid(c, mem, n, u, b),
         c >= 2 * MaxCompSize, NEW s \in Blocks, NEW p, p = state_manager_raw_compress(b[n], s),
         NEW h, h = Addr(c, u[n]), NEW len \in Nat, len = Len(p), h + 1 + len <= c,
         NEW m \in 0..n, NEW y \in Nat,
         Kept(c, n, u, m)[n - m] + len + 2 <= y, y + 2 <= Kept(c, n, u, m)[0] + c, Fit(c, y),
         NEW mem2, mem2 = Written(mem, h, h + 1 + len, Addr(c, y) - 1, p)
  PROVE  /\ mem2 \in [0..(c - 1) -> Nat]
         /\ Laid(c, mem2, n - m + 1, More(n - m, Kept(c, n, u, m), y), More(n - m, Later(n, b, m), s))
<1> DEFINE v == Kept(c, n, u, m)
           d == Later(n, b, m)
           k == n - m
<1>1. Places(c, n, u)
  BY DEF Laid
<1>2. n \in Nat /\ k \in 0..k /\ k + m = n
  BY <1>1 DEF Places
<1>3. Laid(c, mem, k, v, d)
  BY KeptLaid
<1>4. Addr(c, v[k]) = Addr(c, u[n])
  BY <1>1, KeptPlaces
<1>5. d[k] = b[n]
  BY <1>2 DEF Later
<1> HIDE DEF k, v, d
<1>6. v[k] + len + 2 <= y /\ y + 2 <= v[0] + c
  BY DEF k, v
<1>7. p = state_manager_raw_compress(d[k], s) /\ h = Addr(c, v[k])
  BY <1>4, <1>5
<1>8. mem2 \in [0..(c - 1) -> Nat] /\ Laid(c, mem2, k + 1, More(k, v, y), More(k, d, s))
  BY <1>3, <1>6, <1>7, WrittenLaid
<1>9. QED
  BY <1>8 DEF k, v, d

LEMMA PushDo ==
  ASSUME NEW n, NEW u, NEW b, Laid(capacity, data, n, u, b), capacity >= 2 * MaxCompSize,
         data \in [0..(capacity - 1) -> Nat], tail = u[0], NEW s \in Blocks,
         state_manager_push_do(b[n], Addr(capacity, u[n]), s)
  PROVE  \E m \in 0..n, y \in Nat : Pushed(n, u, b, s, m, y)
<1> DEFINE h == Addr(capacity, u[n])
           p == state_manager_raw_compress(b[n], s)
           len == Len(p)
<1>1. Places(capacity, n, u) /\ b \in [0..n -> Blocks]
  BY DEF Laid
<1>2. n \in Nat /\ capacity \in Nat /\ n \in 0..n
  BY <1>1 DEF Places
<1>3. b[n] \in Blocks
  BY <1>1, <1>2
<1>4. len \in 3..(MaxCompSize - 2) /\ len \in Nat
  BY <1>3, PatchSizes
<1>5. MaxCompSize \in Nat /\ MaxCompSize >= 5
  BY Sizes
<1>6. h \in Nat /\ h >= 1
  BY <1>1, <1>2, PlacesGrow, PlacesFit
<1>7. PICK k \in 0..n : /\ Discard(u[0], h) = Addr(capacity, u[k])
                        /\ Space(n, u, k) > MaxCompSize
                        /\ k # 0 => Space(n, u, k - 1) <= MaxCompSize
  BY DiscardIs
<1> HIDE DEF h, p, len
<1>8. PushAt(h, len, p, Addr(capacity, u[k]), s)
  <2>1. capacity >= 2
    BY <1>2, <1>5
  <2>2. p = state_manager_raw_compress(b[n], s) /\ len = Len(p)
    BY DEF p, len
  <2>3. state_manager_push_do(b[n], h, s)
    BY DEF h
  <2>4. PushAt(h, len, p, Discard(tail, h), s)
    BY <1>2, <1>4, <1>6, <2>1, <2>2, <2>3, PushAtIs
  <2>5. QED
    BY <1>7, <2>4
<1> DEFINE v == Kept(capacity, n, u, k)
           r == n - k
<1>9. Places(capacity, r, v) /\ v[0] = Addr(capacity, u[k]) /\ Addr(capacity, v[r]) = h
  BY <1>1, KeptPlaces DEF h
<1>10. Room(capacity, r, v) > MaxCompSize
  BY <1>1, <1>7, RoomIs
<1>11. r \in Nat /\ 0 \in 0..r /\ r \in 0..r
  BY <1>2
<1>12. v[0] \in Nat /\ v[r] \in Nat
  <2> HIDE DEF v, r
  <2>1. QED
    BY <1>9, <1>11, PlacesGrow
<1>13. ASSUME NEW m \in 0..n, NEW y \in Nat, Kept(capacity, n, u, m)[n - m] + len + 2 <= y,
              y + 2 <= Kept(capacity, n, u, m)[0] + capacity, Fit(capacity, y), h + 1 + len <= capacity,
              data' = Written(data, h, h + 1 + len, Addr(capacity, y) - 1, p)
       PROVE  /\ data' \in [0..(capacity - 1) -> Nat]
              /\ Laid(capacity, data', n - m + 1, More(n - m, Kept(capacity, n, u, m), y),
                      More(n - m, Later(n, b, m), s))
  BY <1>4, <1>13, KeptWritten DEF h, p, len
<1>14. CASE ~(h + 1 + len + MaxCompSize > capacity)
  <2> DEFINE y == v[r] + len + 2
  <2>1. h + 1 + len + MaxCompSize <= capacity
    BY <1>2, <1>4, <1>5, <1>6, <1>14
  <2>2. y \in Nat /\ y + 2 <= v[0] + capacity /\ Fit(capacity, y) /\ Addr(capacity, y) = h + 1 + len + 1
    <3> HIDE DEF v, r
    <3>1. Addr(capacity, v[r]) + 1 + len + MaxCompSize <= capacity
      BY <1>9, <2>1
    <3>2. QED
      BY <1>4, <1>9, <1>10, <3>1, Behind
  <2>3. /\ tail' = v[0] /\ head' = Addr(capacity, y) /\ thisblock' = s
        /\ data' = Written(data, h, h + 1 + len, Addr(capacity, y) - 1, p)
    <3>1. /\ tail' = v[0] /\ head' = (h + 1 + len) + 1 /\ thisblock' = s
          /\ data' = Written(data, h, h + 1 + len, h + 1 + len, p)
      BY <1>8, <1>9, <1>14 DEF PushAt
    <3>2. Addr(capacity, y) - 1 = h + 1 + len
      BY <1>4, <1>6, <2>2
    <3>3. QED
      BY <2>2, <3>1, <3>2
  <2>4. Near(v[r], y)
    BY <1>4, <1>5, <1>12 DEF Near
  <2>5. Needed(n, u, k)
    BY <1>7 DEF Needed
  <2>6. v[r] + len + 2 <= y /\ h + 1 + len <= capacity
    <3>1. h + 1 + len <= capacity
      BY <1>2, <1>4, <1>5, <1>6, <2>1
    <3> HIDE DEF v, r
    <3>2. v[r] + len + 2 <= y
      BY <1>4, <1>12
    <3>3. QED
      BY <3>1, <3>2
  <2>7. Pushed(n, u, b, s, k, y)
    <3> HIDE DEF y
    <3>1. /\ data' \in [0..(capacity - 1) -> Nat]
          /\ Laid(capacity, data', n - k + 1, More(n - k, Kept(capacity, n, u, k), y),
                  More(n - k, Later(n, b, k), s))
      BY <1>13, <2>2, <2>3, <2>6
    <3>2. QED
      BY <2>3, <2>4, <2>5, <3>1 DEF Pushed
  <2> HIDE DEF y
  <2>8. QED
    BY <2>2, <2>7
<1>15. CASE h + 1 + len + MaxCompSize > capacity
  <2> DEFINE y == capacity + 1
  <2>1. /\ v[r] < capacity /\ h + 1 + len <= capacity
        /\ v[0] = 1 => r # 0
        /\ v[0] # 1 => /\ y \in Nat /\ v[r] + len + 2 <= y /\ y + 2 <= v[0] + capacity
                       /\ Fit(capacity, y) /\ Addr(capacity, y) = 1
    <3> HIDE DEF v, r
    <3>1. Addr(capacity, v[r]) + 1 + len + MaxCompSize > capacity
      BY <1>9, <1>15
    <3>2. QED
      BY <1>4, <1>9, <1>10, <3>1, AtStart
  <2>2. /\ tail' = (IF v[0] = 1 THEN data[1] ELSE v[0]) /\ head' = 1 /\ thisblock' = s
        /\ data' = Written(data, h, h + 1 + len, 0, p)
    BY <1>8, <1>9, <1>15 DEF PushAt
  <2>3. h = v[r]
    BY <1>9, <2>1 DEF Addr
  <2>4. Near(v[r], y)
    <3> HIDE DEF v, r
    <3>1. QED
      BY SMTT(40), <1>2, <1>4, <1>5, <1>12, <1>15, <2>1, <2>3 DEF Near
  <2>5. CASE v[0] # 1
    <3>1. /\ tail' = v[0] /\ head' = Addr(capacity, y)
          /\ data' = Written(data, h, h + 1 + len, Addr(capacity, y) - 1, p)
      BY <2>1, <2>2, <2>5
    <3>2. Needed(n, u, k)
      BY <1>7 DEF Needed
    <3>3. /\ data' \in [0..(capacity - 1) -> Nat]
          /\ Laid(capacity, data', n - k + 1, More(n - k, Kept(capacity, n, u, k), y),
                  More(n - k, Later(n, b, k), s))
      <4> HIDE DEF y
      <4>1. QED
        BY <1>13, <2>1, <2>5, <3>1
    <3>4. Pushed(n, u, b, s, k, y)
      BY <2>2, <2>4, <3>1, <3>2, <3>3 DEF Pushed
    <3> HIDE DEF y
    <3>5. QED
      BY <2>1, <2>5, <3>4
  <2>6. CASE v[0] = 1
    <3>1. r # 0
      BY <2>1, <2>6
    <3> DEFINE m == k + 1
               w == Kept(capacity, n, u, m)
               q == n - m
    <3>2. m \in 0..n /\ q + 1 = r /\ k \in 0..(n - 1) /\ m - 1 = k /\ n - m + 1 = r /\ 1 \in 0..r
          /\ k \in Nat /\ 1 + k = m
      BY <1>2, <1>11, <3>1
    <3>3. Places(capacity, q, w) /\ w[0] = Addr(capacity, u[m]) /\ Addr(capacity, w[q]) = h
      <4> HIDE DEF m
      <4>1. QED
        BY <1>1, <3>2, KeptPlaces DEF h
    <3>4. data[1] = w[0]
      <4>1. Link(capacity, data, u[k], u[k + 1], b[k], b[k + 1])
        BY <3>2 DEF Laid
      <4>2. data[Addr(capacity, u[k])] = Addr(capacity, u[k + 1])
        BY <4>1 DEF Link
      <4>3. QED
        BY <1>9, <2>6, <3>3, <4>2
    <3>5. w[0] # 1
      <4>1. v[0] + 5 <= v[1] /\ v[1] \in Nat /\ v[1] <= v[r]
        <5>1. v[0] + 5 <= v[0 + 1]
          <6> HIDE DEF v, r
          <6>1. QED
            BY <1>9, <1>11, <3>1, PlacesGrow
        <5>2. v[1] \in Nat /\ v[1] <= v[r]
          <6> HIDE DEF v, r
          <6>1. QED
            BY <1>9, <3>2, PlacesGrow
        <5>3. QED
          BY <5>1, <5>2
      <4>2. Addr(capacity, v[1]) = v[1]
        <5> HIDE DEF v, r
        <5>1. QED
          BY <1>2, <1>12, <2>1, <4>1 DEF Addr
      <4>3. Addr(capacity, v[1]) = Addr(capacity, u[m])
        <5>1. Addr(capacity, v[1]) = Addr(capacity, u[1 + k])
          <6>1. 1 \in 0..(n - k)
            BY <3>2
          <6>2. QED
            BY <1>1, <6>1, KeptIs
        <5>2. QED
          BY <3>2, <5>1
      <4> HIDE DEF v, w, m
      <4>4. QED
        BY <2>6, <3>3, <4>1, <4>2, <4>3
    <3>6. Space(n, u, m) > MaxCompSize
      <4>1. u[k] \in Nat /\ u[n] \in Nat /\ u[k] + 5 <= u[k + 1]
        <5>1. k # n
          BY <1>2, <3>2
        <5>2. QED
          BY <1>1, <1>2, <5>1, PlacesGrow
      <4>2. u[k + 1] \in Nat
        <5>1. k + 1 \in 0..n
          BY <3>2
        <5>2. QED
          BY <1>1, <5>1, PlacesGrow
      <4>3. QED
        BY SMTT(40), <1>2, <1>5, <1>7, <4>1, <4>2 DEF Space
    <3>7. Room(capacity, q, w) > MaxCompSize
      <4> HIDE DEF m
      <4>1. QED
        BY <1>1, <3>2, <3>6, RoomIs
    <3>8. /\ w[q] < capacity
          /\ y \in Nat /\ w[q] + len + 2 <= y /\ y + 2 <= w[0] + capacity
          /\ Fit(capacity, y) /\ Addr(capacity, y) = 1
      <4> HIDE DEF w, q
      <4>1. Addr(capacity, w[q]) + 1 + len + MaxCompSize > capacity
        BY <1>15, <3>3
      <4>2. QED
        BY <1>4, <3>3, <3>5, <3>7, <4>1, AtStart
    <3>9. /\ tail' = w[0] /\ head' = Addr(capacity, y)
          /\ data' = Written(data, h, h + 1 + len, Addr(capacity, y) - 1, p)
      BY <2>2, <2>6, <3>4, <3>8
    <3>10. w[q] = h
      BY <3>3, <3>8 DEF Addr
    <3>11. Near(w[q], y)
      BY <2>3, <2>4, <3>10
    <3>12. Needed(n, u, m)
      <4>1. Kept(capacity, n, u, m - 1)[n - m + 1] = v[r] /\ Kept(capacity, n, u, m - 1)[0] = v[0]
        BY <3>2
      <4>2. v[r] + 2 * MaxCompSize > capacity + 1
        <5> HIDE DEF v, r
        <5>1. QED
          BY SMTT(40), <1>2, <1>4, <1>5, <1>12, <1>15, <2>3
      <4> HIDE DEF v, r, m
      <4>3. QED
        BY <2>1, <2>6, <4>1, <4>2 DEF Needed
    <3>13. /\ data' \in [0..(capacity - 1) -> Nat]
           /\ Laid(capacity, data', n - m + 1, More(n - m, Kept(capacity, n, u, m), y),
                   More(n - m, Later(n, b, m), s))
      <4> HIDE DEF y, m
      <4>1. QED
        BY <1>13, <2>1, <3>2, <3>8, <3>9
    <3>14. Pushed(n, u, b, s, m, y)
      <4> HIDE DEF y, m
      <4>1. QED
        BY <2>2, <3>9, <3>11, <3>12, <3>13 DEF Pushed
    <3> HIDE DEF y, m
    <3>15. QED
      BY <3>2, <3>8, <3>14
  <2>7. QED
    BY <2>5, <2>6
<1>16. QED
  BY <1>14, <1>15
-----------------------------------------------------------------------------
(* How near the patches are. *)

Packed(n, u) == \A i \in 0..(n - 1) : Near(u[i], u[i + 1])

LEMMA KeptPacked ==
  ASSUME NEW n, NEW u, Places(capacity, n, u), Packed(n, u), NEW k \in 0..n, MaxCompSize \in Nat
  PROVE  Packed(n - k, Kept(capacity, n, u, k))
<1> DEFINE v == Kept(capacity, n, u, k)
<1>1. SUFFICES ASSUME NEW i \in 0..((n - k) - 1) PROVE Near(v[i], v[i + 1])
  BY DEF Packed
<1>2. n \in Nat /\ capacity \in Nat /\ k \in Nat /\ i \in Nat
  BY DEF Places
<1>3. i \in 0..(n - k) /\ i + 1 \in 0..(n - k) /\ i + k \in 0..(n - 1) /\ i + k \in 0..n /\ (i + 1) + k \in 0..n
      /\ (i + k) + 1 = (i + 1) + k
  BY <1>1, <1>2
<1>4. /\ v[i] = (IF u[k] < capacity THEN u[i + k] ELSE u[i + k] - capacity) /\ v[i] \in Nat
      /\ v[i + 1] = (IF u[k] < capacity THEN u[(i + 1) + k] ELSE u[(i + 1) + k] - capacity)
  BY <1>3, KeptIs
<1>5. Near(u[i + k], u[(i + 1) + k])
  <2>1. Near(u[i + k], u[(i + k) + 1])
    BY <1>3 DEF Packed
  <2>2. QED
    BY <1>3, <2>1
<1>6. u[i + k] \in Nat /\ u[(i + 1) + k] \in Nat
  BY <1>3, PlacesGrow
<1>7. u[k] \in Nat
  BY PlacesGrow
<1> HIDE DEF v
<1>8. QED
  BY <1>2, <1>4, <1>5, <1>6, <1>7 DEF Near

LEMMA FewerPacked ==
  ASSUME NEW n \in Nat, NEW u, Packed(n, u), n # 0
  PROVE  Packed(n - 1, Fewer(n, u))
<1>1. SUFFICES ASSUME NEW i \in 0..((n - 1) - 1) PROVE Near(Fewer(n, u)[i], Fewer(n, u)[i + 1])
  BY DEF Packed
<1>2. i \in 0..(n - 1) /\ i + 1 \in 0..(n - 1)
  BY <1>1
<1>3. Fewer(n, u)[i] = u[i] /\ Fewer(n, u)[i + 1] = u[i + 1]
  BY <1>2 DEF Fewer
<1>4. Near(u[i], u[i + 1])
  BY <1>2 DEF Packed
<1>5. QED
  BY <1>3, <1>4

LEMMA MorePacked ==
  ASSUME NEW n \in Nat, NEW u, Packed(n, u), NEW y, Near(u[n], y)
  PROVE  Packed(n + 1, More(n, u, y))
<1> DEFINE v == More(n, u, y)
<1>1. SUFFICES ASSUME NEW i \in 0..((n + 1) - 1) PROVE Near(v[i], v[i + 1])
  BY DEF Packed
<1>2. i \in 0..(n + 1) /\ i + 1 \in 0..(n + 1) /\ i # n + 1 /\ (i = n \/ (i \in 0..(n - 1) /\ i + 1 # n + 1))
  BY <1>1
<1>3. v[i] = u[i] /\ v[i + 1] = (IF i + 1 = n + 1 THEN y ELSE u[i + 1])
  BY <1>2 DEF More
<1> HIDE DEF v
<1>4. CASE i = n
  BY <1>3, <1>4
<1>5. CASE i \in 0..(n - 1) /\ i + 1 # n + 1
  BY <1>3, <1>5 DEF Packed
<1>6. QED
  BY <1>2, <1>4, <1>5
-----------------------------------------------------------------------------
(* The ring, and the states it leads back to. *)

\* The ring holds n patches, from the places u on, between the blocks b.
Ring(n, u, b) ==
  /\ Laid(capacity, data, n, u, b) /\ Packed(n, u)
  /\ tail = u[0] /\ head = Addr(capacity, u[n]) /\ thisblock = b[n]

\* The i-th patch leads from a block to the one before.
PopsTo(u, b, i) ==
  /\ i = 0 => Popped(b[i], Addr(capacity, u[i])) = [head |-> Addr(capacity, u[i]), block |-> b[i]]
  /\ i # 0 => Popped(b[i], Addr(capacity, u[i])) = [head |-> Addr(capacity, u[i - 1]), block |-> b[i - 1]]
  /\ Addr(capacity, u[i]) = tail <=> i = 0

LEMMA PoppedIs ==
  ASSUME NEW n, NEW u, NEW b, Laid(capacity, data, n, u, b), tail = u[0], NEW i \in 0..n
  PROVE  PopsTo(u, b, i)
<1>1. Places(capacity, n, u) /\ b \in [0..n -> Blocks]
  BY DEF Laid
<1>2. n \in Nat /\ i \in Nat
  BY <1>1 DEF Places
<1>3. Addr(capacity, u[i]) = tail <=> i = 0
  BY <1>1, PlacesGrow
<1>4. i = 0 => Popped(b[i], Addr(capacity, u[i])) = [head |-> Addr(capacity, u[i]), block |-> b[i]]
  BY <1>3 DEF Popped
<1>5. ASSUME i # 0
      PROVE Popped(b[i], Addr(capacity, u[i])) = [head |-> Addr(capacity, u[i - 1]), block |-> b[i - 1]]
  <2>1. i - 1 \in 0..(n - 1) /\ i - 1 \in 0..n /\ (i - 1) + 1 = i
    BY <1>2, <1>5
  <2>2. Link(capacity, data, u[i - 1], u[i], b[i - 1], b[i])
    <3>1. Link(capacity, data, u[i - 1], u[(i - 1) + 1], b[i - 1], b[(i - 1) + 1])
      BY <2>1 DEF Laid
    <3>2. QED
      BY <2>1, <3>1
  <2>3. b[i] \in Blocks /\ b[i - 1] \in Blocks
    BY <1>1, <2>1
  <2>4. Addr(capacity, u[i - 1]) \in Nat
    BY <1>1, <2>1, PlacesGrow
  <2> DEFINE start == Addr(capacity, u[i - 1])
  <2>5. data[Addr(capacity, u[i]) - SizeT] = start
    BY <2>2 DEF Link, SizeT
  <2>6. state_manager_raw_decompress(data, start + SizeT, b[i]) = b[i - 1]
    <3>1. Pair(b[i - 1], b[i]) /\ Len(b[i - 1]) < Base * Base
      BY <2>3, PatchSizes
    <3>2. Holds(data, start + 1, state_manager_raw_compress(b[i - 1], b[i])) /\ start + 1 \in Nat
      BY <2>2, <2>4 DEF Link
    <3> HIDE DEF start
    <3>3. state_manager_raw_decompress(data, start + 1, b[i]) = b[i - 1]
      BY <3>1, <3>2, PatchApplies
    <3>4. QED
      BY <3>3 DEF SizeT
  <2> HIDE DEF start
  <2>7. Addr(capacity, u[i]) # tail
    BY <1>3, <1>5
  <2>8. Popped(b[i], Addr(capacity, u[i])) = [head |-> start, block |-> b[i - 1]]
    BY <2>5, <2>6, <2>7 DEF Popped
  <2>9. QED
    BY <2>8 DEF start
<1>6. QED
  BY <1>3, <1>4, <1>5 DEF PopsTo

\* The first k of the blocks.
Contents(k, b) == [i \in 1..k |-> b[i - 1]]

LEMMA ContentsIs ==
  ASSUME NEW n \in Nat, NEW b \in [0..n -> Blocks], NEW k \in 0..(n + 1)
  PROVE  /\ Contents(k, b) \in Seq(Blocks) /\ Len(Contents(k, b)) = k
         /\ \A i \in 1..k : Contents(k, b)[i] = b[i - 1]
<1>1. \A i \in 1..k : b[i - 1] \in Blocks
  <2>1. \A i \in 1..k : i - 1 \in 0..n
    OBVIOUS
  <2>2. QED
    BY <2>1
<1>2. QED
  BY <1>1 DEF Contents

\* The newest i of the blocks under the last.
Newest(n, b, i) == [j \in 1..i |-> b[n - i + j - 1]]

LEMMA NewestIs ==
  ASSUME NEW n \in Nat, NEW b \in [0..n -> Blocks], NEW i \in 0..n
  PROVE  /\ Newest(n, b, i) \in Seq(Blocks) /\ Len(Newest(n, b, i)) = i
         /\ \A j \in 1..i : Newest(n, b, i)[j] = b[n - i + j - 1]
<1>1. \A j \in 1..i : b[n - i + j - 1] \in Blocks
  <2>1. \A j \in 1..i : n - i + j - 1 \in 0..n
    OBVIOUS
  <2>2. QED
    BY <2>1
<1>2. QED
  BY <1>1 DEF Newest

LEMMA NewestGrows ==
  ASSUME NEW n \in Nat, NEW b \in [0..n -> Blocks], NEW i \in 0..(n - 1)
  PROVE  <<b[n - i - 1]>> \o Newest(n, b, i) = Newest(n, b, i + 1)
<1> DEFINE p == <<b[n - i - 1]>>
           q == Newest(n, b, i)
           r == Newest(n, b, i + 1)
<1>1. b[n - i - 1] \in Blocks
  <2>1. n - i - 1 \in 0..n
    OBVIOUS
  <2>2. QED
    BY <2>1
<1>2. p \in Seq(Blocks) /\ Len(p) = 1 /\ p[1] = b[n - i - 1]
  BY <1>1
<1>3. q \in Seq(Blocks) /\ Len(q) = i /\ \A j \in 1..i : q[j] = b[n - i + j - 1]
  <2>1. i \in 0..n
    OBVIOUS
  <2>2. QED
    BY <2>1, NewestIs
<1>4. r \in Seq(Blocks) /\ Len(r) = i + 1 /\ \A j \in 1..(i + 1) : r[j] = b[n - (i + 1) + j - 1]
  <2>1. i + 1 \in 0..n
    OBVIOUS
  <2>2. QED
    BY <2>1, NewestIs
<1> HIDE DEF p, q, r
<1>5. /\ p \o q \in Seq(Blocks) /\ Len(p \o q) = 1 + i
      /\ \A j \in 1..1 : (p \o q)[j] = p[j]
      /\ \A j \in 1..i : (p \o q)[1 + j] = q[j]
  <2>1. p \in Seq(Blocks) /\ q \in Seq(Blocks)
    BY <1>2, <1>3
  <2>2. /\ p \o q \in Seq(Blocks) /\ Len(p \o q) = Len(p) + Len(q)
        /\ \A j \in 1..Len(p) : (p \o q)[j] = p[j]
        /\ \A j \in 1..Len(q) : (p \o q)[Len(p) + j] = q[j]
    BY <2>1, ConcatIs
  <2>3. QED
    BY <1>2, <1>3, <2>2
<1>6. ASSUME NEW j \in 1..(i + 1) PROVE (p \o q)[j] = r[j]
  <2>1. CASE j = 1
    <3>1. n - (i + 1) + 1 - 1 = n - i - 1
      OBVIOUS
    <3>2. r[1] = b[n - i - 1]
      <4>1. 1 \in 1..(i + 1)
        OBVIOUS
      <4>2. r[1] = b[n - (i + 1) + 1 - 1]
        BY <1>4, <4>1
      <4>3. QED
        BY <3>1, <4>2
    <3>3. QED
      BY <1>2, <1>5, <2>1, <3>2
  <2>2. CASE j # 1
    <3>1. j - 1 \in 1..i /\ 1 + (j - 1) = j /\ n - i + (j - 1) - 1 = n - (i + 1) + j - 1
      BY <2>2
    <3>2. (p \o q)[1 + (j - 1)] = q[j - 1]
      BY <1>5, <3>1
    <3>3. q[j - 1] = b[n - i + (j - 1) - 1]
      BY <1>3, <3>1
    <3>4. r[j] = b[n - (i + 1) + j - 1]
      BY <1>4
    <3>5. QED
      BY <3>1, <3>2, <3>3, <3>4
  <2>3. QED
    BY <2>1, <2>2
<1>7. Len(p \o q) = Len(r) /\ Len(p \o q) = i + 1
  BY <1>4, <1>5
<1>8. p \o q = r
  BY <1>4, <1>5, <1>6, <1>7, SeqEqual
<1>9. QED
  BY <1>8 DEF p, q, r

\* What has been found after i patches.
Back(n, u, b, i) ==
  [head |-> Addr(capacity, u[n - i]), block |-> b[n - i], found |-> Newest(n, b, i)]

LEMMA BackGoes ==
  ASSUME NEW n, NEW u, NEW b, Laid(capacity, data, n, u, b), tail = u[0], NEW i \in 0..n
  PROVE  /\ i # n => BackTurn[Back(n, u, b, i)] = Back(n, u, b, i + 1)
         /\ i = n => BackTurn[Back(n, u, b, i)] = Back(n, u, b, i)
<1>1. Places(capacity, n, u) /\ b \in [0..n -> Blocks]
  BY DEF Laid
<1>2. n \in Nat /\ i \in Nat
  BY <1>1 DEF Places
<1>3. n - i \in 0..n /\ (n - i = 0 <=> i = n)
  BY <1>2
<1> DEFINE s == Back(n, u, b, i)
<1>4. s.head = Addr(capacity, u[n - i]) /\ s.block = b[n - i] /\ s.found = Newest(n, b, i)
  BY DEF Back
<1>5. s \in [head : Nat, block : Blocks, found : Seq(Blocks)]
  <2>1. Addr(capacity, u[n - i]) \in Nat
    BY <1>1, <1>3, PlacesGrow
  <2>2. b[n - i] \in Blocks
    BY <1>1, <1>3
  <2>3. Newest(n, b, i) \in Seq(Blocks)
    BY <1>1, <1>2, NewestIs
  <2>4. QED
    BY <2>1, <2>2, <2>3 DEF Back
<1> HIDE DEF s
<1>6. BackTurn[s] = (IF s.head = tail THEN s
                     ELSE [head |-> Popped(s.block, s.head).head, block |-> Popped(s.block, s.head).block,
                           found |-> <<Popped(s.block, s.head).block>> \o s.found])
  BY <1>5 DEF BackTurn
<1>7. /\ n - i # 0 => Popped(b[n - i], Addr(capacity, u[n - i]))
                        = [head |-> Addr(capacity, u[n - i - 1]), block |-> b[n - i - 1]]
      /\ Addr(capacity, u[n - i]) = tail <=> n - i = 0
  <2>1. PopsTo(u, b, n - i)
    BY <1>3, PoppedIs
  <2>2. QED
    BY <2>1 DEF PopsTo
<1>8. CASE i = n
  BY <1>3, <1>4, <1>6, <1>7, <1>8 DEF s
<1>9. CASE i # n
  <2>1. Popped(s.block, s.head) = [head |-> Addr(capacity, u[n - i - 1]), block |-> b[n - i - 1]]
    BY <1>3, <1>4, <1>7, <1>9
  <2>2. s.head # tail
    BY <1>3, <1>4, <1>7, <1>9
  <2>3. BackTurn[s] = [head |-> Addr(capacity, u[n - i - 1]), block |-> b[n - i - 1],
                       found |-> <<b[n - i - 1]>> \o Newest(n, b, i)]
    BY <1>4, <1>6, <2>1, <2>2
  <2>4. i \in 0..(n - 1) /\ n - i - 1 = n - (i + 1)
    BY <1>2, <1>9
  <2>5. <<b[n - i - 1]>> \o Newest(n, b, i) = Newest(n, b, i + 1)
    BY <1>1, <1>2, <2>4, NewestGrows
  <2>6. BackTurn[s] = Back(n, u, b, i + 1)
    BY <2>3, <2>4, <2>5 DEF Back
  <2>7. QED
    BY <1>9, <2>6 DEF s
<1>10. QED
  BY <1>8, <1>9

\* The ring leads back to the blocks the patches were made from.
LeadsBack ==
  \A n, u, b : Ring(n, u, b) =>
    History = Contents(IF thisblock_valid THEN n + 1 ELSE n, b)

LEMMA HistoryIs == LeadsBack
<1>1. SUFFICES ASSUME NEW n, NEW u, NEW b, Ring(n, u, b)
               PROVE  History = Contents(IF thisblock_valid THEN n + 1 ELSE n, b)
  BY DEF LeadsBack
<1>2. Laid(capacity, data, n, u, b) /\ tail = u[0] /\ head = Addr(capacity, u[n]) /\ thisblock = b[n]
  BY <1>1 DEF Ring
<1>3. Places(capacity, n, u) /\ b \in [0..n -> Blocks]
  BY <1>2 DEF Laid
<1>4. n \in Nat
  BY <1>3 DEF Places
<1> DEFINE start == [head |-> head, block |-> thisblock, found |-> <<>>]
           A(i) == After(BackTurn, start, i)
           S == { i \in Nat : \/ i <= n /\ A(i) = Back(n, u, b, i)
                              \/ n <= i /\ A(i) = Back(n, u, b, n) }
<1>5. A(0) = start /\ \A i \in Nat : A(i + 1) = BackTurn[A(i)]
  BY AfterDef
<1>6. start = Back(n, u, b, 0)
  <2>1. n - 0 = n /\ 0 \in 0..n
    BY <1>4
  <2>2. Newest(n, b, 0) = <<>>
    <3>1. Newest(n, b, 0) \in Seq(Blocks) /\ Len(Newest(n, b, 0)) = 0
      BY <1>3, <1>4, <2>1, NewestIs
    <3>2. QED
      BY <3>1, EmptySeq
  <2>3. QED
    BY <1>2, <2>1, <2>2 DEF Back
<1> HIDE DEF A, start
<1>7. 0 \in S
  BY <1>4, <1>5, <1>6
<1>8. ASSUME NEW i \in Nat, i \in S PROVE i + 1 \in S
  <2>1. A(i + 1) = BackTurn[A(i)]
    BY <1>5
  <2>2. CASE i <= n /\ i # n /\ A(i) = Back(n, u, b, i)
    <3>1. i \in 0..n /\ i + 1 <= n
      BY <1>4, <2>2
    <3>2. A(i + 1) = Back(n, u, b, i + 1)
      BY <1>2, <2>1, <2>2, <3>1, BackGoes
    <3>3. QED
      BY <3>1, <3>2
  <2>3. CASE n <= i /\ A(i) = Back(n, u, b, n)
    <3>1. n \in 0..n /\ n <= i + 1
      BY <1>4, <2>3
    <3>2. A(i + 1) = Back(n, u, b, n)
      BY <1>2, <2>1, <2>3, <3>1, BackGoes
    <3>3. QED
      BY <3>1, <3>2
  <2>4. QED
    BY <1>4, <1>8, <2>2, <2>3
<1>9. \A i \in Nat : i \in S
  <2> HIDE DEF S
  <2>1. QED
    BY <1>7, <1>8, SetInduction
<1>10. MostPatches \in Nat /\ n <= MostPatches
  BY <1>3, <1>4, PatchesBounded
<1>11. A(MostPatches) = Back(n, u, b, n)
  <2>1. \/ MostPatches <= n /\ A(MostPatches) = Back(n, u, b, MostPatches)
        \/ n <= MostPatches /\ A(MostPatches) = Back(n, u, b, n)
    BY <1>9, <1>10
  <2>2. MostPatches <= n => MostPatches = n
    BY <1>4, <1>10
  <2>3. QED
    BY <2>1, <2>2
<1>12. A(MostPatches).found = Contents(n, b)
  <2>1. n \in 0..n /\ \A j \in 1..n : n - n + j - 1 = j - 1
    BY <1>4
  <2>2. Newest(n, b, n) = Contents(n, b)
    BY <2>1 DEF Newest, Contents
  <2>3. QED
    BY <1>11, <2>2 DEF Back
<1>13. History = Contents(n, b) \o (IF thisblock_valid THEN <<thisblock>> ELSE <<>>)
  BY <1>12 DEF History, A, start
<1>14. n \in 0..(n + 1) /\ n + 1 \in 0..(n + 1) /\ n \in 0..n
  BY <1>4
<1>15. Contents(n, b) \in Seq(Blocks) /\ Len(Contents(n, b)) = n /\ \A i \in 1..n : Contents(n, b)[i] = b[i - 1]
  BY <1>3, <1>4, <1>14, ContentsIs
<1>16. CASE ~thisblock_valid
  BY <1>13, <1>15, <1>16, ConcatEmptySeq
<1>17. CASE thisblock_valid
  <2> DEFINE p == Contents(n, b)
             q == <<b[n]>>
             r == Contents(n + 1, b)
  <2>1. b[n] \in Blocks
    BY <1>3, <1>14
  <2>2. q \in Seq(Blocks) /\ Len(q) = 1 /\ q[1] = b[n]
    BY <2>1
  <2>3. r \in Seq(Blocks) /\ Len(r) = n + 1 /\ \A i \in 1..(n + 1) : r[i] = b[i - 1]
    BY <1>3, <1>4, <1>14, ContentsIs
  <2> HIDE DEF p, q, r
  <2>4. /\ p \o q \in Seq(Blocks) /\ Len(p \o q) = n + 1
        /\ \A i \in 1..n : (p \o q)[i] = p[i]
        /\ \A i \in 1..1 : (p \o q)[n + i] = q[i]
    BY <1>15, <2>2, ConcatIs DEF p
  <2>5. ASSUME NEW i \in 1..(n + 1) PROVE (p \o q)[i] = r[i]
    <3>1. CASE i = n + 1
      <4>1. (p \o q)[n + 1] = q[1] /\ r[n + 1] = b[n + 1 - 1] /\ n + 1 - 1 = n
        BY <1>4, <2>3, <2>4
      <4>2. QED
        BY <2>2, <3>1, <4>1
    <3>2. CASE i \in 1..n
      BY <1>15, <2>3, <2>4, <3>2 DEF p
    <3>3. i = n + 1 \/ i \in 1..n
      BY <1>4
    <3>4. QED
      BY <3>1, <3>2, <3>3
  <2>6. Len(p \o q) = Len(r)
    BY <2>3, <2>4
  <2>7. p \o q = r
    BY <2>3, <2>4, <2>5, <2>6, SeqEqual
  <2>8. QED
    BY <1>2, <1>13, <1>17, <2>7 DEF p, q, r
<1>18. QED
  BY <1>16, <1>17
-----------------------------------------------------------------------------
(* The inductive invariant: some patches lie in the ring, and the pointers are theirs. *)

Vars ==
  /\ capacity \in Capacities
  /\ data \in [0..(capacity - 1) -> Nat]
  /\ thisblock_valid \in BOOLEAN
  /\ given \in Blocks \cup {None}

IInv == Vars /\ \E n, u, b : Ring(n, u, b)

Single(x) == [i \in 0..0 |-> x]

LEMMA SingleLaid ==
  ASSUME RingFits, NEW c \in Capacities, NEW mem, NEW x \in Blocks
  PROVE  Laid(c, mem, 0, Single(1), Single(x))
<1> DEFINE u == Single(1)
<1>1. c \in Nat /\ c > 1
  BY RewindAssumption DEF RingFits, SizeT
<1>2. MaxCompSize \in Nat /\ MaxCompSize >= 5 /\ SizeT = 1
  BY Sizes
<1>3. u \in [0..0 -> Nat] /\ u[0] = 1 /\ \A i \in 0..0 : u[i] = 1
  BY DEF Single
<1>4. Single(x) \in [0..0 -> Blocks]
  BY DEF Single
<1> HIDE DEF u
<1>5. \A i, j \in 0..0 : i <= j => u[i] + 5 * (j - i) <= u[j]
  <2>1. \A i \in 0..0 : i = 0
    OBVIOUS
  <2>2. 1 + 5 * (0 - 0) <= 1
    OBVIOUS
  <2>3. QED
    BY <1>3, <2>1, <2>2
<1>6. c < SizeT + MaxCompSize \/ (c >= 2 * MaxCompSize /\ \A i \in 0..0 : Fit(c, u[i]))
  <2>1. c >= 2 * MaxCompSize => Fit(c, 1)
    BY <1>1, <1>2 DEF Fit, Addr
  <2>2. QED
    BY <1>3, <2>1 DEF RingFits
<1>7. u[0] < c /\ u[0] + 2 <= u[0] + c
  BY <1>1, <1>3
<1>8. Places(c, 0, u)
  BY <1>1, <1>3, <1>5, <1>6, <1>7 DEF Places
<1>9. \A i \in 0..(0 - 1) : FALSE
  OBVIOUS
<1>10. QED
  BY <1>4, <1>8, <1>9 DEF Laid, u

LEMMA InitIInv ==
  ASSUME RingFits, Init
  PROVE  IInv
<1>1. capacity \in Capacities /\ thisblock \in Blocks /\ head = 1 /\ tail = 1
      /\ thisblock_valid = TRUE /\ given = None
  BY DEF Init, SizeT
<1>2. data \in [0..(capacity - 1) -> Nat]
  BY RewindAssumption DEF Init
<1>3. Vars
  BY <1>1, <1>2 DEF Vars
<1>4. Laid(capacity, data, 0, Single(1), Single(thisblock))
  BY <1>1, SingleLaid
<1>5. Packed(0, Single(1))
  <2>1. \A i \in 0..(0 - 1) : FALSE
    OBVIOUS
  <2>2. QED
    BY <2>1 DEF Packed
<1>6. Single(1)[0] = 1 /\ Single(thisblock)[0] = thisblock
  BY DEF Single
<1>7. Addr(capacity, 1) = 1
  BY <1>1, RewindAssumption DEF Addr, RingFits, SizeT
<1>8. Ring(0, Single(1), Single(thisblock))
  BY <1>1, <1>4, <1>5, <1>6, <1>7 DEF Ring
<1>9. QED
  BY <1>3, <1>8 DEF IInv

LEMMA RingFacts ==
  ASSUME NEW n, NEW u, NEW b, Ring(n, u, b)
  PROVE  /\ Laid(capacity, data, n, u, b) /\ Places(capacity, n, u) /\ Packed(n, u)
         /\ b \in [0..n -> Blocks] /\ n \in Nat /\ capacity \in Nat /\ n \in 0..n
         /\ b[n] \in Blocks /\ thisblock = b[n] /\ tail = u[0] /\ head = Addr(capacity, u[n])
         /\ head = tail <=> n = 0
<1>1. Laid(capacity, data, n, u, b) /\ Packed(n, u) /\ thisblock = b[n] /\ tail = u[0]
      /\ head = Addr(capacity, u[n])
  BY DEF Ring
<1>2. Places(capacity, n, u) /\ b \in [0..n -> Blocks]
  BY <1>1 DEF Laid
<1>3. n \in Nat /\ capacity \in Nat /\ n \in 0..n
  BY <1>2 DEF Places
<1>4. b[n] \in Blocks
  BY <1>2, <1>3
<1>5. head = tail <=> n = 0
  BY <1>1, <1>2, <1>3, PlacesGrow
<1>6. QED
  BY <1>1, <1>2, <1>3, <1>4, <1>5

\* Nothing changes in the ring.
LEMMA RingStays ==
  ASSUME NEW n, NEW u, NEW b, Ring(n, u, b), UNCHANGED <<capacity, data, tail, head, thisblock>>
  PROVE  Ring(n, u, b)'
BY DEF Ring, Packed, Near

\* The newest patch is taken off.
LEMMA RingFewer ==
  ASSUME NEW n, NEW u, NEW b, Ring(n, u, b), n # 0,
         UNCHANGED <<capacity, data, tail>>, head' = Addr(capacity, u[n - 1]), thisblock' = b[n - 1]
  PROVE  Ring(n - 1, Fewer(n, u), Fewer(n, b))'
<1>1. Laid(capacity, data, n, u, b) /\ Packed(n, u) /\ n \in Nat /\ tail = u[0]
  BY RingFacts
<1>2. /\ n - 1 \in Nat
      /\ Laid(capacity, data, n - 1, Fewer(n, u), Fewer(n, b))
      /\ Fewer(n, u)[0] = u[0] /\ Fewer(n, u)[n - 1] = u[n - 1] /\ Fewer(n, b)[n - 1] = b[n - 1]
  BY <1>1, FewerLaid DEF FewerLies
<1>3. Packed(n - 1, Fewer(n, u))
  BY <1>1, FewerPacked
<1>4. Packed(n - 1, Fewer(n, u))'
  BY <1>3 DEF Packed, Near
<1>5. QED
  BY <1>1, <1>2, <1>4 DEF Ring

\* What a call to state_manager_pop makes of the ring.
PopRing(n, u, b) ==
  \/ (thisblock_valid \/ n = 0) /\ Ring(n, u, b)' /\ given' = b[n]
  \/ ~thisblock_valid /\ n # 0 /\ Ring(n - 1, Fewer(n, u), Fewer(n, b))' /\ given' = b[n - 1]

LEMMA PopKeeps ==
  ASSUME NEW n, NEW u, NEW b, Ring(n, u, b), state_manager_pop
  PROVE  PopRing(n, u, b)
<1>1. Laid(capacity, data, n, u, b) /\ n \in Nat /\ n \in 0..n /\ thisblock = b[n] /\ tail = u[0]
      /\ head = Addr(capacity, u[n])
  BY RingFacts
<1>2. UNCHANGED <<capacity, data, tail>>
  BY DEF state_manager_pop
<1>3. PopsTo(u, b, n)
  BY <1>1, PoppedIs
<1>4. CASE thisblock_valid
  <2>1. head' = head /\ thisblock' = thisblock /\ given' = thisblock
    BY <1>4 DEF state_manager_pop
  <2>2. Ring(n, u, b)'
    BY <1>2, <2>1, RingStays
  <2>3. QED
    BY <1>1, <1>4, <2>1, <2>2 DEF PopRing
<1>5. CASE ~thisblock_valid
  <2>1. /\ head' = Popped(b[n], Addr(capacity, u[n])).head
        /\ thisblock' = Popped(b[n], Addr(capacity, u[n])).block
        /\ given' = Popped(b[n], Addr(capacity, u[n])).block
    BY <1>1, <1>5 DEF state_manager_pop
  <2>2. CASE n = 0
    <3>1. head' = head /\ thisblock' = thisblock /\ given' = b[n]
      BY <1>1, <1>3, <2>1, <2>2 DEF PopsTo
    <3>2. Ring(n, u, b)'
      BY <1>2, <3>1, RingStays
    <3>3. QED
      BY <2>2, <3>1, <3>2 DEF PopRing
  <2>3. CASE n # 0
    <3>1. head' = Addr(capacity, u[n - 1]) /\ thisblock' = b[n - 1] /\ given' = b[n - 1]
      BY <1>3, <2>1, <2>3 DEF PopsTo
    <3>2. Ring(n - 1, Fewer(n, u), Fewer(n, b))'
      BY <1>2, <2>3, <3>1, RingFewer
    <3>3. QED
      BY <1>5, <2>3, <3>1, <3>2 DEF PopRing
  <2>4. QED
    BY <2>2, <2>3
<1>6. QED
  BY <1>4, <1>5

\* A state has been put on n patches, with so many forgotten as was needed.
Grows(n, u, b, s) ==
  /\ capacity >= 2 * MaxCompSize
  /\ \E m \in 0..n : Needed(n, u, m) /\ \E w : Ring(n - m + 1, w, More(n - m, Later(n, b, m), s))'

LEMMA PushGrows ==
  ASSUME NEW n, NEW u, NEW b, Laid(capacity, data, n, u, b), Packed(n, u), tail = u[0],
         capacity >= 2 * MaxCompSize, data \in [0..(capacity - 1) -> Nat],
         NEW s \in Blocks, state_manager_push_do(b[n], Addr(capacity, u[n]), s), capacity' = capacity
  PROVE  Grows(n, u, b, s) /\ data' \in [0..(capacity - 1) -> Nat]
<1>1. PICK m \in 0..n, y \in Nat : Pushed(n, u, b, s, m, y)
  BY PushDo
<1> DEFINE k == n - m
           v == Kept(capacity, n, u, m)
           d == More(k, Later(n, b, m), s)
<1>2. Places(capacity, n, u) /\ n \in Nat
  BY DEF Laid, Places
<1>3. k \in Nat /\ 0 \in 0..(k + 1) /\ 0 # k + 1 /\ k + 1 \in 0..(k + 1)
  BY <1>2
<1>W. PICK w : w = More(k, v, y)
  OBVIOUS
<1>4. w[0] = v[0] /\ w[k + 1] = y /\ d[k + 1] = s
  BY <1>3, <1>W DEF More
<1>5. /\ Laid(capacity, data', k + 1, w, d) /\ tail' = v[0] /\ head' = Addr(capacity, y) /\ thisblock' = s
      /\ data' \in [0..(capacity - 1) -> Nat] /\ Near(v[k], y) /\ Needed(n, u, m)
  BY <1>1, <1>W DEF Pushed
<1>6. Packed(k + 1, w)
  <2>1. MaxCompSize \in Nat
    BY Sizes
  <2>2. Packed(k, v)
    BY <1>2, <2>1, KeptPacked
  <2> HIDE DEF k, v
  <2>3. QED
    BY <1>3, <1>5, <1>W, <2>2, MorePacked
<1> HIDE DEF v
<1>7. Packed(k + 1, w)'
  BY <1>6 DEF Packed, Near
<1>8. Ring(k + 1, w, d)'
  BY <1>4, <1>5, <1>7 DEF Ring
<1>9. QED
  BY <1>5, <1>8 DEF Grows

\* What the push of a state makes of the ring.
PushRing(n, u, b, s) ==
  \/ capacity < SizeT + MaxCompSize /\ n = 0 /\ thisblock_valid /\ Ring(n, u, b)'
  \/ ~thisblock_valid /\ n = 0 /\ Ring(0, u, Single(s))'
  \/ thisblock_valid /\ Grows(n, u, b, s)
  \/ ~thisblock_valid /\ n # 0 /\ Grows(n - 1, Fewer(n, u), Fewer(n, b), s)

LEMMA PushKeeps ==
  ASSUME RingFits, Vars, NEW n, NEW u, NEW b, Ring(n, u, b), NEW s \in Blocks, Push(s)
  PROVE  PushRing(n, u, b, s) /\ data' \in [0..(capacity - 1) -> Nat]
<1>1. /\ Laid(capacity, data, n, u, b) /\ Packed(n, u) /\ Places(capacity, n, u)
      /\ n \in Nat /\ n \in 0..n /\ capacity \in Nat /\ b[n] \in Blocks
      /\ thisblock = b[n] /\ tail = u[0] /\ head = Addr(capacity, u[n]) /\ (head = tail <=> n = 0)
  BY RingFacts
<1>2. MaxCompSize \in Nat /\ MaxCompSize >= 5 /\ SizeT = 1
  BY <1>1, Sizes
<1>3. data \in [0..(capacity - 1) -> Nat] /\ capacity \in Capacities
  BY DEF Vars
<1>4. capacity < SizeT + MaxCompSize \/ capacity >= 2 * MaxCompSize
  BY <1>3 DEF RingFits
<1>5. capacity < SizeT + MaxCompSize => n = 0
  BY <1>1, <1>2 DEF Places
<1>6. capacity' = capacity
  BY DEF Push
<1>7. CASE ~thisblock_valid /\ n = 0
  <2>1. thisblock' = s /\ UNCHANGED <<data, head, tail>>
    BY <1>1, <1>7 DEF Push
  <2>2. Laid(capacity, data, 0, u, Single(s))
    <3>1. Single(s) \in [0..0 -> Blocks] /\ \A i \in 0..(0 - 1) : FALSE
      BY DEF Single
    <3>2. Places(capacity, 0, u)
      BY <1>1, <1>7
    <3>3. QED
      BY <3>1, <3>2 DEF Laid
  <2>3. Single(s)[0] = s
    BY DEF Single
  <2>4. Packed(0, u)'
    <3>1. \A i \in 0..(0 - 1) : FALSE
      OBVIOUS
    <3>2. QED
      BY <3>1 DEF Packed
  <2>5. Ring(0, u, Single(s))'
    BY <1>1, <1>6, <1>7, <2>1, <2>2, <2>3, <2>4 DEF Ring
  <2>6. QED
    BY <1>3, <1>7, <2>1, <2>5 DEF PushRing
<1>8. CASE thisblock_valid \/ n # 0
  <2> DEFINE top == Popped(thisblock, head)
             x == IF thisblock_valid THEN thisblock ELSE top.block
             h == IF thisblock_valid THEN head ELSE top.head
  <2>1. IF capacity < SizeT + MaxCompSize
        THEN head' = h /\ thisblock' = x /\ UNCHANGED <<data, tail>>
        ELSE state_manager_push_do(x, h, s)
    BY <1>1, <1>8 DEF Push
  <2>2. CASE capacity < SizeT + MaxCompSize
    <3>1. thisblock_valid /\ n = 0
      BY <1>5, <1>8, <2>2
    <3>2. UNCHANGED <<data, tail, head, thisblock>>
      BY <2>1, <2>2, <3>1
    <3>3. Ring(n, u, b)'
      BY <1>6, <3>2, RingStays
    <3>4. QED
      BY <1>3, <2>2, <3>1, <3>2, <3>3 DEF PushRing
  <2>3. CASE ~(capacity < SizeT + MaxCompSize)
    <3>1. capacity >= 2 * MaxCompSize /\ state_manager_push_do(x, h, s)
      BY <1>4, <2>1, <2>3
    <3>2. CASE thisblock_valid
      <4>1. state_manager_push_do(b[n], Addr(capacity, u[n]), s)
        BY <1>1, <3>1, <3>2
      <4>2. Grows(n, u, b, s) /\ data' \in [0..(capacity - 1) -> Nat]
        BY <1>1, <1>3, <1>6, <3>1, <4>1, PushGrows
      <4>3. QED
        BY <3>2, <4>2 DEF PushRing
    <3>3. CASE ~thisblock_valid
      <4>1. n # 0
        BY <1>8, <3>3
      <4>2. PopsTo(u, b, n)
        BY <1>1, PoppedIs
      <4>3. x = b[n - 1] /\ h = Addr(capacity, u[n - 1])
        BY <1>1, <3>3, <4>1, <4>2 DEF PopsTo
      <4> HIDE DEF x, h, top
      <4>4. /\ n - 1 \in Nat
            /\ Laid(capacity, data, n - 1, Fewer(n, u), Fewer(n, b))
            /\ Fewer(n, u)[0] = u[0] /\ Fewer(n, u)[n - 1] = u[n - 1] /\ Fewer(n, b)[n - 1] = b[n - 1]
        <5>1. Laid(capacity, data, n, u, b)
          BY <1>1
        <5>2. FewerLies(capacity, data, n, u, b)
          BY <4>1, <5>1, FewerLaid
        <5>3. QED
          BY <5>2 DEF FewerLies
      <4>5. Packed(n - 1, Fewer(n, u))
        BY <1>1, <4>1, FewerPacked
      <4>6. state_manager_push_do(Fewer(n, b)[n - 1], Addr(capacity, Fewer(n, u)[n - 1]), s)
        BY <3>1, <4>3, <4>4
      <4>7. tail = Fewer(n, u)[0]
        BY <1>1, <4>4
      <4>8. Grows(n - 1, Fewer(n, u), Fewer(n, b), s) /\ data' \in [0..(capacity - 1) -> Nat]
        BY <1>3, <1>6, <3>1, <4>4, <4>5, <4>6, <4>7, PushGrows
      <4>9. QED
        BY <3>3, <4>1, <4>8 DEF PushRing
    <3>4. QED
      BY <3>2, <3>3
  <2>4. QED
    BY <2>2, <2>3
<1>9. QED
  BY <1>7, <1>8

LEMMA NextIInv ==
  ASSUME RingFits, IInv, [Next]_vars
  PROVE  IInv'
<1>1. PICK n, u, b : Ring(n, u, b)
  BY DEF IInv
<1>2. Vars
  BY DEF IInv
<1>3. CASE UNCHANGED vars
  <2>1. UNCHANGED <<capacity, data, tail, head, thisblock, thisblock_valid, given>>
    BY <1>3 DEF vars
  <2>2. Ring(n, u, b)'
    BY <1>1, <2>1, RingStays
  <2>3. Vars'
    BY <1>2, <2>1 DEF Vars
  <2>4. QED
    BY <2>2, <2>3 DEF IInv
<1>4. CASE state_manager_pop
  <2>1. PopRing(n, u, b)
    BY <1>1, <1>4, PopKeeps
  <2>2. \E n2, u2, b2 : Ring(n2, u2, b2)'
    BY <2>1 DEF PopRing
  <2>3. given' \in Blocks
    <3>1. n \in Nat /\ n \in 0..n /\ b \in [0..n -> Blocks] /\ (n # 0 => n - 1 \in 0..n)
      BY <1>1, RingFacts
    <3>2. QED
      BY <2>1, <3>1 DEF PopRing
  <2>4. Vars'
    BY <1>2, <1>4, <2>3 DEF Vars, state_manager_pop
  <2>5. QED
    BY <2>2, <2>4 DEF IInv
<1>5. ASSUME NEW s \in Blocks, Push(s) PROVE IInv'
  <2>1. PushRing(n, u, b, s) /\ data' \in [0..(capacity - 1) -> Nat]
    BY <1>1, <1>2, <1>5, PushKeeps
  <2>2. \E n2, u2, b2 : Ring(n2, u2, b2)'
    BY <2>1 DEF PushRing, Grows
  <2>3. capacity' = capacity /\ thisblock_valid' = TRUE /\ given' = None
    BY <1>5 DEF Push
  <2>4. Vars'
    BY <1>2, <2>1, <2>3 DEF Vars
  <2>5. QED
    BY <2>2, <2>4 DEF IInv
<1>6. QED
  BY <1>3, <1>4, <1>5 DEF Next

\* Whatever is pushed and popped, the patches lie one behind the other along the ring,
\* each leads from its state to the one before it, and no two overlap.
THEOREM Invariance == RingFits => (Spec => []IInv)
<1>1. ASSUME RingFits PROVE Spec => []IInv
  <2>1. Init => IInv
    BY <1>1, InitIInv
  <2>2. IInv /\ [Next]_vars => IInv'
    BY <1>1, NextIInv
  <2>3. QED
    BY <2>1, <2>2, PTL DEF Spec
<1>2. QED
  BY <1>1

\* The head, the tail and the block stay in their ranges.
THEOREM TypeCorrect == RingFits => (Spec => []TypeOK)
<1>1. ASSUME IInv PROVE TypeOK
  <2>1. PICK n, u, b : Ring(n, u, b)
    BY <1>1 DEF IInv
  <2>2. /\ Places(capacity, n, u) /\ n \in 0..n /\ n \in Nat /\ b[n] \in Blocks
        /\ thisblock = b[n] /\ tail = u[0] /\ head = Addr(capacity, u[n])
    BY <2>1, RingFacts
  <2>3. head \in 0..(capacity - 1)
    BY <2>2, PlacesGrow
  <2>4. 0 \in 0..n
    BY <2>2
  <2>5. tail \in 0..(capacity - 1)
    BY <2>2, <2>4, PlacesGrow
  <2>6. QED
    BY <1>1, <2>2, <2>3, <2>5 DEF IInv, Vars, TypeOK
<1>2. QED
  BY <1>1, Invariance, PTL

\* "The compressed data is surrounded by pointers to the other side": whatever was
\* pushed, popped, discarded and wrapped around, the pointers lead from the tail to the
\* head and back over the same patches, and none was overwritten.
THEOREM Linked == RingFits => (Spec => []PointersAgree)
<1>1. ASSUME IInv PROVE PointersAgree
  <2>1. PICK n, u, b : Ring(n, u, b)
    BY <1>1 DEF IInv
  <2>2. /\ Laid(capacity, data, n, u, b) /\ Places(capacity, n, u) /\ n \in 0..n /\ n \in Nat
        /\ b[n] \in Blocks /\ tail = u[0] /\ head = Addr(capacity, u[n])
    BY <2>1, RingFacts
  <2>3. MostPatches \in Int /\ n <= MostPatches
    BY <2>2, PatchesBounded
  <2> DEFINE S == { i \in Nat : i <= n => Start(i) = Addr(capacity, u[i]) }
  <2>4. Start(0) = tail /\ \A i \in Nat : Start(i + 1) = data[Start(i)]
    BY AfterDef DEF Start
  <2>5. \A i \in 0..(n - 1) : /\ data[Addr(capacity, u[i])] = Addr(capacity, u[i + 1])
                              /\ data[Addr(capacity, u[i + 1]) - 1] = Addr(capacity, u[i])
    BY <2>2 DEF Laid, Link
  <2>6. 0 \in S
    <3>1. 0 \in 0..n
      BY <2>2
    <3>2. Addr(capacity, u[0]) = u[0]
      BY <2>2, <3>1, PlacesGrow
    <3>3. QED
      BY <2>2, <2>4, <3>2
  <2>7. ASSUME NEW i \in Nat, i \in S PROVE i + 1 \in S
    <3>1. SUFFICES ASSUME i + 1 <= n PROVE Start(i + 1) = Addr(capacity, u[i + 1])
      OBVIOUS
    <3>2. i \in 0..(n - 1) /\ i <= n
      BY <2>2, <3>1
    <3>3. Start(i) = Addr(capacity, u[i])
      BY <2>7, <3>2
    <3>4. QED
      BY <2>4, <2>5, <3>2, <3>3
  <2>8. \A i \in Nat : i \in S
    <3> HIDE DEF S
    <3>1. QED
      BY <2>6, <2>7, SetInduction
  <2>9. \A i \in 0..n : Start(i) = Addr(capacity, u[i])
    BY <2>2, <2>8
  <2>10. \A i \in 0..n : Start(i) \in SizeT..(capacity - 1)
    <3>1. SUFFICES ASSUME NEW i \in 0..n PROVE Addr(capacity, u[i]) \in SizeT..(capacity - 1)
      BY <2>9
    <3>2. Addr(capacity, u[i]) \in 0..(capacity - 1) /\ Addr(capacity, u[i]) >= 1
      BY <2>2, PlacesGrow, PlacesFit
    <3>3. QED
      BY <3>2 DEF SizeT
  <2>11. \A i \in 0..(n - 1) : data[Start(i + 1) - SizeT] = Start(i)
    <3>1. \A i \in 0..(n - 1) : i \in 0..n /\ i + 1 \in 0..n
      BY <2>2
    <3>2. QED
      BY <2>5, <2>9, <3>1 DEF SizeT
  <2>12. Start(n) = head
    BY <2>2, <2>9
  <2>13. n \in 0..MostPatches
    BY <2>2, <2>3
  <2>14. QED
    BY <2>10, <2>11, <2>12, <2>13 DEF PointersAgree
<1>2. QED
  BY <1>1, Invariance, PTL
-----------------------------------------------------------------------------
(* The refinement of the stack. *)

LEMMA ContentsPopped ==
  ASSUME NEW n \in Nat, NEW b \in [0..n -> Blocks], NEW k \in 0..n
  PROVE  /\ Contents(k + 1, b) # <<>>
         /\ Front(Contents(k + 1, b)) = Contents(k, b)
         /\ Last(Contents(k + 1, b)) = b[k]
<1> DEFINE p == Contents(k + 1, b)
           q == Contents(k, b)
<1>1. p \in Seq(Blocks) /\ Len(p) = k + 1 /\ \A i \in 1..(k + 1) : p[i] = b[i - 1]
  <2>1. k + 1 \in 0..(n + 1)
    OBVIOUS
  <2>2. QED
    BY <2>1, ContentsIs
<1>2. q \in Seq(Blocks) /\ Len(q) = k /\ \A i \in 1..k : q[i] = b[i - 1]
  <2>1. k \in 0..(n + 1)
    OBVIOUS
  <2>2. QED
    BY <2>1, ContentsIs
<1> HIDE DEF p, q
<1>3. p # <<>>
  <2>1. Len(p) # 0
    BY <1>1
  <2>2. QED
    BY <2>1, EmptySeq
<1>4. k + 1 \in 1..(k + 1) /\ (k + 1) - 1 = k
  OBVIOUS
<1>5. Last(p) = b[k]
  <2>1. p[k + 1] = b[(k + 1) - 1]
    BY <1>1, <1>4
  <2>2. QED
    BY <1>1, <1>4, <2>1 DEF Last
<1>6. Front(p) = q
  <2> DEFINE r == SubSeq(p, 1, 1 + k - 1)
  <2>1. r \in Seq(Blocks) /\ Len(r) = k /\ \A i \in 1..k : r[i] = p[1 + i - 1]
    <3>1. 1 \in Nat /\ 1 >= 1 /\ k \in Nat /\ 1 + k - 1 <= Len(p)
      BY <1>1
    <3>2. QED
      BY <1>1, <3>1, SliceIs
  <2>2. Front(p) = r
    <3>1. Len(p) - 1 = 1 + k - 1
      BY <1>1
    <3>2. QED
      BY <3>1 DEF Front
  <2> HIDE DEF r
  <2>3. \A i \in 1..k : r[i] = q[i]
    <3>1. \A i \in 1..k : i \in 1..(k + 1) /\ 1 + i - 1 = i
      OBVIOUS
    <3>2. QED
      BY <1>1, <1>2, <2>1, <3>1
  <2>4. r = q
    BY <1>2, <2>1, <2>3, SeqEqual
  <2>5. QED
    BY <2>2, <2>4
<1>7. QED
  BY <1>3, <1>5, <1>6 DEF p, q

LEMMA ContentsFewer ==
  ASSUME NEW n \in Nat, NEW b, NEW k \in 0..n
  PROVE  Contents(k, Fewer(n, b)) = Contents(k, b)
<1>1. \A i \in 1..k : Fewer(n, b)[i - 1] = b[i - 1]
  <2>1. \A i \in 1..k : i - 1 \in 0..(n - 1)
    OBVIOUS
  <2>2. QED
    BY <2>1 DEF Fewer
<1>2. QED
  BY <1>1 DEF Contents

\* The m oldest blocks are forgotten and one is put on the others.
LEMMA ContentsPushed ==
  ASSUME NEW n \in Nat, NEW b \in [0..n -> Blocks], NEW m \in 0..n, NEW s \in Blocks
  PROVE  /\ m \in 0..Len(Contents(n + 1, b))
         /\ Contents(n - m + 2, More(n - m, Later(n, b, m), s))
              = Append(SubSeq(Contents(n + 1, b), m + 1, Len(Contents(n + 1, b))), s)
<1> DEFINE p == Contents(n + 1, b)
           k == n - m + 1
           d == More(n - m, Later(n, b, m), s)
           q == Contents(k + 1, d)
           r == SubSeq(p, m + 1, (m + 1) + k - 1)
<1>1. p \in Seq(Blocks) /\ Len(p) = n + 1 /\ \A i \in 1..(n + 1) : p[i] = b[i - 1]
  <2>1. n + 1 \in 0..(n + 1)
    OBVIOUS
  <2>2. QED
    BY <2>1, ContentsIs
<1>2. k \in Nat /\ n - m + 2 = k + 1 /\ (m + 1) + k - 1 = n + 1 /\ m + 1 \in Nat /\ m + 1 >= 1 /\ n - m + 1 = k
  OBVIOUS
<1>3. d \in [0..k -> Blocks] /\ d[k] = s /\ \A i \in 0..(n - m) : d[i] = b[i + m]
  <2>1. \A i \in 0..(n - m) : i + m \in 0..n /\ i # k /\ i \in 0..k
    OBVIOUS
  <2>2. \A i \in 0..k : i # k => i \in 0..(n - m)
    OBVIOUS
  <2>3. \A i \in 0..(n - m) : Later(n, b, m)[i] = b[i + m] /\ b[i + m] \in Blocks
    BY <2>1 DEF Later
  <2>4. \A i \in 0..k : d[i] = (IF i = k THEN s ELSE Later(n, b, m)[i])
    BY DEF More
  <2>5. d = [i \in 0..k |-> d[i]]
    BY DEF More
  <2>6. k \in 0..k
    BY <1>2
  <2> HIDE DEF d, k
  <2>7. \A i \in 0..k : d[i] \in Blocks
    BY <2>2, <2>3, <2>4
  <2>8. d \in [0..k -> Blocks]
    BY <2>5, <2>7
  <2>9. QED
    BY <2>1, <2>3, <2>4, <2>6, <2>8
<1> HIDE DEF p, d
<1>4. q \in Seq(Blocks) /\ Len(q) = k + 1 /\ \A i \in 1..(k + 1) : q[i] = d[i - 1]
  <2> HIDE DEF k
  <2>1. k + 1 \in 0..(k + 1)
    BY <1>2
  <2>2. QED
    BY <1>2, <1>3, <2>1, ContentsIs
<1>5. r \in Seq(Blocks) /\ Len(r) = k /\ \A i \in 1..k : r[i] = p[(m + 1) + i - 1]
  <2> HIDE DEF k
  <2>1. (m + 1) + k - 1 <= Len(p)
    BY <1>1, <1>2
  <2>2. QED
    BY <1>1, <1>2, <2>1, SliceIs
<1>6. r = SubSeq(p, m + 1, Len(p))
  BY <1>1, <1>2
<1> HIDE DEF q, r
<1>7. /\ Append(r, s) \in Seq(Blocks) /\ Len(Append(r, s)) = k + 1
      /\ Append(r, s)[k + 1] = s /\ \A i \in 1..k : Append(r, s)[i] = r[i]
  <2> HIDE DEF k
  <2>1. QED
    BY <1>5
<1>8. ASSUME NEW i \in 1..(k + 1) PROVE Append(r, s)[i] = q[i]
  <2>1. CASE i = k + 1
    <3>1. q[i] = d[i - 1] /\ i - 1 = k
      BY <1>2, <1>4, <2>1
    <3>2. QED
      BY <1>3, <1>7, <2>1, <3>1
  <2>2. CASE i # k + 1
    <3>1. i \in 1..k /\ (m + 1) + i - 1 \in 1..(n + 1) /\ ((m + 1) + i - 1) - 1 = (i - 1) + m /\ i - 1 \in 0..(n - m)
      BY <2>2
    <3>2. r[i] = b[(i - 1) + m]
      <4>1. r[i] = p[(m + 1) + i - 1]
        BY <1>5, <3>1
      <4>2. p[(m + 1) + i - 1] = b[((m + 1) + i - 1) - 1]
        BY <1>1, <3>1
      <4>3. QED
        BY <3>1, <4>1, <4>2
    <3>3. q[i] = b[(i - 1) + m]
      <4>1. q[i] = d[i - 1]
        BY <1>4
      <4>2. QED
        BY <1>3, <3>1, <4>1
    <3>4. QED
      BY <1>7, <3>1, <3>2, <3>3
  <2>3. QED
    BY <2>1, <2>2
<1>9. Len(Append(r, s)) = Len(q)
  BY <1>4, <1>7
<1>10. Append(r, s) = q
  <2>1. \A i \in 1..Len(q) : Append(r, s)[i] = q[i]
    BY <1>4, <1>8
  <2>2. QED
    BY <1>4, <1>7, <1>9, <2>1, SeqEqual
<1>11. m \in 0..Len(p)
  BY <1>1
<1>12. Contents(n - m + 2, d) = q
  BY <1>2 DEF q
<1>13. QED
  BY <1>6, <1>10, <1>11, <1>12 DEF p, d

LEMMA NextHistory == LeadsBack'
BY HistoryIs, PTL

\* What is given back is what was pushed, newest first, to the end of what is kept: the
\* ring with its patches does what RewindStack says.
THEOREM Implements == RingFits => (Spec => ImplementsStack)
<1>1. Init /\ IInv => Stack!Init
  <2>1. SUFFICES ASSUME Init, IInv PROVE Stack!Init
    OBVIOUS
  <2>2. thisblock \in Blocks /\ given = None /\ thisblock_valid = TRUE /\ head = tail
    BY <2>1 DEF Init
  <2>3. PICK n, u, b : Ring(n, u, b)
    BY <2>1 DEF IInv
  <2>4. n = 0 /\ b \in [0..n -> Blocks] /\ thisblock = b[n]
    BY <2>2, <2>3, RingFacts
  <2>5. History = Contents(0 + 1, b)
    BY <2>2, <2>3, <2>4, HistoryIs DEF LeadsBack
  <2>6. History = <<thisblock>>
    <3>1. Contents(0 + 1, b) \in Seq(Blocks) /\ Len(Contents(0 + 1, b)) = 1 /\ Contents(0 + 1, b)[1] = b[1 - 1]
      <4>1. n \in Nat /\ n + 1 \in 0..(n + 1) /\ 1 \in 1..(n + 1) /\ n + 1 = 0 + 1 /\ 0 + 1 = 1
        BY <2>4
      <4>2. Contents(n + 1, b) \in Seq(Blocks) /\ Len(Contents(n + 1, b)) = n + 1
            /\ Contents(n + 1, b)[1] = b[1 - 1]
        <5>1. n \in Nat /\ b \in [0..n -> Blocks]
          BY <2>3, RingFacts
        <5>2. n + 1 \in 0..(n + 1) /\ 1 \in 1..(n + 1)
          BY <4>1
        <5>3. QED
          BY <5>1, <5>2, ContentsIs
      <4>3. QED
        BY <4>1, <4>2
    <3>2. Contents(0 + 1, b)[1] = thisblock
      BY <2>4, <3>1
    <3>3. QED
      BY <2>2, <2>5, <3>1, <3>2
  <2>7. QED
    BY <2>2, <2>6 DEF Stack!Init
<1>2. ASSUME RingFits, IInv, [Next]_vars PROVE [Stack!Next]_Stack!vars
  <2>1. PICK n, u, b : Ring(n, u, b)
    BY <1>2 DEF IInv
  <2>2. n \in Nat /\ n \in 0..n /\ 0 \in 0..n /\ b \in [0..n -> Blocks] /\ thisblock = b[n] /\ b[n] \in Blocks
    BY <2>1, RingFacts
  <2>3. History = Contents(IF thisblock_valid THEN n + 1 ELSE n, b)
    BY <2>1, HistoryIs DEF LeadsBack
  <2>4. \A k, w, d : Ring(k, w, d)' => /\ History' = Contents(IF thisblock_valid' THEN k + 1 ELSE k, d)
                                       /\ thisblock' = d[k]
    BY NextHistory DEF LeadsBack, Ring
  <2>5. CASE UNCHANGED vars
    <3>1. Ring(n, u, b)' /\ thisblock_valid' = thisblock_valid /\ given' = given /\ thisblock' = thisblock
      BY <2>1, <2>5, RingStays DEF vars
    <3>2. History' = History
      BY <2>3, <2>4, <3>1
    <3>3. QED
      BY <3>1, <3>2 DEF Stack!vars
  <2>6. CASE state_manager_pop
    <3>1. PopRing(n, u, b) /\ thisblock_valid' = FALSE
      BY <2>1, <2>6, PopKeeps DEF state_manager_pop
    <3>2. CASE thisblock_valid /\ Ring(n, u, b)' /\ given' = b[n]
      <4>1. History = Contents(n + 1, b) /\ History' = Contents(n, b) /\ thisblock' = b[n]
        BY <2>3, <2>4, <3>1, <3>2
      <4>2. History # <<>> /\ Front(History) = History' /\ Last(History) = b[n]
        BY <2>2, <4>1, ContentsPopped
      <4>3. Stack!Pop
        BY <3>2, <4>1, <4>2 DEF Stack!Pop, Stack!Front, Stack!Last, Front, Last
      <4>4. QED
        BY <4>3 DEF Stack!Next
    <3>3. CASE ~thisblock_valid /\ n = 0 /\ Ring(n, u, b)' /\ given' = b[n]
      <4>1. History = Contents(0, b) /\ History' = Contents(0, b) /\ thisblock' = b[n]
        BY <2>3, <2>4, <3>1, <3>3
      <4>2. Contents(0, b) = <<>>
        <5>1. Contents(0, b) \in Seq(Blocks) /\ Len(Contents(0, b)) = 0
          <6>1. 0 \in 0..(n + 1)
            BY <2>2
          <6>2. QED
            BY <2>2, <6>1, ContentsIs
        <5>2. QED
          BY <5>1, EmptySeq
      <4>3. Stack!PopEmpty
        BY <2>2, <3>3, <4>1, <4>2 DEF Stack!PopEmpty
      <4>4. QED
        BY <4>3 DEF Stack!Next
    <3>4. CASE ~thisblock_valid /\ n # 0 /\ Ring(n - 1, Fewer(n, u), Fewer(n, b))' /\ given' = b[n - 1]
      <4>1. n - 1 \in 0..n /\ (n - 1) + 1 = n /\ n - 1 \in 0..(n - 1)
        BY <2>2, <3>4
      <4>2. History = Contents((n - 1) + 1, b) /\ History' = Contents(n - 1, Fewer(n, b))
            /\ thisblock' = Fewer(n, b)[n - 1]
        BY <2>3, <2>4, <3>1, <3>4, <4>1
      <4>3. Contents(n - 1, Fewer(n, b)) = Contents(n - 1, b)
        BY <2>2, <4>1, ContentsFewer
      <4>4. Fewer(n, b)[n - 1] = b[n - 1]
        BY <4>1 DEF Fewer
      <4>5. History # <<>> /\ Front(History) = Contents(n - 1, b) /\ Last(History) = b[n - 1]
        BY <2>2, <4>1, <4>2, ContentsPopped
      <4>6. Stack!Pop
        BY <3>4, <4>2, <4>3, <4>4, <4>5 DEF Stack!Pop, Stack!Front, Stack!Last, Front, Last
      <4>7. QED
        BY <4>6 DEF Stack!Next
    <3>5. QED
      BY <3>1, <3>2, <3>3, <3>4 DEF PopRing
  <2>7. ASSUME NEW s \in Blocks, Push(s) PROVE [Stack!Next]_Stack!vars
    <3>1. PushRing(n, u, b, s)
      BY <1>2, <2>1, <2>7, PushKeeps DEF IInv
    <3>2. thisblock_valid' = TRUE /\ given' = None
      BY <2>7 DEF Push
    <3>3. ASSUME NEW f \in 0..Len(History), NEW x \in Blocks, thisblock' = x,
                 History' = Append(SubSeq(History, f + 1, Len(History)), x)
          PROVE  Stack!Next
      BY <3>2, <3>3 DEF Stack!Next, Stack!Push
    <3>4. ASSUME NEW k \in Nat, NEW d \in [0..k -> Blocks], NEW w, Grows(k, w, d, s), History = Contents(k + 1, d)
          PROVE  Stack!Next
      <4>0. PICK m \in 0..k : \E v : Ring(k - m + 1, v, More(k - m, Later(k, d, m), s))'
        BY <3>4 DEF Grows
      <4>1. PICK v : Ring(k - m + 1, v, More(k - m, Later(k, d, m), s))'
        BY <4>0
      <4> DEFINE e == More(k - m, Later(k, d, m), s)
      <4>2. History' = Contents(k - m + 1 + 1, e) /\ thisblock' = e[k - m + 1]
        BY <2>4, <3>2, <4>1
      <4>3. k - m + 1 + 1 = k - m + 2 /\ k - m + 1 \in 0..(k - m + 1)
        OBVIOUS
      <4>4. e[k - m + 1] = s
        BY <4>3 DEF More
      <4>5. m \in 0..Len(Contents(k + 1, d))
            /\ Contents(k - m + 2, e) = Append(SubSeq(Contents(k + 1, d), m + 1, Len(Contents(k + 1, d))), s)
        BY ContentsPushed
      <4> HIDE DEF e
      <4>6. QED
        BY <3>3, <3>4, <4>2, <4>3, <4>4, <4>5
    <3>5. CASE n = 0 /\ thisblock_valid /\ Ring(n, u, b)'
      <4>1. History = Contents(n + 1, b) /\ History' = Contents(n + 1, b) /\ thisblock' = b[n]
        BY <2>3, <2>4, <3>2, <3>5
      <4> DEFINE p == Contents(n + 1, b)
                 r == SubSeq(p, 1 + 1, Len(p))
      <4>2. p \in Seq(Blocks) /\ Len(p) = 1 /\ p[1] = b[0]
        <5>1. n + 1 \in 0..(n + 1) /\ 1 \in 1..(n + 1) /\ n + 1 = 1 /\ 1 - 1 = 0
          BY <2>2, <3>5
        <5>2. p \in Seq(Blocks) /\ Len(p) = n + 1 /\ p[1] = b[1 - 1]
          BY <2>2, <5>1, ContentsIs
        <5>3. QED
          BY <5>1, <5>2
      <4> HIDE DEF p
      <4>3. r = <<>>
        BY <4>2, SubSeqEmpty
      <4> HIDE DEF r
      <4>4. Append(r, b[n]) = p
        BY <2>2, <3>5, <4>2, <4>3
      <4>5. 1 \in 0..Len(History) /\ History' = Append(SubSeq(History, 1 + 1, Len(History)), b[n])
        BY <4>1, <4>2, <4>4 DEF p, r
      <4>6. QED
        BY <2>2, <3>3, <4>1, <4>5
    <3>6. CASE ~thisblock_valid /\ n = 0 /\ Ring(0, u, Single(s))'
      <4>1. History = Contents(0, b) /\ History' = Contents(0 + 1, Single(s)) /\ thisblock' = Single(s)[0]
        BY <2>3, <2>4, <3>2, <3>6
      <4>2. Contents(0, b) = <<>>
        <5>1. Contents(0, b) \in Seq(Blocks) /\ Len(Contents(0, b)) = 0
          <6>1. 0 \in 0..(n + 1)
            BY <2>2
          <6>2. QED
            BY <2>2, <6>1, ContentsIs
        <5>2. QED
          BY <5>1, EmptySeq
      <4>3. Single(s) \in [0..0 -> Blocks] /\ Single(s)[0] = s
        BY DEF Single
      <4>4. Contents(0 + 1, Single(s)) = <<s>>
        <5>1. 0 \in Nat /\ 0 + 1 \in 0..(0 + 1) /\ 1 \in 1..(0 + 1) /\ 1 - 1 = 0 /\ 0 + 1 = 1
          OBVIOUS
        <5>2. Contents(0 + 1, Single(s)) \in Seq(Blocks) /\ Len(Contents(0 + 1, Single(s))) = 0 + 1
              /\ Contents(0 + 1, Single(s))[1] = Single(s)[1 - 1]
          BY <4>3, <5>1, ContentsIs
        <5>3. QED
          BY <4>3, <5>1, <5>2
      <4>5. SubSeq(<<>>, 0 + 1, Len(<<>>)) = <<>> /\ Len(<<>>) = 0
        <5>1. Len(<<>>) = 0 /\ 0 < 0 + 1
          OBVIOUS
        <5>2. QED
          BY <5>1, SubSeqEmpty
      <4>6. 0 \in 0..Len(History) /\ History' = Append(SubSeq(History, 0 + 1, Len(History)), s)
        <5>1. History = <<>>
          BY <4>1, <4>2
        <5>2. 0 \in 0..Len(History)
          BY <4>5, <5>1
        <5>3. SubSeq(History, 0 + 1, Len(History)) = <<>>
          BY <4>5, <5>1
        <5>4. History' = <<s>> /\ Append(<<>>, s) = <<s>>
          BY <4>1, <4>4
        <5>5. QED
          BY <5>2, <5>3, <5>4
      <4>7. QED
        BY <3>3, <4>1, <4>3, <4>6
    <3>7. CASE thisblock_valid /\ Grows(n, u, b, s)
      BY <2>2, <2>3, <3>4, <3>7
    <3>8. CASE ~thisblock_valid /\ n # 0 /\ Grows(n - 1, Fewer(n, u), Fewer(n, b), s)
      <4>1. n - 1 \in Nat /\ (n - 1) + 1 = n
        BY <2>2, <3>8
      <4>2. Fewer(n, b) \in [0..(n - 1) -> Blocks]
        <5>1. \A i \in 0..(n - 1) : i \in 0..n
          BY <2>2
        <5>2. QED
          BY <2>2, <5>1 DEF Fewer
      <4>3. History = Contents((n - 1) + 1, Fewer(n, b))
        BY <2>2, <2>3, <3>8, <4>1, ContentsFewer
      <4>4. QED
        BY <3>4, <3>8, <4>1, <4>2, <4>3
    <3>9. QED
      BY <3>1, <3>5, <3>6, <3>7, <3>8 DEF PushRing
  <2>8. QED
    BY <1>2, <2>5, <2>6, <2>7 DEF Next
<1>3. QED
  <2>1. ASSUME RingFits PROVE Spec => ImplementsStack
    <3>1. Init => IInv
      BY <2>1, InitIInv
    <3>2. Init => Stack!Init
      BY <1>1, <3>1
    <3>3. Spec => []IInv
      BY <2>1, Invariance
    <3>4. IInv /\ [Next]_vars => [Stack!Next]_Stack!vars
      BY <1>2, <2>1
    <3>5. QED
      BY <3>2, <3>3, <3>4, PTL DEF Spec, ImplementsStack, Stack!Spec
  <2>2. QED
    BY <2>1
-----------------------------------------------------------------------------
(* How many states are kept. *)

\* Patches lie one behind the other, with a patch's room lost where the ring wraps.
LEMMA Span ==
  ASSUME NEW n, NEW u, Places(capacity, n, u), Packed(n, u), MaxCompSize \in Nat, MaxCompSize >= 1
  PROVE  u[n] <= u[0] + MaxCompSize * n + (IF u[n] < capacity THEN 0 ELSE MaxCompSize - 1)
<1> DEFINE Bound(i) == u[i] <= u[0] + MaxCompSize * i + (IF u[i] < capacity THEN 0 ELSE MaxCompSize - 1)
           S == { i \in Nat : i <= n => Bound(i) }
<1>1. n \in Nat /\ capacity \in Nat /\ 0 \in 0..n /\ n \in 0..n /\ u[0] < capacity
  BY DEF Places
<1>2. \A i \in 0..n : u[i] \in Nat
  BY PlacesGrow
<1>3. 0 \in S
  <2>1. u[0] \in Nat /\ MaxCompSize * 0 = 0
    BY <1>1, <1>2
  <2>2. QED
    BY <1>1, <2>1
<1>4. ASSUME NEW i \in Nat, i \in S PROVE i + 1 \in S
  <2>1. SUFFICES ASSUME i + 1 <= n PROVE Bound(i + 1)
    OBVIOUS
  <2>2. i \in 0..(n - 1) /\ i \in 0..n /\ i + 1 \in 0..n /\ 0 \in 0..n
    BY <1>1, <2>1
  <2>3. Bound(i)
    BY <1>4, <2>2
  <2>4. Near(u[i], u[i + 1])
    BY <2>2 DEF Packed
  <2>5. u[i] \in Nat /\ u[i + 1] \in Nat /\ u[0] \in Nat /\ u[i] + 5 <= u[i + 1]
    <3>1. i # n
      BY <1>1, <2>2
    <3>2. QED
      BY <1>2, <2>2, <3>1, PlacesGrow
  <2>6. MaxCompSize * (i + 1) = MaxCompSize * i + MaxCompSize /\ MaxCompSize * i \in Int
    OBVIOUS
  <2> DEFINE a == MaxCompSize * i
             z == MaxCompSize * (i + 1)
  <2>7. z = a + MaxCompSize /\ a \in Int
    BY <2>6
  <2>8. u[i] <= u[0] + a + (IF u[i] < capacity THEN 0 ELSE MaxCompSize - 1)
    BY <2>3
  <2> HIDE DEF a, z
  <2>9. u[i + 1] <= u[0] + z + (IF u[i + 1] < capacity THEN 0 ELSE MaxCompSize - 1)
    BY <1>1, <2>4, <2>5, <2>7, <2>8 DEF Near
  <2>10. QED
    BY <2>9 DEF z
<1>5. \A i \in Nat : i \in S
  <2> HIDE DEF S
  <2>1. QED
    BY <1>3, <1>4, SetInduction
<1>6. QED
  BY <1>1, <1>5

\* What was forgotten was needed: those that are kept, with the patch that was put on
\* them and another one, are as long as the ring.
LEMMA EnoughKept ==
  ASSUME NEW n, NEW u, Places(capacity, n, u), Packed(n, u), capacity >= 2 * MaxCompSize,
         MaxCompSize \in Nat, MaxCompSize >= 5, NEW m \in 0..n, m # 0, Needed(n, u, m)
  PROVE  capacity - 1 < MaxCompSize * (n - m + 3)
<1> DEFINE k == m - 1
           r == n - m + 1
           v == Kept(capacity, n, u, k)
<1>1. n \in Nat /\ capacity \in Nat
  BY DEF Places
<1>2. k \in 0..n /\ n - k = r /\ r \in Nat /\ n - m + 3 = r + 2
  BY <1>1
<1>3. Places(capacity, r, v) /\ Packed(r, v) /\ Room(capacity, r, v) = Space(n, u, k)
  <2>1. Places(capacity, n - k, v) /\ Packed(n - k, v) /\ Room(capacity, n - k, v) = Space(n, u, k)
    <3> HIDE DEF k
    <3>1. QED
      BY <1>2, KeptPlaces, KeptPacked, RoomIs
  <2>2. QED
    BY <1>2, <2>1
<1>4. \/ Room(capacity, r, v) <= MaxCompSize
      \/ v[0] = 1 /\ v[r] < capacity /\ v[r] + 2 * MaxCompSize > capacity + 1
  BY <1>3 DEF Needed
<1> HIDE DEF v, r, k
<1>5. v[0] \in Nat /\ v[r] \in Nat /\ v[0] < capacity
  <2>1. 0 \in 0..r /\ r \in 0..r
    BY <1>2
  <2>2. QED
    BY <1>3, <2>1, PlacesGrow DEF Places
<1>6. v[r] <= v[0] + MaxCompSize * r + (IF v[r] < capacity THEN 0 ELSE MaxCompSize - 1)
  BY <1>3, Span
<1> DEFINE a == MaxCompSize * r
<1>7. MaxCompSize * (r + 2) = a + 2 * MaxCompSize /\ a \in Int
  BY <1>2
<1> HIDE DEF a
<1>8. v[r] <= v[0] + a + (IF v[r] < capacity THEN 0 ELSE MaxCompSize - 1)
  BY <1>6 DEF a
<1>9. capacity - 1 < a + 2 * MaxCompSize
  BY <1>1, <1>4, <1>5, <1>7, <1>8 DEF Room
<1>10. QED
  BY <1>2, <1>7, <1>9

LEMMA FitCount ==
  ASSUME NEW k \in Int, MaxCompSize \in Nat, MaxCompSize >= 5, capacity \in Nat, capacity >= 1,
         capacity - 1 < MaxCompSize * (k + 1)
  PROVE  (capacity - SizeT) \div MaxCompSize \in Int /\ (capacity - SizeT) \div MaxCompSize <= k
<1>1. capacity - 1 \in Nat /\ MaxCompSize \in Nat \ {0} /\ k + 1 \in Int
  OBVIOUS
<1>2. (capacity - 1) \div MaxCompSize \in Int /\ (capacity - 1) \div MaxCompSize < k + 1
  BY <1>1, DivBelow
<1>3. QED
  BY <1>2 DEF SizeT

LEMMA MinBound ==
  ASSUME NEW x \in Nat, NEW y \in Int, NEW z \in Int, x <= z \/ y <= z, y >= 0
  PROVE  z >= Min({x, y})
<1>1. y \in Nat
  OBVIOUS
<1>2. Min({x, y}) = (IF x <= y THEN x ELSE y)
  BY <1>1, MinOfTwo
<1>3. QED
  BY <1>1, <1>2

\* "If the compressed data could potentially overwrite the tail pointer, the tail
\* retreats until it can no longer collide", and no further: a push keeps all the states,
\* or as many as patches of the greatest length fit in.
THEOREM KeepsMost == RingFits => (Spec => KeepsWhatFits)
<1> DEFINE Fitting == (capacity - SizeT) \div MaxCompSize
           Keeps == given' = None =>
                      /\ Last(History') = thisblock'
                      /\ Len(History') >= Min({Len(History) + 1, Fitting})
<1>1. ASSUME RingFits, IInv, [Next]_vars PROVE [Keeps]_vars
  <2>1. PICK n, u, b : Ring(n, u, b)
    BY <1>1 DEF IInv
  <2>2. /\ n \in Nat /\ n \in 0..n /\ b \in [0..n -> Blocks] /\ thisblock = b[n] /\ b[n] \in Blocks
        /\ Laid(capacity, data, n, u, b) /\ Places(capacity, n, u) /\ Packed(n, u) /\ capacity \in Nat
    BY <2>1, RingFacts
  <2>3. History = Contents(IF thisblock_valid THEN n + 1 ELSE n, b)
    BY <2>1, HistoryIs DEF LeadsBack
  <2>4. \A k, w, d : Ring(k, w, d)' => /\ History' = Contents(IF thisblock_valid' THEN k + 1 ELSE k, d)
                                       /\ thisblock' = d[k] /\ Laid(capacity', data', k, w, d)
    BY NextHistory DEF LeadsBack, Ring
  <2>5. MaxCompSize \in Nat /\ MaxCompSize >= 5 /\ SizeT = 1
    BY <2>2, Sizes
  <2>6. capacity \in Nat /\ capacity >= 1
    <3>1. 0 \in 0..n /\ u[0] < capacity
      BY <2>2 DEF Places
    <3>2. u[0] \in Nat
      BY <2>2, <3>1, PlacesGrow
    <3>3. QED
      BY <2>2, <3>1, <3>2
  <2>7. Fitting \in Int /\ Fitting >= 0
    <3>1. capacity - 1 \in Nat /\ MaxCompSize \in Nat \ {0} /\ 0 \in Int
      BY <2>5, <2>6
    <3>2. MaxCompSize * 0 <= capacity - 1
      BY <3>1
    <3>3. 0 <= (capacity - 1) \div MaxCompSize
      BY <3>1, <3>2, DivBound
    <3>4. (capacity - 1) \div MaxCompSize \in Int
      BY <3>1, ModDef
    <3>5. QED
      BY <2>5, <3>3, <3>4
  <2>8. CASE UNCHANGED vars
    BY <2>8
  <2>9. CASE state_manager_pop
    <3>1. PopRing(n, u, b)
      BY <2>1, <2>9, PopKeeps
    <3>2. given' \in Blocks
      <4>1. n # 0 => n - 1 \in 0..n
        BY <2>2
      <4>2. QED
        BY <2>2, <3>1, <4>1 DEF PopRing
    <3>3. given' # None
      BY <3>2, RewindAssumption
    <3>4. QED
      BY <3>3
  <2>10. ASSUME NEW s \in Blocks, Push(s) PROVE Keeps
    <3> HIDE DEF Fitting
    <3>1. PushRing(n, u, b, s)
      BY <1>1, <2>1, <2>10, PushKeeps DEF IInv
    <3>2. thisblock_valid' = TRUE /\ capacity' = capacity
      BY <2>10 DEF Push
    <3>3. ASSUME NEW k \in Nat, NEW w, NEW d, Ring(k, w, d)'
          PROVE  Len(History') = k + 1 /\ Last(History') = thisblock'
      <4>1. History' = Contents(k + 1, d) /\ thisblock' = d[k] /\ d \in [0..k -> Blocks]
        BY <2>4, <3>2, <3>3 DEF Laid
      <4>2. k + 1 \in 0..(k + 1) /\ k \in 0..k
        OBVIOUS
      <4>3. Len(Contents(k + 1, d)) = k + 1
        BY <4>1, <4>2, ContentsIs
      <4>4. Last(Contents(k + 1, d)) = d[k]
        BY <4>1, <4>2, ContentsPopped
      <4>5. QED
        BY <4>1, <4>3, <4>4
    <3>4. \A k \in 0..(n + 1) : Len(Contents(k, b)) = k
      BY <2>2, ContentsIs
    <3>5. Len(History) = (IF thisblock_valid THEN n + 1 ELSE n)
      <4>1. n \in 0..(n + 1) /\ n + 1 \in 0..(n + 1)
        BY <2>2
      <4>2. QED
        BY <2>3, <3>4, <4>1
    <3>6. ASSUME NEW k \in Nat, NEW w, NEW d, Places(capacity, k, w), Packed(k, w), Grows(k, w, d, s),
                 Len(History) = k + 1
          PROVE  Keeps
      <4>0. PICK m \in 0..k : Needed(k, w, m) /\ \E v : Ring(k - m + 1, v, More(k - m, Later(k, d, m), s))'
        BY <3>6 DEF Grows
      <4>1. PICK v : Ring(k - m + 1, v, More(k - m, Later(k, d, m), s))'
        BY <4>0
      <4>2. Len(History') = (k - m + 1) + 1 /\ Last(History') = thisblock'
        <5>1. k - m + 1 \in Nat
          OBVIOUS
        <5>2. QED
          BY <3>3, <4>1, <5>1
      <4>3. m = 0 \/ Fitting <= (k - m + 1) + 1
        <5>1. SUFFICES ASSUME m # 0 PROVE Fitting <= (k - m + 1) + 1
          OBVIOUS
        <5>2. capacity - 1 < MaxCompSize * (k - m + 3)
          BY <2>5, <3>6, <4>0, <5>1, EnoughKept DEF Grows
        <5>3. k - m + 3 = ((k - m + 1) + 1) + 1 /\ (k - m + 1) + 1 \in Int
          OBVIOUS
        <5> DEFINE j == (k - m + 1) + 1
        <5>4. j \in Int /\ capacity - 1 < MaxCompSize * (j + 1)
          BY <5>2, <5>3
        <5> HIDE DEF j
        <5>5. Fitting <= j
          BY <2>5, <2>6, <5>4, FitCount DEF Fitting
        <5>6. QED
          BY <5>5 DEF j
      <4>4. (k + 1) + 1 <= (k - m + 1) + 1 \/ Fitting <= (k - m + 1) + 1
        BY <4>3
      <4>5. (k - m + 1) + 1 >= Min({(k + 1) + 1, Fitting})
        <5>1. (k + 1) + 1 \in Nat /\ (k - m + 1) + 1 \in Int
          OBVIOUS
        <5>2. QED
          BY <2>7, <4>4, <5>1, MinBound
      <4>6. QED
        BY <3>6, <4>2, <4>5
    <3>7. CASE capacity < SizeT + MaxCompSize /\ n = 0 /\ thisblock_valid /\ Ring(n, u, b)'
      <4>1. Len(History') = n + 1 /\ Last(History') = thisblock'
        BY <2>2, <3>3, <3>7
      <4>2. Fitting <= n + 1
        <5>1. capacity - 1 < MaxCompSize * (0 + 1) /\ 0 \in Int
          BY <2>5, <2>6, <3>7
        <5>2. Fitting <= 0
          BY <2>5, <2>6, <5>1, FitCount DEF Fitting
        <5>3. QED
          BY <2>7, <3>7, <5>2
      <4>3. n + 1 >= Min({(n + 1) + 1, Fitting})
        <5>1. (n + 1) + 1 \in Nat /\ n + 1 \in Int
          BY <2>2
        <5>2. QED
          BY <2>7, <4>2, <5>1, MinBound
      <4>4. QED
        BY <3>5, <3>7, <4>1, <4>3
    <3>8. CASE ~thisblock_valid /\ n = 0 /\ Ring(0, u, Single(s))'
      <4>1. Len(History') = 0 + 1 /\ Last(History') = thisblock'
        BY <3>3, <3>8
      <4>2. 0 + 1 >= Min({0 + 1, Fitting})
        <5>1. 0 + 1 \in Nat /\ 0 + 1 \in Int /\ 0 + 1 <= 0 + 1
          OBVIOUS
        <5>2. QED
          BY <2>7, <5>1, MinBound
      <4>3. Len(History) = 0
        BY <3>5, <3>8
      <4>4. QED
        BY <4>1, <4>2, <4>3
    <3>9. CASE thisblock_valid /\ Grows(n, u, b, s)
      BY <2>2, <3>5, <3>6, <3>9
    <3>10. CASE ~thisblock_valid /\ n # 0 /\ Grows(n - 1, Fewer(n, u), Fewer(n, b), s)
      <4>1. n - 1 \in Nat /\ (n - 1) + 1 = n
        BY <2>2, <3>10
      <4>2. FewerLies(capacity, data, n, u, b)
        BY <2>2, <3>10, FewerLaid
      <4>3. Places(capacity, n - 1, Fewer(n, u))
        BY <4>2 DEF FewerLies, Laid
      <4>4. Packed(n - 1, Fewer(n, u))
        BY <2>2, <3>10, FewerPacked
      <4>5. Len(History) = (n - 1) + 1
        BY <3>5, <3>10, <4>1
      <4> HIDE DEF Keeps
      <4>6. QED
        BY <3>6, <3>10, <4>1, <4>3, <4>4, <4>5
    <3>11. QED
      BY <3>1, <3>7, <3>8, <3>9, <3>10 DEF PushRing
  <2>11. QED
    BY <1>1, <2>8, <2>9, <2>10 DEF Next
<1>2. QED
  <2>1. ASSUME RingFits PROVE Spec => KeepsWhatFits
    <3>1. Spec => []IInv
      BY <2>1, Invariance
    <3>2. IInv /\ [Next]_vars => [Keeps]_vars
      BY <1>1, <2>1
    <3>3. QED
      BY <3>1, <3>2, PTL DEF Spec, KeepsWhatFits
  <2>2. QED
    BY <2>1
=============================================================================
