--------------------------- MODULE SpscQueueProofs ---------------------------
(***************************************************************************)
(* The queue of retro_spsc.c, proved for every width of size_t of at least *)
(* two bits, every capacity and every sequence of calls: its cursors stay  *)
(* in order over their wrapping around, its threads never race for a byte, *)
(* and it implements ByteFifo.                                             *)
(*                                                                         *)
(* Cursors are compared by their distance (Dist) from the last value of    *)
(* tail the producer has seen, which is the oldest value anybody still     *)
(* uses.  Places of the ring are numbers modulo the capacity, a power of   *)
(* two that divides the range of size_t (RoundsUp): a cursor that wraps    *)
(* around goes on at the place it was at (PlacePlus).                      *)
(***************************************************************************)
EXTENDS SpscQueue, NatLemmas, SequenceTheorems

(* The powers of two, and spsc_round_up_pow2. *)

\* What begins with 1 and doubles is positive.
LEMMA DoublingType ==
  ASSUME NEW f, f[0] = 1, \A k \in Nat : f[k] \in Nat \ {0} => f[k + 1] = 2 * f[k]
  PROVE  \A k \in Nat : f[k] \in Nat \ {0}
<1> DEFINE Bad == { k \in Nat : f[k] \notin Nat \ {0} }
<1>1. SUFFICES ASSUME Bad # {} PROVE FALSE
  OBVIOUS
<1>2. PICK k \in Bad : \A j \in Bad : k <= j
  BY <1>1, LeastNat
<1>3. k # 0 /\ k - 1 \in Nat /\ k = (k - 1) + 1
  BY <1>2
<1>4. f[k - 1] \in Nat \ {0}
  BY <1>2, <1>3
<1>5. f[k] = 2 * f[k - 1]
  BY <1>3, <1>4
<1>6. QED
  BY <1>2, <1>4, <1>5

\* The recursive function Pow2 exists, and is the powers of two.
LEMMA Pow2Def ==
  /\ Pow2 \in [Nat -> Nat \ {0}]
  /\ Pow2[0] = 1
  /\ \A k \in Nat : Pow2[k + 1] = 2 * Pow2[k]
<1> DEFINE d == [x \in Nat |-> 2 * x]
<1>1. PICK f : IsIteration(f, d, 1)
  BY IterationExists
<1>2. \A k \in Nat : f[k] \in Nat
  BY <1>1, DoublingType DEF IsIteration
<1>3. f = [k \in Nat |-> IF k = 0 THEN 1 ELSE 2 * f[k - 1]]
  <2>1. ASSUME NEW k \in Nat PROVE f[k] = IF k = 0 THEN 1 ELSE 2 * f[k - 1]
    <3>1. CASE k # 0
      <4>1. k - 1 \in Nat /\ f[k - 1] \in Nat
        BY <3>1, <1>2
      <4>2. QED
        BY <1>1, <3>1, <4>1 DEF IsIteration
    <3>2. QED
      BY <3>1, <1>1 DEF IsIteration
  <2>2. QED
    BY <1>1, <2>1 DEF IsIteration
<1>4. Pow2 = [k \in Nat |-> IF k = 0 THEN 1 ELSE 2 * Pow2[k - 1]]
  BY <1>3, Zenon DEF Pow2
<1>5. Pow2[0] = 1 /\ \A k \in Nat : Pow2[k + 1] = 2 * Pow2[k]
  BY <1>4
<1>6. QED
  BY <1>4, <1>5, DoublingType

\* The powers of two grow, and the smaller divide the greater.
LEMMA Pow2Grows ==
  /\ \A k \in Nat : Pow2[k] > k
  /\ \A j, k \in Nat : j < k => 2 * Pow2[j] <= Pow2[k]
  /\ \A j, k \in Nat : j <= k => \E q \in Nat \ {0} : Pow2[k] = Pow2[j] * q
<1> USE Pow2Def
<1>1. ASSUME NEW k \in Nat PROVE Pow2[k] > k
  <2> DEFINE Bad == { m \in Nat : Pow2[m] <= m }
  <2>1. SUFFICES ASSUME Bad # {} PROVE FALSE
    <3>1. Pow2[k] \in Nat
      OBVIOUS
    <3>2. k \in Bad \/ Pow2[k] > k
      BY ONLY <3>1, k \in Nat
    <3>3. QED
      BY <3>2, Zenon
  <2>2. PICK m \in Bad : \A n \in Bad : m <= n
    BY <2>1, LeastNat
  <2>3. m # 0
    BY <2>2
  <2>4. m - 1 \in Nat /\ m - 1 \notin Bad
    BY <2>2, <2>3
  <2>5. Pow2[m] = 2 * Pow2[m - 1]
    BY <2>4
  <2>6. QED
    BY <2>2, <2>4, <2>5
<1>2. ASSUME NEW j \in Nat, NEW i \in Nat
      PROVE  Pow2[j] <= Pow2[j + i] /\ \E q \in Nat \ {0} : Pow2[j + i] = Pow2[j] * q
  <2> DEFINE Claim(m) == /\ Pow2[j] <= Pow2[j + m]
                         /\ \E q \in Nat \ {0} : Pow2[j + m] = Pow2[j] * q
             Bad      == { m \in Nat : ~Claim(m) }
  <2>1. SUFFICES ASSUME Bad # {} PROVE FALSE
    OBVIOUS
  <2>2. PICK m \in Bad : \A n \in Bad : m <= n
    BY <2>1, LeastNat
  <2>3. m # 0
    <3>1. Pow2[j + 0] = Pow2[j] * 1
      OBVIOUS
    <3>2. QED
      BY <2>2, <3>1
  <2>4. m - 1 \in Nat /\ Claim(m - 1)
    <3> HIDE DEF Claim
    <3>1. QED
      BY <2>2, <2>3
  <2>5. PICK q \in Nat \ {0} : Pow2[j + (m - 1)] = Pow2[j] * q
    BY <2>4
  <2>6. j + (m - 1) \in Nat /\ (j + (m - 1)) + 1 = j + m
    BY <2>4
  <2>7. Pow2[j + m] = 2 * Pow2[j + (m - 1)]
    BY <2>6
  <2>8. Pow2[j + m] = Pow2[j] * (2 * q)
    BY <2>5, <2>7
  <2>9. Pow2[j] <= Pow2[j + m]
    BY <2>4, <2>6, <2>7
  <2>10. QED
    BY <2>2, <2>8, <2>9
<1>3. ASSUME NEW j \in Nat, NEW k \in Nat, j < k PROVE 2 * Pow2[j] <= Pow2[k]
  <2>1. k - (j + 1) \in Nat /\ j + 1 \in Nat /\ (j + 1) + (k - (j + 1)) = k
    BY <1>3
  <2>2. Pow2[j + 1] <= Pow2[(j + 1) + (k - (j + 1))]
    BY <1>2, <2>1
  <2>3. QED
    BY <2>1, <2>2
<1>4. ASSUME NEW j \in Nat, NEW k \in Nat, j <= k
      PROVE  \E q \in Nat \ {0} : Pow2[k] = Pow2[j] * q
  <2>1. k - j \in Nat /\ j + (k - j) = k
    BY <1>4
  <2>2. \E q \in Nat \ {0} : Pow2[j + (k - j)] = Pow2[j] * q
    BY <1>2, <2>1
  <2>3. QED
    BY <2>1, <2>2
<1>5. QED
  BY <1>1, <1>3, <1>4

\* What the loop of spsc_round_up_pow2 computes.
Loop(v, f) == f = [r \in Nat |-> IF r < v THEN f[2 * r] ELSE r]

\* The recursion ends: r is doubled until it reaches v.
LEMMA LoopExists == \A v \in Nat : \E f : Loop(v, f)
<1> TAKE v \in Nat
<1> DEFINE Steps(r) == { k \in Nat : r * Pow2[k] >= v }
           n(r) == CHOOSE k \in Steps(r) : \A j \in Steps(r) : k <= j
           f == [r \in Nat |-> IF r = 0 /\ v # 0 THEN 0 ELSE r * Pow2[n(r)]]
<1>1. ASSUME NEW r \in Nat, r # 0 \/ v = 0
      PROVE  n(r) \in Steps(r) /\ \A j \in Steps(r) : n(r) <= j
  <2>1. Pow2[v] \in Nat /\ Pow2[v] > v
    BY Pow2Def, Pow2Grows
  <2>2. r * Pow2[v] >= v
    <3>1. CASE r = 0
      BY <3>1, <1>1, <2>1
    <3>2. CASE r # 0
      <4>1. r * Pow2[v] >= Pow2[v]
        BY <3>2, <2>1
      <4>2. QED
        BY <4>1, <2>1
    <3>3. QED
      BY <3>1, <3>2
  <2>3. Steps(r) # {} /\ Steps(r) \in SUBSET Nat
    BY <2>2
  <2> HIDE DEF Steps
  <2>4. \E k \in Steps(r) : \A j \in Steps(r) : k <= j
    BY <2>3, LeastNat
  <2>5. QED
    BY <2>4, Zenon
<1> HIDE DEF n
<1>2. ASSUME NEW r \in Nat PROVE f[r] = IF r < v THEN f[2 * r] ELSE r
  <2>1. CASE r = 0 /\ v # 0
    BY <2>1
  <2>2. CASE (r # 0 \/ v = 0) /\ r >= v
    <3>1. r * Pow2[0] >= v /\ 0 \in Nat
      BY <2>2, Pow2Def
    <3>2. n(r) = 0
      BY <3>1, <1>1, <2>2
    <3>3. QED
      BY <2>2, <3>2, Pow2Def
  <2>3. CASE r # 0 /\ r < v
    <3>1. 2 * r \in Nat /\ 2 * r # 0
      BY <2>3
    <3>2. /\ n(r) \in Nat /\ r * Pow2[n(r)] >= v
          /\ \A j \in Nat : r * Pow2[j] >= v => n(r) <= j
          /\ n(2 * r) \in Nat /\ (2 * r) * Pow2[n(2 * r)] >= v
          /\ \A j \in Nat : (2 * r) * Pow2[j] >= v => n(2 * r) <= j
      BY <1>1, <2>3, <3>1
    <3>3. n(r) # 0
      BY <3>2, <2>3, Pow2Def
    <3>4. ASSUME NEW j \in Nat PROVE (2 * r) * Pow2[j] = r * Pow2[j + 1]
      BY Pow2Def
    <3>5. n(r) - 1 \in Nat /\ (n(r) - 1) + 1 = n(r)
      BY <3>2, <3>3
    <3>6. n(2 * r) <= n(r) - 1
      BY <3>2, <3>4, <3>5
    <3>7. n(r) <= n(2 * r) + 1
      BY <3>2, <3>4
    <3>8. n(2 * r) + 1 = n(r)
      BY <3>2, <3>6, <3>7
    <3>9. QED
      BY <3>1, <3>2, <3>4, <3>8, <2>3
  <2>4. QED
    BY <2>1, <2>2, <2>3
<1>3. f = [r \in Nat |-> IF r < v THEN f[2 * r] ELSE r]
  BY <1>2
<1>4. QED
  BY <1>3 DEF Loop

\* spsc_round_up_pow2 returns the smallest power of two that is not less than v.
LEMMA RoundUpDef ==
  ASSUME NEW v \in Nat \ {0}
  PROVE  \E k \in Nat : /\ spsc_round_up_pow2(v) = Pow2[k]
                        /\ v <= Pow2[k]
                        /\ k > 0 => v > Pow2[k - 1]
<1> DEFINE Up == CHOOSE Up : Up = [r \in Nat |-> IF r < v THEN Up[2 * r] ELSE r]
<1>1. spsc_round_up_pow2(v) = Up[1]
  BY DEF spsc_round_up_pow2
<1>2. Loop(v, Up)
  <2>1. Loop(v, CHOOSE f : Loop(v, f))
    BY LoopExists
  <2>2. QED
    BY <2>1, Zenon DEF Loop
<1> HIDE DEF Up
<1> DEFINE Steps == { k \in Nat : Pow2[k] >= v }
<1>3. PICK k \in Steps : \A j \in Steps : k <= j
  <2>1. v \in Steps
    BY Pow2Def, Pow2Grows
  <2>2. QED
    BY <2>1, LeastNat
<1>4. ASSUME NEW j \in Nat, j <= k PROVE Up[1] = Up[Pow2[j]]
  <2> DEFINE Bad == { i \in Nat : i <= k /\ Up[1] # Up[Pow2[i]] }
  <2>1. SUFFICES ASSUME Bad # {} PROVE FALSE
    BY <1>4
  <2>2. PICK i \in Bad : \A m \in Bad : i <= m
    BY <2>1, LeastNat
  <2>3. i # 0
    BY <2>2, Pow2Def
  <2>4. i - 1 \in Nat /\ (i - 1) + 1 = i /\ Up[1] = Up[Pow2[i - 1]]
    BY <2>2, <2>3, <1>3
  <2>5. Pow2[i - 1] \in Nat /\ Pow2[i - 1] < v /\ Pow2[i] = 2 * Pow2[i - 1]
    BY <2>2, <2>4, <1>3, Pow2Def
  <2>6. Up[Pow2[i - 1]] = Up[Pow2[i]]
    BY <2>5, <1>2 DEF Loop
  <2>7. QED
    BY <2>2, <2>4, <2>6
<1>5. Up[Pow2[k]] = Pow2[k]
  BY <1>2, <1>3, Pow2Def DEF Loop
<1>6. k > 0 => v > Pow2[k - 1]
  BY <1>3, Pow2Def
<1>7. QED
  BY <1>1, <1>3, <1>4, <1>5, <1>6
-----------------------------------------------------------------------------
(* The cursors. *)

\* A size_t has at least four values.
LEMMA WrapIs == Wrap \in Nat /\ Wrap >= 4 /\ SizeMax = Wrap - 1
<1>1. Pow2[0] = 1 /\ Pow2[0 + 1] = 2 * Pow2[0] /\ Pow2[1 + 1] = 2 * Pow2[1]
  BY Pow2Def
<1>2. Bits = 2 \/ 2 * Pow2[2] <= Pow2[Bits]
  BY Pow2Grows, SpscAssumption
<1>3. QED
  BY <1>1, <1>2, Pow2Def, SpscAssumption DEF Wrap, SizeMax

\* Without modulo: the sum and the difference of size_t wrap around at most once.
LEMMA MinusIs ==
  ASSUME NEW x \in Cursor, NEW y \in Cursor
  PROVE  /\ Minus(x, y) \in Cursor
         /\ Minus(x, y) = IF x >= y THEN x - y ELSE x - y + Wrap
<1>1. x - y \in Int /\ -Wrap <= x - y /\ x - y < Wrap
  BY WrapIs DEF Cursor
<1>2. (x - y) % Wrap = IF x - y < 0 THEN x - y + Wrap ELSE x - y
  BY <1>1, WrapIs, ModSmall
<1>3. QED
  BY <1>2, WrapIs DEF Minus, Cursor

\* A difference is a value of size_t.
LEMMA MinusNat ==
  ASSUME NEW x \in Cursor, NEW y \in Cursor
  PROVE  Minus(x, y) \in Nat /\ Minus(x, y) < Wrap
<1>1. Minus(x, y) \in Cursor
  BY MinusIs
<1>2. QED
  BY <1>1, WrapIs DEF Cursor

\* A sum of size_t wraps around at most once.
LEMMA PlusIs ==
  ASSUME NEW x \in Cursor, NEW n \in 0..Wrap
  PROVE  /\ Plus(x, n) \in Cursor
         /\ Plus(x, n) = IF x + n < Wrap THEN x + n ELSE x + n - Wrap
<1>1. x % Wrap = x
  BY WrapIs, ModSmall DEF Cursor
<1>2. (x + n) % Wrap = IF (x % Wrap) + n < Wrap THEN (x % Wrap) + n ELSE (x % Wrap) + n - Wrap
  BY WrapIs, ModPlus DEF Cursor
<1>3. QED
  BY <1>1, <1>2, WrapIs DEF Plus, Cursor

\* What is known of the size of a buffer.
IsCapacity(c) ==
  /\ c \in Nat \ {0}
  /\ 2 * c < Wrap
  /\ \E q \in Nat : Wrap = c * q

\* RoundsUp says it of the buffer in use.
LEMMA CapacityIs ==
  ASSUME capacity \in 0..(SizeMax \div 2), capacity # 0, RoundsUp
  PROVE  IsCapacity(capacity)
<1>1. PICK k \in 0..Bits : capacity = Pow2[k]
  BY DEF RoundsUp
<1>2. \E q \in Nat : Wrap = capacity * q
  BY <1>1, Pow2Grows, SpscAssumption DEF Wrap
<1>3. 2 * capacity < Wrap
  BY WrapIs
<1>4. QED
  BY <1>2, <1>3 DEF IsCapacity

\* The two memcpys put byte i at the place of the ring i places from the cursor.
LEMMA IndexIs ==
  ASSUME IsCapacity(capacity), NEW x \in Cursor, NEW n \in 0..capacity, NEW i \in 0..(n - 1)
  PROVE  /\ Index(x, n, i) = (x + i) % capacity
         /\ (x + i) % capacity \in 0..(capacity - 1)
<1> USE DEF IsCapacity
<1>1. x \in Int /\ i \in Nat /\ i <= capacity
  BY WrapIs DEF Cursor
<1>2. x % capacity \in 0..(capacity - 1)
  BY <1>1, ModDef
<1>3. (x + i) % capacity = IF (x % capacity) + i < capacity THEN (x % capacity) + i
                           ELSE (x % capacity) + i - capacity
  BY <1>1, ModPlus
<1>4. Index(x, n, i) = IF (x % capacity) + i < capacity THEN (x % capacity) + i
                       ELSE (x % capacity) + i - capacity
  BY <1>1, <1>2 DEF Index, Smaller
<1>5. QED
  BY <1>1, <1>2, <1>3, <1>4

\* The buffer's size divides Wrap: a cursor that wraps around goes on at the place
\* it was at.
LEMMA PlacePlus ==
  ASSUME IsCapacity(capacity), NEW x \in Cursor, NEW n \in 0..Wrap, NEW i \in Nat
  PROVE  (Plus(x, n) + i) % capacity = (x + (n + i)) % capacity
<1>1. PICK q \in Nat : Wrap = capacity * q
  BY DEF IsCapacity
<1>2. CASE x + n < Wrap
  <2>1. Plus(x, n) + i = x + (n + i)
    BY <1>2, PlusIs, WrapIs DEF Cursor
  <2>2. QED
    BY <2>1
<1>3. CASE x + n >= Wrap
  <2>1. x + (n + i) = (Plus(x, n) + i) + capacity * q
    BY <1>1, <1>3, PlusIs, WrapIs DEF Cursor
  <2>2. Plus(x, n) + i \in Int
    BY PlusIs, WrapIs DEF Cursor
  <2>3. capacity \in Nat \ {0} /\ q \in Int
    BY DEF IsCapacity
  <2>4. ((Plus(x, n) + i) + capacity * q) % capacity = (Plus(x, n) + i) % capacity
    BY <2>2, <2>3, ModMultiple
  <2>5. QED
    BY <2>1, <2>4
<1>4. QED
  BY <1>2, <1>3, WrapIs DEF Cursor

\* Every place of the ring is in the buffer.
LEMMA PlaceIs ==
  ASSUME IsCapacity(capacity), NEW x \in Cursor, NEW i \in Nat
  PROVE  (x + i) % capacity \in 0..(capacity - 1)
<1>1. x + i \in Int
  BY WrapIs DEF Cursor
<1>2. QED
  BY <1>1, ModDef DEF IsCapacity

\* Fewer than capacity places in a row are different ones.
LEMMA PlacesApart ==
  ASSUME IsCapacity(capacity), NEW x \in Cursor, NEW i \in Nat, NEW j \in Nat,
         i < j, j < i + capacity
  PROVE  (x + i) % capacity # (x + j) % capacity
<1>1. /\ capacity \in Nat \ {0} /\ x + i \in Int /\ x + j \in Int
      /\ x + i < x + j /\ x + j < x + i + capacity
  BY WrapIs DEF IsCapacity, Cursor
<1>2. QED
  BY <1>1, ModDistinct

\* Distances from a common base add up.
LEMMA MinusAdds ==
  ASSUME NEW x \in Cursor, NEW y \in Cursor, NEW base \in Cursor,
         Minus(x, base) <= Minus(y, base)
  PROVE  Minus(y, x) = Minus(y, base) - Minus(x, base)
<1>1. /\ Minus(x, base) = IF x >= base THEN x - base ELSE x - base + Wrap
      /\ Minus(y, base) = IF y >= base THEN y - base ELSE y - base + Wrap
      /\ Minus(y, x) = IF y >= x THEN y - x ELSE y - x + Wrap
  BY MinusIs
<1>2. {x, y, base} \subseteq Nat /\ x < Wrap /\ y < Wrap /\ base < Wrap
  BY WrapIs DEF Cursor
<1>3. QED
  BY <1>1, <1>2, WrapIs

\* A cursor that moves on is further from the base, as long as it does not lap it.
LEMMA MinusPlus ==
  ASSUME NEW x \in Cursor, NEW base \in Cursor, NEW n \in Nat, Minus(x, base) + n < Wrap
  PROVE  /\ Plus(x, n) \in Cursor
         /\ Minus(Plus(x, n), base) = Minus(x, base) + n
<1>1. n \in 0..Wrap
  BY MinusIs, WrapIs DEF Cursor
<1>2. /\ Plus(x, n) \in Cursor
      /\ Plus(x, n) = IF x + n < Wrap THEN x + n ELSE x + n - Wrap
  BY <1>1, PlusIs
<1>3. /\ Minus(x, base) = IF x >= base THEN x - base ELSE x - base + Wrap
      /\ Minus(Plus(x, n), base) = IF Plus(x, n) >= base THEN Plus(x, n) - base
                                   ELSE Plus(x, n) - base + Wrap
  BY <1>2, MinusIs
<1>4. {x, base} \subseteq Nat /\ x < Wrap /\ base < Wrap
  BY WrapIs DEF Cursor
<1>5. QED
  BY <1>2, <1>3, <1>4, WrapIs

\* The difference added to the base is the cursor again.
LEMMA MinusBack ==
  ASSUME NEW x \in Cursor, NEW base \in Cursor
  PROVE  Minus(x, base) \in 0..Wrap /\ Plus(base, Minus(x, base)) = x
<1>1. Minus(x, base) \in 0..Wrap
  BY MinusIs, WrapIs DEF Cursor
<1>2. /\ Minus(x, base) = IF x >= base THEN x - base ELSE x - base + Wrap
      /\ Plus(base, Minus(x, base)) = IF base + Minus(x, base) < Wrap THEN base + Minus(x, base)
                                      ELSE base + Minus(x, base) - Wrap
  BY <1>1, MinusIs, PlusIs
<1>3. {x, base} \subseteq Nat /\ x < Wrap /\ base < Wrap
  BY WrapIs DEF Cursor
<1>4. QED
  BY <1>1, <1>2, <1>3, WrapIs
-----------------------------------------------------------------------------
(* The cursors seen from the last value of tail that the producer has seen. *)
LEMMA InitIInv == Init => IInv
<1> SUFFICES ASSUME Init PROVE IInv
  OBVIOUS
<1> USE DEF Init, Empty
<1>1. TypeOK
  <2>1. capacity \in 0..(SizeMax \div 2) /\ 0 \in Cursor
    BY WrapIs DEF Cursor
  <2>2. buffer \in [0..(capacity - 1) -> Values \cup {Junk}]
    OBVIOUS
  <2>3. pc \in [{"producer", "consumer"} -> {"idle", "copy", "returned"}]
    OBVIOUS
  <2>4. wanted \in 0..capacity /\ room \in 0..capacity /\ ready \in 0..capacity
    OBVIOUS
  <2>5. written \in 0..Len(src) /\ src \in Seq(Values) /\ dst \in Seq(Values \cup {Junk})
    OBVIOUS
  <2>6. {head, tail, headSeen, tailSeen} \subseteq Cursor /\ peeking \in BOOLEAN
    BY <2>1
  <2>7. heads \in Seq(Cursor) /\ tails \in Seq(Cursor)
    OBVIOUS
  <2> HIDE DEF Init, Empty
  <2>8. QED
    BY <2>1, <2>2, <2>3, <2>4, <2>5, <2>6, <2>7 DEF TypeOK
<1>2. QED
  BY <1>1 DEF IInv, RoundsUp, OrderAgrees, ThreadsAgree, DataAgrees

\* What is left of a sequence when the first n are dropped.
LEMMA DropProperties ==
  ASSUME NEW S, NEW s \in Seq(S), NEW n \in 0..Len(s)
  PROVE  /\ SubSeq(s, n + 1, Len(s)) \in Seq(S)
         /\ Len(SubSeq(s, n + 1, Len(s))) = Len(s) - n
         /\ \A i \in 1..(Len(s) - n) : /\ n + i \in 1..Len(s)
                                       /\ SubSeq(s, n + 1, Len(s))[i] = s[n + i]
<1>1. Len(s) \in Nat /\ n + 1 \in Int /\ \A i \in (n + 1)..Len(s) : s[i] \in S
  OBVIOUS
<1>2. \A i \in 1..(Len(s) - n) : n + i \in 1..Len(s) /\ i \in 1..(Len(s) - (n + 1) + 1)
                                 /\ (n + 1) + i - 1 = n + i
  BY <1>1
<1>3. QED
  BY <1>1, <1>2, SubSeqProperties

\* Distances are natural numbers, and 0 from the base itself.
LEMMA DistIs ==
  ASSUME tailSeen \in Cursor
  PROVE  /\ \A x \in Cursor : Dist(x) \in Nat /\ Dist(x) < Wrap
         /\ Dist(tailSeen) = 0
         /\ \A x, y \in Cursor : Dist(x) <= Dist(y) => Minus(y, x) = Dist(y) - Dist(x)
<1>1. ASSUME NEW x \in Cursor PROVE Dist(x) \in Nat /\ Dist(x) < Wrap
  <2>1. Minus(x, tailSeen) \in Cursor
    BY MinusIs
  <2>2. QED
    BY <2>1, WrapIs DEF Dist, Cursor
<1>2. Dist(tailSeen) = 0
  <2>1. Minus(tailSeen, tailSeen) = IF tailSeen >= tailSeen THEN tailSeen - tailSeen
                                    ELSE tailSeen - tailSeen + Wrap
    BY MinusIs
  <2>2. QED
    BY <2>1, WrapIs DEF Dist, Cursor
<1>3. QED
  BY <1>1, <1>2, MinusAdds DEF Dist

\* The part of TypeOK that is about the cursors.
CursorsOK ==
  /\ capacity \in Nat
  /\ head \in Cursor /\ tail \in Cursor /\ headSeen \in Cursor /\ tailSeen \in Cursor
  /\ heads \in Seq(Cursor) /\ tails \in Seq(Cursor)

\* It is a part.
LEMMA CursorsTyped == TypeOK => CursorsOK
BY WrapIs DEF TypeOK, CursorsOK

\* A load of tail brings the base forward, and there is room for as much or more.
LEMMA LoadTailKeeps ==
  ASSUME CursorsOK, OrderAgrees, capacity # 0, NEW n \in 0..Len(tails), LoadTail(n),
         UNCHANGED <<capacity, head, tail, heads, headSeen>>
  PROVE  /\ OrderAgrees'
         /\ tailSeen' \in Cursor /\ tails' \in Seq(Cursor)
         /\ WriteAvail(tailSeen) <= WriteAvail(tailSeen')
         /\ WriteAvail(tailSeen') \in 0..capacity
<1> USE DEF CursorsOK
<1>1. /\ tails' \in Seq(Cursor) /\ Len(tails') = Len(tails) - n
      /\ \A i \in 1..Len(tails') : n + i \in 1..Len(tails) /\ tails'[i] = tails[n + i]
  BY DropProperties DEF LoadTail
<1>2. \A i \in 1..Len(tails) : tails[i] \in Cursor
  OBVIOUS
<1>3. /\ tailSeen' \in Cursor
      /\ Dist(tailSeen') <= Dist(tail)
      /\ \A i \in 1..Len(tails') : Dist(tailSeen') <= Dist(tails'[i])
  <2>1. CASE n = 0
    BY SMTT(30), <2>1, <1>1, <1>2, DistIs DEF LoadTail
  <2>2. CASE n # 0
    <3>1. n \in 1..Len(tails) /\ tailSeen' = tails[n]
      BY <2>2 DEF LoadTail
    <3>2. \A i \in 1..Len(tails') : n <= n + i
      OBVIOUS
    <3>3. QED
      BY <3>1, <3>2, <1>1, <1>2 DEF OrderAgrees
  <2>3. QED
    BY <2>1, <2>2
<1>4. /\ Dist(tailSeen') \in Nat
      /\ \A x \in Cursor : Dist(x) \in Nat
      /\ \A x \in Cursor : Dist(tailSeen') <= Dist(x) =>
           Minus(x, tailSeen') = Dist(x) - Dist(tailSeen')
  BY <1>3, DistIs
<1> DEFINE d == Dist(tailSeen')
           New(x) == Minus(x, tailSeen')
<1>5. /\ New(tail) = Dist(tail) - d /\ New(headSeen) = Dist(headSeen) - d
      /\ New(head) = Dist(head) - d
  <2>1. d <= Dist(headSeen) /\ d <= Dist(head)
    BY <1>3, <1>4 DEF OrderAgrees
  <2>2. QED
    BY <1>3, <1>4, <2>1
<1>6. \A i \in 1..Len(heads) : heads[i] \in Cursor /\ New(heads[i]) = Dist(heads[i]) - d
  <2>1. \A i \in 1..Len(heads) : heads[i] \in Cursor /\ d <= Dist(heads[i])
    BY <1>3, <1>4 DEF OrderAgrees
  <2>2. QED
    BY <1>4, <2>1
<1>7. \A i \in 1..Len(tails') : tails'[i] \in Cursor /\ New(tails'[i]) = Dist(tails'[i]) - d
  BY <1>1, <1>2, <1>3, <1>4
<1>8. /\ Dist(tail)' = New(tail) /\ Dist(headSeen)' = New(headSeen) /\ Dist(head)' = New(head)
      /\ \A i \in 1..Len(heads) : Dist(heads[i])' = New(heads[i])
      /\ \A i \in 1..Len(tails') : Dist(tails[i])' = New(tails'[i])
  BY DEF Dist
<1> HIDE DEF d, New
<1>9. d \in Nat /\ \A x \in Cursor : Dist(x) \in Nat
  BY <1>4 DEF d
<1>10. OrderAgrees'
  <2>1. /\ New(tail) <= New(headSeen) /\ New(headSeen) <= New(head) /\ New(head) <= capacity
    BY <1>5, <1>9 DEF OrderAgrees
  <2>2. /\ \A i \in 1..Len(tails') : New(tails'[i]) <= New(tail)
        /\ \A i, j \in 1..Len(tails') : i <= j => New(tails'[i]) <= New(tails'[j])
    <3>1. ASSUME NEW i \in 1..Len(tails')
          PROVE  /\ New(tails'[i]) = Dist(tails[n + i]) - d
                 /\ Dist(tails[n + i]) \in Nat /\ Dist(tails[n + i]) <= Dist(tail)
      BY <1>1, <1>2, <1>7, <1>9 DEF OrderAgrees
    <3>2. ASSUME NEW i \in 1..Len(tails'), NEW j \in 1..Len(tails'), i <= j
          PROVE  Dist(tails[n + i]) <= Dist(tails[n + j])
      <4>1. n + i <= n + j
        BY <1>1, <3>2
      <4>2. QED
        BY <1>1, <4>1 DEF OrderAgrees
    <3>3. Dist(tail) \in Nat
      BY <1>9
    <3>4. ASSUME NEW i \in 1..Len(tails') PROVE New(tails'[i]) <= New(tail)
      BY <1>5, <1>9, <3>1, <3>3
    <3>5. ASSUME NEW i \in 1..Len(tails'), NEW j \in 1..Len(tails'), i <= j
          PROVE  New(tails'[i]) <= New(tails'[j])
      <4>1. Dist(tails[n + i]) <= Dist(tails[n + j])
        BY <3>2, <3>5
      <4>2. New(tails'[i]) = Dist(tails[n + i]) - d /\ Dist(tails[n + i]) \in Nat
        BY <3>1
      <4>3. New(tails'[j]) = Dist(tails[n + j]) - d /\ Dist(tails[n + j]) \in Nat
        BY <3>1
      <4>4. d \in Nat
        BY <1>9
      <4>5. QED
        BY <4>1, <4>2, <4>3, <4>4
    <3>6. QED
      BY <3>4, <3>5
  <2>3. /\ \A i \in 1..Len(heads) : New(headSeen) <= New(heads[i]) /\ New(heads[i]) <= New(head)
        /\ \A i, j \in 1..Len(heads) : i <= j => New(heads[i]) <= New(heads[j])
    <3>1. ASSUME NEW i \in 1..Len(heads)
          PROVE  /\ New(heads[i]) = Dist(heads[i]) - d /\ Dist(heads[i]) \in Nat
                 /\ Dist(headSeen) <= Dist(heads[i]) /\ Dist(heads[i]) <= Dist(head)
      BY <1>6, <1>9 DEF OrderAgrees
    <3>2. \A i, j \in 1..Len(heads) : i <= j => Dist(heads[i]) <= Dist(heads[j])
      BY DEF OrderAgrees
    <3>3. Dist(head) \in Nat /\ Dist(headSeen) \in Nat
      BY <1>9
    <3>4. ASSUME NEW i \in 1..Len(heads)
          PROVE  New(headSeen) <= New(heads[i]) /\ New(heads[i]) <= New(head)
      BY <1>5, <1>9, <3>1, <3>3
    <3>5. ASSUME NEW i \in 1..Len(heads), NEW j \in 1..Len(heads), i <= j
          PROVE  New(heads[i]) <= New(heads[j])
      <4>1. Dist(heads[i]) <= Dist(heads[j])
        BY <3>2, <3>5
      <4>2. New(heads[i]) = Dist(heads[i]) - d /\ Dist(heads[i]) \in Nat
        BY <3>1
      <4>3. New(heads[j]) = Dist(heads[j]) - d /\ Dist(heads[j]) \in Nat
        BY <3>1
      <4>4. d \in Nat
        BY <1>9
      <4>5. QED
        BY <4>1, <4>2, <4>3, <4>4
    <3>6. QED
      BY <3>4, <3>5
  <2>4. QED
    BY <2>1, <2>2, <2>3, <1>8 DEF OrderAgrees
<1>11. QED
  <2>1. /\ WriteAvail(tailSeen) = capacity - Dist(head)
        /\ WriteAvail(tailSeen') = capacity - (Dist(head) - d)
        /\ Dist(head) - d \in 0..capacity
    <3>1. New(head) \in Nat /\ New(head) <= capacity
      BY <1>3, <1>10, <1>8, <1>5, <1>9, DistIs, WrapIs, MinusIs DEF OrderAgrees, New, Cursor
    <3>2. QED
      BY <3>1, <1>5, <1>8, <1>10, <1>9 DEF WriteAvail, Dist, New, OrderAgrees
  <2>2. QED
    BY SMTT(30), <2>1, <1>1, <1>3, <1>9, <1>10

\* A load of head: there are as many bytes to read, or more.
LEMMA LoadHeadKeeps ==
  ASSUME CursorsOK, OrderAgrees, capacity # 0, NEW n \in 0..Len(heads), LoadHead(n),
         UNCHANGED <<capacity, head, tail, tails, tailSeen>>
  PROVE  /\ OrderAgrees'
         /\ headSeen' \in Cursor /\ heads' \in Seq(Cursor)
         /\ ReadAvail(headSeen) <= ReadAvail(headSeen')
         /\ ReadAvail(headSeen') \in 0..capacity
<1> USE DEF CursorsOK
<1>1. /\ heads' \in Seq(Cursor) /\ Len(heads') = Len(heads) - n
      /\ \A i \in 1..Len(heads') : n + i \in 1..Len(heads) /\ heads'[i] = heads[n + i]
  BY DropProperties DEF LoadHead
<1>2. \A i \in 1..Len(heads) : heads[i] \in Cursor
  OBVIOUS
<1>3. /\ headSeen' \in Cursor
      /\ Dist(headSeen) <= Dist(headSeen') /\ Dist(headSeen') <= Dist(head)
      /\ \A i \in 1..Len(heads') : Dist(headSeen') <= Dist(heads'[i])
  <2>1. CASE n = 0
    <3>1. headSeen' = headSeen /\ Dist(headSeen) \in Nat
      BY <2>1, DistIs DEF LoadHead
    <3>2. \A i \in 1..Len(heads') : i \in 1..Len(heads) /\ heads'[i] = heads[i]
      BY <1>1, <2>1
    <3>3. QED
      BY <3>1, <3>2 DEF OrderAgrees
  <2>2. CASE n # 0
    <3>1. n \in 1..Len(heads) /\ headSeen' = heads[n]
      BY <2>2 DEF LoadHead
    <3>2. \A i \in 1..Len(heads') : n <= n + i
      OBVIOUS
    <3>3. QED
      BY <3>1, <3>2, <1>1, <1>2 DEF OrderAgrees
  <2>3. QED
    BY <2>1, <2>2
<1>4. \A x \in Cursor : Dist(x) \in Nat
  BY DistIs
<1>5. OrderAgrees'
  <2>1. /\ Dist(tail) <= Dist(headSeen') /\ Dist(headSeen') <= Dist(head)
        /\ Dist(head) <= capacity
    BY <1>3, <1>4 DEF OrderAgrees
  <2>2. /\ \A i \in 1..Len(heads') : Dist(headSeen') <= Dist(heads'[i])
                                     /\ Dist(heads'[i]) <= Dist(head)
        /\ \A i, j \in 1..Len(heads') : i <= j => Dist(heads'[i]) <= Dist(heads'[j])
    <3>1. \A i, j \in 1..Len(heads') : i <= j => n + i <= n + j
      BY <1>1
    <3>2. QED
      BY <1>1, <1>3, <3>1 DEF OrderAgrees
  <2>3. QED
    BY <2>1, <2>2 DEF OrderAgrees, Dist
<1>6. /\ ReadAvail(headSeen) = Dist(headSeen) - Dist(tail)
      /\ ReadAvail(headSeen') = Dist(headSeen') - Dist(tail)
  <2>1. Dist(tail) <= Dist(headSeen) /\ Dist(tail) <= Dist(headSeen')
    BY <1>3, <1>4 DEF OrderAgrees
  <2>2. QED
    BY <2>1, <1>3, DistIs DEF ReadAvail
<1>7. QED
  <2>1. Dist(tail) <= Dist(headSeen) /\ Dist(head) <= capacity
    BY DEF OrderAgrees
  <2>2. QED
    BY <1>1, <1>3, <1>4, <1>5, <1>6, <2>1
-----------------------------------------------------------------------------
(* One lemma for each action: it keeps the invariant. *)

\* What the lemmas need of the invariant.
LEMMA Facts ==
  ASSUME IInv
  PROVE  /\ TypeOK /\ RoundsUp /\ OrderAgrees /\ ThreadsAgree /\ DataAgrees
         /\ CursorsOK
         /\ capacity # 0 => IsCapacity(capacity)
<1>1. TypeOK /\ RoundsUp /\ OrderAgrees /\ ThreadsAgree /\ DataAgrees
  BY DEF IInv
<1>2. capacity \in 0..(SizeMax \div 2)
  BY <1>1 DEF TypeOK
<1>3. QED
  BY <1>1, <1>2, CursorsTyped, CapacityIs

\* And of the invariant in the next state.
LEMMA FactsNext ==
  IInv' => TypeOK' /\ ThreadsAgree' /\ CursorsOK'
<1>1. IInv => TypeOK /\ ThreadsAgree /\ CursorsOK
  BY Facts
<1>2. QED
  BY <1>1, PTL

\* retro_spsc_write_avail promises the room it has found.
LEMMA WriteAvailKeeps ==
  ASSUME IInv, NEW n \in 0..Len(tails), retro_spsc_write_avail(n)
  PROVE  IInv'
<1>1. /\ TypeOK /\ RoundsUp /\ OrderAgrees /\ ThreadsAgree /\ DataAgrees /\ CursorsOK
      /\ capacity # 0 /\ pc["producer"] = "idle" /\ LoadTail(n)
      /\ room' = WriteAvail(tailSeen')
      /\ UNCHANGED <<capacity, buffer, head, tail, heads, headSeen, src, written,
                     dst, wanted, peeking, ready, pc>>
  BY Facts DEF retro_spsc_write_avail, consumer
<1>2. /\ OrderAgrees' /\ tailSeen' \in Cursor /\ tails' \in Seq(Cursor)
      /\ WriteAvail(tailSeen') \in 0..capacity
  BY <1>1, LoadTailKeeps
<1>3. TypeOK'
  BY <1>1, <1>2 DEF TypeOK
<1>4. ThreadsAgree'
  <2>1. /\ WriteAvail(tailSeen)' = WriteAvail(tailSeen') /\ ReadAvail(headSeen)' = ReadAvail(headSeen)
    BY <1>1 DEF WriteAvail, ReadAvail
  <2>2. room' <= WriteAvail(tailSeen)'
    BY <1>1, <1>2, <2>1
  <2>3. QED
    BY <1>1, <2>1, <2>2 DEF ThreadsAgree
<1>5. RoundsUp' /\ DataAgrees'
  BY <1>1 DEF RoundsUp, DataAgrees
<1>6. QED
  BY <1>2, <1>3, <1>4, <1>5 DEF IInv

\* The producer copies no more than it has found room for.
LEMMA WriteBeginsKeeps ==
  ASSUME IInv, NEW n \in 0..Len(tails), NEW data \in Data, WriteBegins(n, data)
  PROVE  IInv'
<1>1. /\ TypeOK /\ RoundsUp /\ OrderAgrees /\ ThreadsAgree /\ DataAgrees /\ CursorsOK
      /\ capacity # 0 /\ pc["producer"] = "idle" /\ LoadTail(n)
      /\ src' = SubSeq(data, 1, Smaller(Len(data), WriteAvail(tailSeen')))
      /\ written' = 0
      /\ pc' = [pc EXCEPT !["producer"] = IF src' = <<>> THEN "idle" ELSE "copy"]
      /\ UNCHANGED <<capacity, buffer, head, tail, heads, headSeen, room,
                     dst, wanted, peeking, ready>>
  BY Facts DEF WriteBegins, consumer
<1>2. /\ OrderAgrees' /\ tailSeen' \in Cursor /\ tails' \in Seq(Cursor)
      /\ WriteAvail(tailSeen') \in 0..capacity
      /\ WriteAvail(tailSeen) <= WriteAvail(tailSeen')
  BY <1>1, LoadTailKeeps
<1>3. src' \in Seq(Values) /\ Len(src') <= WriteAvail(tailSeen') /\ Len(src') \in Nat
  <2>1. data \in Seq(Values)
    BY SpscAssumption DEF Data
  <2> DEFINE m == Smaller(Len(data), WriteAvail(tailSeen'))
  <2>2. m \in Nat /\ m <= WriteAvail(tailSeen') /\ m <= Len(data)
    BY <1>2, <2>1 DEF Smaller
  <2>3. \A i \in 1..m : data[i] \in Values
    BY <2>1, <2>2
  <2> HIDE DEF m
  <2>4. SubSeq(data, 1, m) \in Seq(Values) /\ Len(SubSeq(data, 1, m)) = m
    BY <2>2, <2>3, SubSeqProperties
  <2>5. QED
    BY <1>1, <2>2, <2>4 DEF m
<1>4. /\ pc' \in [{"producer", "consumer"} -> {"idle", "copy", "returned"}]
      /\ pc'["consumer"] = pc["consumer"]
      /\ pc'["producer"] = IF src' = <<>> THEN "idle" ELSE "copy"
  BY <1>1 DEF TypeOK
<1>5. TypeOK'
  BY SMTT(30), <1>1, <1>2, <1>3, <1>4 DEF TypeOK
<1>6. ThreadsAgree'
  <2>1. /\ WriteAvail(tailSeen)' = WriteAvail(tailSeen') /\ ReadAvail(headSeen)' = ReadAvail(headSeen)
    BY <1>1 DEF WriteAvail, ReadAvail
  <2>2. room' <= WriteAvail(tailSeen)'
    <3>1. room \in Int /\ WriteAvail(tailSeen) \in Int /\ room <= WriteAvail(tailSeen)
      BY SMTT(30), <1>1, DistIs DEF TypeOK, ThreadsAgree, CursorsOK, WriteAvail, Dist
    <3>2. QED
      BY <1>1, <1>2, <2>1, <3>1
  <2>3. QED
    BY <1>1, <1>3, <1>4, <2>1, <2>2 DEF ThreadsAgree
<1>7. RoundsUp' /\ DataAgrees'
  BY <1>1, <1>4 DEF RoundsUp, DataAgrees
<1>8. QED
  BY <1>2, <1>5, <1>6, <1>7 DEF IInv

\* What the consumer has seen there is there.
LEMMA SeenIsThere ==
  ASSUME CursorsOK, OrderAgrees, capacity # 0
  PROVE  /\ Minus(headSeen, tail) <= Minus(head, tail)
         /\ Minus(head, tail) \in Nat /\ Minus(head, tail) <= capacity
         /\ Minus(head, tail) = Dist(head) - Dist(tail)
         /\ Minus(headSeen, tail) = Dist(headSeen) - Dist(tail)
<1>1. /\ Dist(tail) \in Nat /\ Dist(headSeen) \in Nat /\ Dist(head) \in Nat
      /\ Dist(tail) <= Dist(headSeen) /\ Dist(headSeen) <= Dist(head) /\ Dist(head) <= capacity
  BY DistIs DEF CursorsOK, OrderAgrees
<1>2. Dist(tail) <= Dist(head)
  BY <1>1
<1>3. Minus(head, tail) = Dist(head) - Dist(tail) /\ Minus(headSeen, tail) = Dist(headSeen) - Dist(tail)
  BY <1>1, <1>2, DistIs DEF CursorsOK
<1>4. QED
  BY <1>1, <1>3 DEF CursorsOK

\* A place that is free for the producer is not one of those to be read.
LEMMA RoomIsApart ==
  ASSUME CursorsOK, OrderAgrees, capacity # 0, IsCapacity(capacity),
         NEW i \in Nat, i < Minus(head, tail), NEW j \in Nat, j < WriteAvail(tailSeen)
  PROVE  (tail + i) % capacity # (head + j) % capacity
<1> DEFINE m == Minus(head, tail)
<1>1. /\ Dist(tail) \in Nat /\ Dist(headSeen) \in Nat /\ Dist(head) \in Nat
      /\ Dist(tail) <= Dist(headSeen) /\ Dist(headSeen) <= Dist(head) /\ Dist(head) <= capacity
  BY DistIs DEF CursorsOK, OrderAgrees
<1>2. m = Dist(head) - Dist(tail)
  <2>1. Dist(tail) <= Dist(head)
    BY <1>1
  <2>2. QED
    BY <1>1, <2>1, DistIs DEF CursorsOK
<1>3. m \in 0..Wrap /\ head = Plus(tail, m) /\ i < m
  BY MinusBack DEF CursorsOK
<1> HIDE DEF m
<1>4. m \in Nat /\ m + j < capacity
  <2>1. WriteAvail(tailSeen) = capacity - Dist(head) /\ capacity \in Nat
    BY DEF WriteAvail, Dist, CursorsOK
  <2>2. QED
    BY <1>1, <1>2, <2>1
<1>5. (head + j) % capacity = (tail + (m + j)) % capacity
  BY <1>3, PlacePlus DEF CursorsOK
<1>6. (tail + i) % capacity # (tail + (m + j)) % capacity
  <2>1. i < m + j /\ m + j < i + capacity /\ m + j \in Nat
    BY <1>3, <1>4 DEF CursorsOK
  <2>2. QED
    BY <2>1, PlacesApart DEF CursorsOK
<1>7. QED
  BY <1>5, <1>6

\* A byte that is copied into the ring spares those copied before, and those that the
\* consumer has still to read or has just read.
LEMMA WriteCopiesKeeps ==
  ASSUME IInv, WriteCopies
  PROVE  IInv'
<1>1. /\ TypeOK /\ RoundsUp /\ OrderAgrees /\ ThreadsAgree /\ DataAgrees /\ CursorsOK
      /\ pc["producer"] = "copy" /\ written < Len(src)
      /\ buffer' = [buffer EXCEPT ![Index(head, Len(src), written)] = src[written + 1]]
      /\ written' = written + 1
      /\ UNCHANGED <<capacity, head, tail, heads, tails, headSeen, tailSeen, src, room,
                     dst, wanted, peeking, ready, pc>>
  BY Facts DEF WriteCopies, cursors, consumer
<1>2. capacity # 0 /\ IsCapacity(capacity) /\ Len(src) <= WriteAvail(tailSeen)
  BY <1>1, Facts DEF ThreadsAgree
<1>3. /\ src \in Seq(Values) /\ Len(src) \in Nat /\ written \in 0..(Len(src) - 1)
      /\ capacity \in Nat /\ Len(src) <= capacity
  <2>1. src \in Seq(Values) /\ written \in 0..Len(src)
    BY <1>1 DEF TypeOK
  <2>2. WriteAvail(tailSeen) <= capacity
    BY <1>1, DistIs DEF CursorsOK, WriteAvail, Dist
  <2>3. WriteAvail(tailSeen) \in Int
    BY <1>1, DistIs DEF CursorsOK, WriteAvail, Dist
  <2>4. QED
    BY <1>1, <1>2, <2>1, <2>2, <2>3 DEF CursorsOK
<1> DEFINE place(i) == (head + i) % capacity
<1>4. Index(head, Len(src), written) = place(written) /\ place(written) \in 0..(capacity - 1)
  <2>1. Len(src) \in 0..capacity
    BY <1>3
  <2>2. QED
    BY <1>1, <1>2, <1>3, <2>1, IndexIs DEF CursorsOK
<1> HIDE DEF place
<1>5. buffer \in [0..(capacity - 1) -> Values \cup {Junk}] /\ src[written + 1] \in Values
  BY <1>1, <1>3 DEF TypeOK
<1>6. /\ buffer' \in [0..(capacity - 1) -> Values \cup {Junk}]
      /\ buffer'[place(written)] = src[written + 1]
      /\ \A p \in 0..(capacity - 1) : p # place(written) => buffer'[p] = buffer[p]
  BY <1>1, <1>4, <1>5
<1>7. TypeOK'
  <2>1. written' \in 0..Len(src)
    BY <1>1, <1>3
  <2>2. QED
    BY <1>1, <1>6, <2>1 DEF TypeOK
<1>8. OrderAgrees' /\ RoundsUp'
  BY <1>1 DEF OrderAgrees, RoundsUp, Dist
<1>9. ThreadsAgree'
  <2>1. WriteAvail(tailSeen)' = WriteAvail(tailSeen) /\ ReadAvail(headSeen)' = ReadAvail(headSeen)
    BY <1>1 DEF WriteAvail, ReadAvail
  <2>2. QED
    BY <1>1, <2>1 DEF ThreadsAgree
<1>10. ASSUME NEW i \in 0..written PROVE place(i) \in 0..(capacity - 1)
  <2>1. i \in Nat
    BY <1>3
  <2>2. QED
    BY <1>1, <1>2, <2>1, PlaceIs DEF place, CursorsOK
<1>11. ASSUME NEW i \in 0..(written - 1) PROVE place(i) # place(written)
  <2>1. i \in Nat /\ written \in Nat /\ i < written /\ written < i + capacity
    BY <1>3
  <2>2. QED
    BY <1>1, <1>2, <2>1, PlacesApart DEF place, CursorsOK
<1>12. \A i \in 0..(written' - 1) : buffer'[place(i)] = src[i + 1]
  <2>1. ASSUME NEW i \in 0..(written - 1) PROVE buffer'[place(i)] = src[i + 1]
    <3>1. buffer[place(i)] = src[i + 1]
      BY <1>1 DEF DataAgrees, place
    <3>2. place(i) \in 0..(capacity - 1)
      BY <1>3, <1>10
    <3>3. QED
      BY <1>6, <1>11, <3>1, <3>2
  <2>2. \A i \in 0..(written' - 1) : i \in 0..(written - 1) \/ i = written
    BY <1>1, <1>3
  <2>3. QED
    BY <1>6, <2>1, <2>2
<1>13. ASSUME pc["consumer"] = "copy", NEW i \in 0..(Len(dst) - 1)
       PROVE  dst[i + 1] = buffer'[(tail + i) % capacity]
  <2>1. dst[i + 1] = buffer[(tail + i) % capacity]
    BY <1>1, <1>13 DEF DataAgrees
  <2>2. i \in Nat /\ i < Minus(head, tail)
    <3>1. Len(dst) <= wanted /\ wanted <= ReadAvail(headSeen)
      BY <1>1, <1>13 DEF ThreadsAgree
    <3>2. Len(dst) \in Nat /\ wanted \in Nat /\ ReadAvail(headSeen) \in Nat
      <4>1. Len(dst) \in Nat /\ wanted \in Nat
        BY <1>1 DEF TypeOK
      <4>2. Minus(headSeen, tail) \in Nat
        BY <1>1, MinusNat DEF CursorsOK
      <4>3. QED
        BY <4>1, <4>2 DEF ReadAvail
    <3>3. Minus(headSeen, tail) <= Minus(head, tail) /\ Minus(head, tail) \in Nat
      BY <1>1, <1>2, SeenIsThere
    <3>4. QED
      BY <3>1, <3>2, <3>3 DEF ReadAvail
  <2>3. written \in Nat /\ written < WriteAvail(tailSeen)
    <3>1. WriteAvail(tailSeen) \in Int
      BY <1>1, DistIs DEF CursorsOK, WriteAvail, Dist
    <3>2. QED
      BY <1>2, <1>3, <3>1
  <2>4. (tail + i) % capacity # place(written)
    BY <1>1, <1>2, <2>2, <2>3, RoomIsApart DEF place
  <2>5. (tail + i) % capacity \in 0..(capacity - 1)
    BY <1>1, <1>2, <2>2, PlaceIs DEF CursorsOK
  <2>6. QED
    BY <1>6, <2>1, <2>4, <2>5
<1>14. DataAgrees'
  BY <1>1, <1>12, <1>13 DEF DataAgrees, place
<1>15. QED
  BY <1>7, <1>8, <1>9, <1>14 DEF IInv

\* The new head is the last of the values under way, and its room is used up.
LEMMA WriteReturnsKeeps ==
  ASSUME IInv, WriteReturns
  PROVE  IInv'
<1>1. /\ TypeOK /\ RoundsUp /\ OrderAgrees /\ ThreadsAgree /\ DataAgrees /\ CursorsOK
      /\ pc["producer"] = "copy"
      /\ head' = Plus(head, Len(src))
      /\ heads' = Append(heads, head')
      /\ room' = (IF Len(src) < room THEN room - Len(src) ELSE 0)
      /\ src' = <<>> /\ written' = 0
      /\ pc' = [pc EXCEPT !["producer"] = "idle"]
      /\ UNCHANGED <<capacity, buffer, tail, tails, headSeen, tailSeen,
                     dst, wanted, peeking, ready>>
  BY Facts DEF WriteReturns, consumer
<1>2. capacity # 0 /\ Len(src) <= WriteAvail(tailSeen)
  BY <1>1 DEF ThreadsAgree
<1>3. /\ Dist(tail) \in Nat /\ Dist(headSeen) \in Nat /\ Dist(head) \in Nat
      /\ Dist(tail) <= Dist(headSeen) /\ Dist(headSeen) <= Dist(head) /\ Dist(head) <= capacity
      /\ capacity \in Nat /\ 2 * capacity < Wrap /\ Len(src) \in Nat
  BY <1>1, <1>2, DistIs, Facts DEF CursorsOK, OrderAgrees, IsCapacity, TypeOK
<1>4. Len(src) + Dist(head) <= capacity
  BY <1>2, <1>3 DEF WriteAvail, Dist
<1>5. head' \in Cursor /\ Minus(head', tailSeen) = Dist(head) + Len(src)
  <2>1. Minus(head, tailSeen) + Len(src) < Wrap
    BY <1>3, <1>4, WrapIs DEF Dist
  <2>2. QED
    BY <1>1, <1>3, <2>1, MinusPlus DEF CursorsOK, Dist
<1>6. /\ heads' \in Seq(Cursor) /\ Len(heads') = Len(heads) + 1 /\ Len(heads) \in Nat
      /\ \A i \in 1..Len(heads) : heads'[i] = heads[i] /\ heads[i] \in Cursor
      /\ heads'[Len(heads) + 1] = head'
  BY <1>1, <1>5 DEF CursorsOK
<1>7. OrderAgrees'
  <2> DEFINE D(x) == Minus(x, tailSeen)
  <2>1. /\ D(tail) <= D(headSeen) /\ D(headSeen) <= D(head) /\ D(head) <= D(head')
        /\ D(head') <= capacity
        /\ D(head) \in Nat /\ D(head') \in Nat
    BY <1>3, <1>4, <1>5 DEF Dist
  <2>2. \A i \in 1..Len(heads') : i \in 1..Len(heads) \/ i = Len(heads) + 1
    BY <1>6
  <2>3. ASSUME NEW i \in 1..Len(heads)
        PROVE  D(headSeen) <= D(heads[i]) /\ D(heads[i]) <= D(head') /\ D(heads[i]) \in Nat
    <3>1. D(heads[i]) \in Nat
      BY <1>1, <1>6, DistIs DEF CursorsOK, Dist
    <3>2. D(headSeen) <= D(heads[i]) /\ D(heads[i]) <= D(head)
      BY <1>1, <1>2 DEF OrderAgrees, Dist
    <3>3. QED
      BY <2>1, <3>1, <3>2
  <2>4. D(headSeen) <= D(head')
    BY <2>1, <1>3 DEF Dist
  <2>5. \A i \in 1..Len(heads') : D(headSeen) <= D(heads'[i]) /\ D(heads'[i]) <= D(head')
    <3> HIDE DEF D
    <3>1. QED
      BY <1>6, <2>1, <2>2, <2>3, <2>4
  <2>6. ASSUME NEW i \in 1..Len(heads'), NEW j \in 1..Len(heads'), i <= j
        PROVE  D(heads'[i]) <= D(heads'[j])
    <3>1. CASE j \in 1..Len(heads)
      <4>1. i \in 1..Len(heads)
        BY <2>6, <3>1
      <4>2. D(heads[i]) <= D(heads[j])
        BY <1>1, <1>2, <2>6, <3>1, <4>1 DEF OrderAgrees, Dist
      <4>3. QED
        BY <1>6, <3>1, <4>1, <4>2
    <3>2. CASE j = Len(heads) + 1
      BY <1>6, <2>5, <3>2
    <3>3. QED
      BY <2>2, <3>1, <3>2
  <2>7. /\ \A i \in 1..Len(tails) : D(tails[i]) <= D(tail)
        /\ \A i, j \in 1..Len(tails) : i <= j => D(tails[i]) <= D(tails[j])
    BY <1>1, <1>2 DEF OrderAgrees, Dist
  <2>8. /\ Dist(tail)' = D(tail) /\ Dist(headSeen)' = D(headSeen) /\ Dist(head)' = D(head')
        /\ \A i \in 1..Len(heads') : Dist(heads[i])' = D(heads'[i])
        /\ \A i \in 1..Len(tails') : Dist(tails[i])' = D(tails[i])
    BY <1>1 DEF Dist
  <2> HIDE DEF D
  <2>9. D(tail) <= D(headSeen) /\ D(headSeen) <= D(head')
    BY <2>1, <2>4
  <2>10. QED
    BY <1>1, <2>1, <2>9, <2>5, <2>6, <2>7, <2>8 DEF OrderAgrees
<1>8. /\ pc' \in [{"producer", "consumer"} -> {"idle", "copy", "returned"}]
      /\ pc'["consumer"] = pc["consumer"] /\ pc'["producer"] = "idle"
  BY <1>1 DEF TypeOK
<1>9. /\ room \in 0..capacity /\ room' \in 0..capacity
      /\ room' <= WriteAvail(tailSeen)' /\ ReadAvail(headSeen)' = ReadAvail(headSeen)
  <2>1. room \in 0..capacity /\ room <= WriteAvail(tailSeen)
    BY <1>1, <1>2 DEF TypeOK, ThreadsAgree
  <2>2. /\ WriteAvail(tailSeen) = capacity - Dist(head)
        /\ WriteAvail(tailSeen)' = capacity - (Dist(head) + Len(src))
        /\ ReadAvail(headSeen)' = ReadAvail(headSeen)
    BY <1>1, <1>5 DEF WriteAvail, ReadAvail, Dist
  <2>3. QED
    BY <1>1, <1>3, <1>4, <2>1, <2>2
<1>10. TypeOK'
  BY <1>1, <1>5, <1>6, <1>8, <1>9 DEF TypeOK
<1>11. ThreadsAgree'
  BY <1>1, <1>2, <1>8, <1>9 DEF ThreadsAgree
<1>12. RoundsUp' /\ DataAgrees'
  BY <1>1, <1>8 DEF RoundsUp, DataAgrees
<1>13. QED
  BY <1>7, <1>10, <1>11, <1>12 DEF IInv

\* retro_spsc_read_avail promises the bytes it has found.
LEMMA ReadAvailKeeps ==
  ASSUME IInv, NEW n \in 0..Len(heads), retro_spsc_read_avail(n)
  PROVE  IInv'
<1>1. /\ TypeOK /\ RoundsUp /\ OrderAgrees /\ ThreadsAgree /\ DataAgrees /\ CursorsOK
      /\ capacity # 0 /\ pc["consumer"] = "idle" /\ LoadHead(n)
      /\ ready' = ReadAvail(headSeen')
      /\ UNCHANGED <<capacity, buffer, head, tail, tails, tailSeen, src, written, room,
                     dst, wanted, peeking, pc>>
  BY Facts DEF retro_spsc_read_avail, producer
<1>2. /\ OrderAgrees' /\ headSeen' \in Cursor /\ heads' \in Seq(Cursor)
      /\ ReadAvail(headSeen') \in 0..capacity
  BY <1>1, LoadHeadKeeps
<1>3. TypeOK'
  BY <1>1, <1>2 DEF TypeOK
<1>4. ThreadsAgree'
  <2>1. /\ WriteAvail(tailSeen)' = WriteAvail(tailSeen) /\ ReadAvail(headSeen)' = ReadAvail(headSeen')
    BY <1>1 DEF WriteAvail, ReadAvail
  <2>2. ready' <= ReadAvail(headSeen)'
    BY <1>1, <1>2, <2>1
  <2>3. QED
    BY <1>1, <2>1, <2>2 DEF ThreadsAgree
<1>5. RoundsUp' /\ DataAgrees'
  BY <1>1 DEF RoundsUp, DataAgrees
<1>6. QED
  BY <1>2, <1>3, <1>4, <1>5 DEF IInv

\* The consumer copies no more than it has found there.
LEMMA ReadBeginsKeeps ==
  ASSUME IInv, NEW n \in 0..Len(heads), NEW bytes \in 1..MaxBytes, NEW peek \in BOOLEAN,
         ReadBegins(n, bytes, peek)
  PROVE  IInv'
<1>1. /\ TypeOK /\ RoundsUp /\ OrderAgrees /\ ThreadsAgree /\ DataAgrees /\ CursorsOK
      /\ capacity # 0 /\ pc["consumer"] = "idle" /\ LoadHead(n)
      /\ wanted' = Smaller(bytes, ReadAvail(headSeen'))
      /\ peeking' = (peek /\ wanted' # 0)
      /\ pc' = [pc EXCEPT !["consumer"] = IF wanted' = 0 THEN "idle" ELSE "copy"]
      /\ UNCHANGED <<capacity, buffer, head, tail, tails, tailSeen, src, written, room,
                     dst, ready>>
  BY Facts DEF ReadBegins, producer
<1>2. /\ OrderAgrees' /\ headSeen' \in Cursor /\ heads' \in Seq(Cursor)
      /\ ReadAvail(headSeen') \in 0..capacity
      /\ ReadAvail(headSeen) <= ReadAvail(headSeen')
  BY <1>1, LoadHeadKeeps
<1>3. wanted' \in 0..capacity /\ wanted' <= ReadAvail(headSeen')
  BY <1>1, <1>2, SpscAssumption DEF Smaller, CursorsOK
<1>4. /\ pc' \in [{"producer", "consumer"} -> {"idle", "copy", "returned"}]
      /\ pc'["producer"] = pc["producer"]
      /\ pc'["consumer"] = IF wanted' = 0 THEN "idle" ELSE "copy"
  BY <1>1 DEF TypeOK
<1>5. TypeOK'
  BY <1>1, <1>2, <1>3, <1>4 DEF TypeOK
<1>6. dst = <<>> /\ Len(dst) = 0
  BY <1>1 DEF ThreadsAgree
<1>7. ThreadsAgree'
  <2>1. /\ WriteAvail(tailSeen)' = WriteAvail(tailSeen) /\ ReadAvail(headSeen)' = ReadAvail(headSeen')
    BY <1>1 DEF WriteAvail, ReadAvail
  <2>2. ready' <= ReadAvail(headSeen)'
    <3>1. ready \in Int /\ ready <= ReadAvail(headSeen)
      BY <1>1 DEF TypeOK, ThreadsAgree
    <3>2. ReadAvail(headSeen) \in Int
      BY <1>1, MinusNat DEF CursorsOK, ReadAvail
    <3>3. QED
      BY <1>1, <1>2, <2>1, <3>1, <3>2
  <2>3. Len(dst') <= wanted'
    BY <1>1, <1>3, <1>6
  <2>4. QED
    BY <1>1, <1>3, <1>4, <1>6, <2>1, <2>2, <2>3 DEF ThreadsAgree
<1>8. DataAgrees'
  BY <1>1, <1>4, <1>6 DEF DataAgrees
<1>9. RoundsUp'
  BY <1>1 DEF RoundsUp
<1>10. QED
  BY <1>2, <1>5, <1>7, <1>8, <1>9 DEF IInv

\* The bytes read are those of the ring, one by one from the tail on.
LEMMA ReadCopiesKeeps ==
  ASSUME IInv, ReadCopies
  PROVE  IInv'
<1>1. /\ TypeOK /\ RoundsUp /\ OrderAgrees /\ ThreadsAgree /\ DataAgrees /\ CursorsOK
      /\ pc["consumer"] = "copy" /\ Len(dst) < wanted
      /\ dst' = Append(dst, buffer[Index(tail, wanted, Len(dst))])
      /\ UNCHANGED <<capacity, buffer, head, tail, heads, tails, headSeen, tailSeen,
                     src, written, room, wanted, peeking, ready, pc>>
  BY Facts DEF ReadCopies, cursors, producer
<1>2. capacity # 0 /\ IsCapacity(capacity)
  BY <1>1, Facts DEF ThreadsAgree
<1>3. /\ dst \in Seq(Values \cup {Junk}) /\ Len(dst) \in 0..(wanted - 1) /\ wanted \in 0..capacity
      /\ buffer \in [0..(capacity - 1) -> Values \cup {Junk}]
  BY <1>1 DEF TypeOK
<1> DEFINE p == (tail + Len(dst)) % capacity
<1>4. Index(tail, wanted, Len(dst)) = p /\ p \in 0..(capacity - 1)
  BY <1>1, <1>2, <1>3, IndexIs DEF CursorsOK
<1> HIDE DEF p
<1>5. /\ dst' \in Seq(Values \cup {Junk}) /\ Len(dst') = Len(dst) + 1
      /\ \A i \in 1..Len(dst) : dst'[i] = dst[i]
      /\ dst'[Len(dst) + 1] = buffer[p]
  BY <1>1, <1>3, <1>4
<1>6. TypeOK'
  BY <1>1, <1>5 DEF TypeOK
<1>7. OrderAgrees' /\ RoundsUp'
  BY <1>1 DEF OrderAgrees, RoundsUp, Dist
<1>8. ThreadsAgree'
  <2>1. WriteAvail(tailSeen)' = WriteAvail(tailSeen) /\ ReadAvail(headSeen)' = ReadAvail(headSeen)
    BY <1>1 DEF WriteAvail, ReadAvail
  <2>2. Len(dst') <= wanted' /\ wanted' # 0
    BY <1>1, <1>3, <1>5
  <2>3. QED
    BY <1>1, <1>2, <2>1, <2>2 DEF ThreadsAgree
<1>9. ASSUME NEW i \in 0..(Len(dst') - 1) PROVE dst'[i + 1] = buffer[(tail + i) % capacity]
  <2>1. CASE i \in 0..(Len(dst) - 1)
    <3>1. dst[i + 1] = buffer[(tail + i) % capacity]
      BY <1>1, <2>1 DEF DataAgrees
    <3>2. i + 1 \in 1..Len(dst)
      BY <1>3, <2>1
    <3>3. QED
      BY <1>5, <3>1, <3>2
  <2>2. CASE i = Len(dst)
    BY <1>5, <2>2 DEF p
  <2>3. QED
    BY <1>3, <1>5, <2>1, <2>2
<1>10. DataAgrees'
  BY <1>1, <1>9 DEF DataAgrees
<1>11. QED
  BY <1>6, <1>7, <1>8, <1>10 DEF IInv

\* What was read leaves the ring, unless it was a peek.
LEMMA ReadReturnsKeeps ==
  ASSUME IInv, ReadReturns
  PROVE  IInv'
<1>1. /\ TypeOK /\ RoundsUp /\ OrderAgrees /\ ThreadsAgree /\ DataAgrees /\ CursorsOK
      /\ pc["consumer"] = "copy" /\ Len(dst) = wanted
      /\ pc' = [pc EXCEPT !["consumer"] = "returned"]
      /\ UNCHANGED <<capacity, buffer, head, heads, headSeen, tailSeen, src, written, room,
                     dst, wanted, peeking>>
  BY Facts DEF ReadReturns, producer
<1>2. capacity # 0 /\ wanted <= ReadAvail(headSeen) /\ wanted # 0
  BY <1>1 DEF ThreadsAgree
<1>3. /\ pc' \in [{"producer", "consumer"} -> {"idle", "copy", "returned"}]
      /\ pc'["producer"] = pc["producer"] /\ pc'["consumer"] = "returned"
  BY <1>1 DEF TypeOK
<1>4. RoundsUp' /\ DataAgrees'
  BY <1>1, <1>3 DEF RoundsUp, DataAgrees
<1>5. CASE peeking
  <2>1. UNCHANGED <<tail, tails, ready>>
    BY <1>5 DEF ReadReturns
  <2>2. TypeOK' /\ OrderAgrees'
    BY <1>1, <1>3, <2>1 DEF TypeOK, OrderAgrees, Dist
  <2>3. WriteAvail(tailSeen)' = WriteAvail(tailSeen) /\ ReadAvail(headSeen)' = ReadAvail(headSeen)
    BY <1>1, <2>1 DEF WriteAvail, ReadAvail
  <2>4. Len(dst') <= wanted'
    BY <1>1 DEF TypeOK
  <2>5. ThreadsAgree'
    BY <1>1, <1>2, <1>3, <2>1, <2>3, <2>4 DEF ThreadsAgree
  <2>6. QED
    BY <1>4, <2>2, <2>5 DEF IInv
<1>6. CASE ~peeking
  <2>1. /\ tail' = Plus(tail, wanted)
        /\ tails' = Append(tails, tail')
        /\ ready' = (IF wanted < ready THEN ready - wanted ELSE 0)
    BY <1>6 DEF ReadReturns
  <2>2. /\ Dist(tail) \in Nat /\ Dist(headSeen) \in Nat /\ Dist(head) \in Nat
        /\ Dist(tail) <= Dist(headSeen) /\ Dist(headSeen) <= Dist(head)
        /\ Dist(headSeen) < Wrap /\ wanted \in Nat /\ capacity \in Nat
    BY <1>1, <1>2, DistIs DEF CursorsOK, OrderAgrees, TypeOK
  <2>3. ReadAvail(headSeen) = Dist(headSeen) - Dist(tail)
    BY <1>1, <2>2, DistIs DEF CursorsOK, ReadAvail
  <2>4. Dist(tail) + wanted <= Dist(headSeen)
    BY <1>2, <2>2, <2>3
  <2>5. tail' \in Cursor /\ Minus(tail', tailSeen) = Dist(tail) + wanted
    <3>1. Minus(tail, tailSeen) + wanted < Wrap
      BY <2>2, <2>4, WrapIs DEF Dist
    <3>2. QED
      BY <1>1, <2>1, <2>2, <3>1, MinusPlus DEF CursorsOK, Dist
  <2>6. Minus(headSeen, tail') = Dist(headSeen) - (Dist(tail) + wanted)
    <3>1. Minus(tail', tailSeen) <= Minus(headSeen, tailSeen)
      BY <2>4, <2>5 DEF Dist
    <3>2. QED
      BY <1>1, <2>5, <3>1, MinusAdds DEF CursorsOK, Dist
  <2>7. /\ tails' \in Seq(Cursor) /\ Len(tails') = Len(tails) + 1 /\ Len(tails) \in Nat
        /\ \A i \in 1..Len(tails) : tails'[i] = tails[i] /\ tails[i] \in Cursor
        /\ tails'[Len(tails) + 1] = tail'
    BY <1>1, <2>1, <2>5 DEF CursorsOK
  <2>8. OrderAgrees'
    <3> DEFINE D(x) == Minus(x, tailSeen)
    <3>1. /\ D(tail) <= D(tail') /\ D(tail') <= D(headSeen)
          /\ D(tail) \in Nat /\ D(tail') \in Nat
      BY <2>2, <2>4, <2>5 DEF Dist
    <3>2. \A i \in 1..Len(tails') : i \in 1..Len(tails) \/ i = Len(tails) + 1
      BY <2>7
    <3>3. ASSUME NEW i \in 1..Len(tails) PROVE D(tails[i]) <= D(tail')
      <4>1. D(tails[i]) \in Nat
        BY <1>1, <2>7, MinusNat DEF CursorsOK
      <4>2. D(tails[i]) <= D(tail)
        BY <1>1, <1>2 DEF OrderAgrees, Dist
      <4>3. QED
        BY <3>1, <4>1, <4>2
    <3>4. \A i \in 1..Len(tails') : D(tails'[i]) <= D(tail')
      <4> HIDE DEF D
      <4>1. QED
        BY <2>7, <3>1, <3>2, <3>3
    <3>5. ASSUME NEW i \in 1..Len(tails'), NEW j \in 1..Len(tails'), i <= j
          PROVE  D(tails'[i]) <= D(tails'[j])
      <4>1. CASE j \in 1..Len(tails)
        <5>1. i \in 1..Len(tails)
          BY <3>5, <4>1
        <5>2. D(tails[i]) <= D(tails[j])
          BY <1>1, <1>2, <3>5, <4>1, <5>1 DEF OrderAgrees, Dist
        <5>3. QED
          BY <2>7, <4>1, <5>1, <5>2
      <4>2. CASE j = Len(tails) + 1
        BY <2>7, <3>4, <4>2
      <4>3. QED
        BY <3>2, <4>1, <4>2
    <3>6. /\ D(headSeen) <= D(head) /\ D(head) <= capacity
          /\ \A i \in 1..Len(heads) : D(headSeen) <= D(heads[i]) /\ D(heads[i]) <= D(head)
          /\ \A i, j \in 1..Len(heads) : i <= j => D(heads[i]) <= D(heads[j])
      BY <1>1, <1>2 DEF OrderAgrees, Dist
    <3>7. /\ Dist(tail)' = D(tail') /\ Dist(headSeen)' = D(headSeen) /\ Dist(head)' = D(head)
          /\ \A i \in 1..Len(tails') : Dist(tails[i])' = D(tails'[i])
          /\ \A i \in 1..Len(heads') : Dist(heads[i])' = D(heads[i])
      BY <1>1 DEF Dist
    <3> HIDE DEF D
    <3>8. QED
      BY <1>1, <3>1, <3>4, <3>5, <3>6, <3>7 DEF OrderAgrees
  <2>9. /\ ready \in 0..capacity /\ ready' \in 0..capacity
        /\ ready' <= ReadAvail(headSeen)' /\ WriteAvail(tailSeen)' = WriteAvail(tailSeen)
    <3>1. ready \in 0..capacity /\ ready <= ReadAvail(headSeen)
      BY <1>1, <1>2 DEF TypeOK, ThreadsAgree
    <3>2. /\ ReadAvail(headSeen)' = Dist(headSeen) - (Dist(tail) + wanted)
          /\ WriteAvail(tailSeen)' = WriteAvail(tailSeen)
      BY <1>1, <2>6 DEF WriteAvail, ReadAvail
    <3>3. QED
      BY <2>1, <2>2, <2>3, <2>4, <3>1, <3>2
  <2>10. TypeOK'
    BY <1>1, <1>3, <2>5, <2>7, <2>9 DEF TypeOK
  <2>11. ThreadsAgree'
    BY <1>1, <1>2, <1>3, <2>2, <2>9 DEF ThreadsAgree
  <2>12. QED
    BY <1>4, <2>8, <2>10, <2>11 DEF IInv
<1>7. QED
  BY <1>5, <1>6

\* The caller has used the bytes it was given.
LEMMA ConsumedKeeps ==
  ASSUME IInv, Consumed
  PROVE  IInv'
<1>1. /\ TypeOK /\ RoundsUp /\ OrderAgrees /\ ThreadsAgree /\ DataAgrees
      /\ dst' = <<>> /\ wanted' = 0 /\ peeking' = FALSE
      /\ pc' = [pc EXCEPT !["consumer"] = "idle"]
      /\ UNCHANGED <<capacity, buffer, head, tail, heads, tails, headSeen, tailSeen,
                     src, written, room, ready>>
  BY Facts DEF Consumed, cursors, producer
<1>2. /\ pc' \in [{"producer", "consumer"} -> {"idle", "copy", "returned"}]
      /\ pc'["producer"] = pc["producer"] /\ pc'["consumer"] = "idle"
  BY <1>1 DEF TypeOK
<1>3. TypeOK'
  <2>1. dst' \in Seq(Values \cup {Junk}) /\ wanted' \in 0..capacity
    BY <1>1 DEF TypeOK
  <2>2. QED
    BY <1>1, <1>2, <2>1 DEF TypeOK
<1>4. OrderAgrees' /\ RoundsUp' /\ DataAgrees'
  BY <1>1, <1>2 DEF OrderAgrees, RoundsUp, DataAgrees, Dist
<1>5. ThreadsAgree'
  <2>1. WriteAvail(tailSeen)' = WriteAvail(tailSeen) /\ ReadAvail(headSeen)' = ReadAvail(headSeen)
    BY <1>1 DEF WriteAvail, ReadAvail
  <2>2. QED
    BY <1>1, <1>2, <2>1 DEF ThreadsAgree
<1>6. QED
  BY <1>3, <1>4, <1>5 DEF IInv

\* retro_spsc_init, free and clear: the cursors stand where nobody is inside.
LEMMA LifetimeKeeps ==
  ASSUME IInv, Lifetime
  PROVE  IInv'
<1>1. TypeOK /\ RoundsUp /\ OrderAgrees /\ ThreadsAgree /\ DataAgrees /\ CursorsOK
  BY Facts
<1>2. 0 \in Cursor /\ SizeMax \in Nat
  BY WrapIs DEF Cursor
<1>3. ASSUME NewCursors, capacity' \in 0..(SizeMax \div 2), capacity' # 0,
             pc["producer"] = "idle", pc["consumer"] = "idle",
             buffer' \in [0..(capacity' - 1) -> Values \cup {Junk}],
             UNCHANGED <<src, written, dst, wanted, peeking, pc>>
      PROVE  TypeOK' /\ OrderAgrees' /\ ThreadsAgree' /\ DataAgrees'
  <2>1. TypeOK'
    <3>1. /\ heads' = <<>> /\ tails' = <<>> /\ room' = 0 /\ ready' = 0 /\ head' = 0
          /\ tail' = 0 /\ headSeen' = 0 /\ tailSeen' = 0 /\ wanted' = 0
      BY <1>1, <1>3 DEF NewCursors, ThreadsAgree
    <3>2. heads' \in Seq(Cursor) /\ tails' \in Seq(Cursor)
      BY <3>1
    <3>3. room' \in 0..capacity' /\ ready' \in 0..capacity' /\ wanted' \in 0..capacity'
      BY <1>3, <3>1
    <3>4. {head', tail', headSeen', tailSeen'} \subseteq Cursor
      BY <1>2, <3>1
    <3>5. QED
      BY <1>1, <1>3, <3>2, <3>3, <3>4 DEF TypeOK
  <2>2. Minus(0, 0) = 0
    BY <1>2, MinusIs, WrapIs
  <2>3. OrderAgrees'
    BY <1>3, <2>2 DEF OrderAgrees, NewCursors, Dist
  <2>4. ThreadsAgree'
    BY <1>1, <1>3, <2>2 DEF ThreadsAgree, NewCursors, WriteAvail, ReadAvail
  <2>5. DataAgrees'
    BY <1>3 DEF DataAgrees
  <2>6. QED
    BY <2>1, <2>3, <2>4, <2>5
<1>4. ASSUME NEW min \in Sizes, retro_spsc_init(min) PROVE IInv'
  <2>1. min \in Nat \ {0} /\ min <= SizeMax
    BY <1>2, <1>4, SpscAssumption DEF retro_spsc_init, Accepted
  <2>2. PICK k \in Nat : /\ capacity' = Pow2[k] /\ min <= Pow2[k]
                         /\ k > 0 => min > Pow2[k - 1]
    BY <1>4, <2>1, RoundUpDef DEF retro_spsc_init
  <2>3. capacity' \in 0..(SizeMax \div 2) /\ capacity' # 0
    BY <1>4, <2>2, Pow2Def, <1>2 DEF retro_spsc_init, Accepted
  <2>4. k \in 0..Bits
    <3>1. Bits \in Nat /\ Pow2[k] < Wrap /\ Pow2[Bits] = Wrap
      BY <2>2, <2>3, WrapIs, SpscAssumption DEF Wrap
    <3>2. Bits < k => 2 * Pow2[Bits] <= Pow2[k]
      BY <3>1, Pow2Grows
    <3>3. Pow2[k] \in Nat /\ Pow2[Bits] \in Nat
      BY <3>1, Pow2Def
    <3>4. QED
      BY <3>1, <3>2, <3>3
  <2>5. RoundsUp'
    BY <2>2, <2>4 DEF RoundsUp
  <2>6. pc["producer"] = "idle" /\ pc["consumer"] = "idle"
    <3>1. capacity = 0
      BY <1>4 DEF retro_spsc_init
    <3>2. QED
      BY <1>1, <3>1 DEF ThreadsAgree
  <2>7. buffer' \in [0..(capacity' - 1) -> Values \cup {Junk}]
    BY <1>4 DEF retro_spsc_init
  <2>8. QED
    BY <1>3, <1>4, <2>3, <2>5, <2>6, <2>7 DEF retro_spsc_init, IInv
<1>5. ASSUME Quiescent PROVE pc["producer"] = "idle" /\ pc["consumer"] = "idle"
  BY <1>1, <1>5 DEF Quiescent, TypeOK
<1>6. CASE retro_spsc_clear
  <2>1. /\ NewCursors /\ capacity # 0 /\ UNCHANGED <<capacity, buffer, src, written, dst, wanted,
                                                     peeking, pc>>
        /\ pc["producer"] = "idle" /\ pc["consumer"] = "idle"
    BY <1>5, <1>6 DEF retro_spsc_clear
  <2>2. RoundsUp'
    BY <1>1, <2>1 DEF RoundsUp
  <2>3. capacity' \in 0..(SizeMax \div 2) /\ buffer' \in [0..(capacity' - 1) -> Values \cup {Junk}]
    BY <1>1, <2>1 DEF TypeOK
  <2>4. QED
    BY <1>3, <2>1, <2>2, <2>3 DEF IInv
<1>7. CASE retro_spsc_free
  <2>1. /\ capacity' = 0 /\ buffer' = <<>> /\ room' = 0 /\ ready' = 0
        /\ UNCHANGED <<head, tail, heads, tails, headSeen, tailSeen, src, written, dst, wanted,
                       peeking, pc>>
        /\ pc["producer"] = "idle" /\ pc["consumer"] = "idle"
    BY <1>5, <1>7 DEF retro_spsc_free, cursors
  <2>2. TypeOK'
    <3>1. buffer' \in [0..(capacity' - 1) -> Values \cup {Junk}]
      BY <2>1
    <3>2. wanted' = 0
      BY <1>1, <2>1 DEF ThreadsAgree
    <3>3. QED
      BY <1>1, <1>2, <2>1, <3>1, <3>2 DEF TypeOK
  <2>3. RoundsUp' /\ OrderAgrees' /\ DataAgrees'
    BY <2>1 DEF RoundsUp, OrderAgrees, DataAgrees
  <2>4. ThreadsAgree'
    BY <1>1, <2>1 DEF ThreadsAgree
  <2>5. QED
    BY <2>2, <2>3, <2>4 DEF IInv
<1>8. QED
  BY <1>4, <1>6, <1>7 DEF Lifetime
-----------------------------------------------------------------------------
\* IInv holds in every state the queue reaches.
THEOREM Invariance == Spec => []IInv
<1>1. ASSUME IInv, [Next]_vars PROVE IInv'
  <2>1. CASE Lifetime
    BY <1>1, <2>1, LifetimeKeeps
  <2>2. CASE ProducerStep
    BY <1>1, <2>2, WriteAvailKeeps, WriteBeginsKeeps, WriteCopiesKeeps, WriteReturnsKeeps
       DEF ProducerStep
  <2>3. CASE ConsumerStep
    BY <1>1, <2>3, ReadAvailKeeps, ReadBeginsKeeps, ReadCopiesKeeps, ReadReturnsKeeps,
       ConsumedKeeps DEF ConsumerStep
  <2>4. CASE UNCHANGED vars
    BY <1>1, <2>4 DEF vars, cursors, producer, consumer, IInv, TypeOK, RoundsUp, OrderAgrees,
       ThreadsAgree, DataAgrees, Dist, WriteAvail, ReadAvail
  <2>5. QED
    BY <1>1, <2>1, <2>2, <2>3, <2>4 DEF Next
<1>2. QED
  BY <1>1, InitIInv, PTL DEF Spec

\* Every variable keeps its type, whatever the width of size_t and the capacities.
THEOREM TypeCorrect == Spec => []TypeOK
BY Invariance, PTL DEF IInv

\* The capacity of a queue in use is the smallest power of two that holds one that was
\* asked of retro_spsc_init.
THEOREM Rounding == Spec => []RoundsUp
BY Invariance, PTL DEF IInv

\* "Invariant: 0 <= head - tail <= capacity" (retro_spsc.h) of what either thread sees,
\* however often the cursors have wrapped around.
THEOREM InOrder == Spec => []CursorsInOrder
<1>1. ASSUME IInv PROVE CursorsInOrder
  <2>1. SUFFICES ASSUME capacity # 0 PROVE CursorsInOrder
    BY DEF CursorsInOrder
  <2>2. CursorsOK /\ OrderAgrees
    BY <1>1, Facts
  <2>3. /\ Dist(tail) \in Nat /\ Dist(headSeen) \in Nat /\ Dist(head) \in Nat
        /\ Dist(headSeen) <= Dist(head) /\ Dist(head) <= capacity
        /\ Minus(headSeen, tail) = Dist(headSeen) - Dist(tail)
    BY <2>1, <2>2, DistIs, SeenIsThere DEF CursorsOK, OrderAgrees
  <2>4. Minus(head, headSeen) = Dist(head) - Dist(headSeen)
    BY <2>2, <2>3, DistIs DEF CursorsOK
  <2>5. QED
    BY <2>3, <2>4 DEF CursorsInOrder, Dist
<1>2. QED
  BY <1>1, Invariance, PTL

\* retro_spsc_write and retro_spsc_read never touch the same byte of the buffer at the
\* same time, although each works with an old value of the other's cursor.
THEOREM RaceFree == Spec => []NoRace
<1>1. ASSUME IInv PROVE NoRace
  <2>1. SUFFICES ASSUME pc["producer"] = "copy", pc["consumer"] = "copy",
                        NEW i \in written..(Len(src) - 1), NEW j \in Len(dst)..(wanted - 1)
                 PROVE  Index(head, Len(src), i) # Index(tail, wanted, j)
    BY DEF NoRace, Writing, Reading
  <2>2. /\ TypeOK /\ CursorsOK /\ OrderAgrees /\ ThreadsAgree
        /\ capacity # 0 /\ IsCapacity(capacity)
    BY <1>1, <2>1, Facts DEF ThreadsAgree
  <2>3. /\ Len(src) \in Nat /\ written \in Nat /\ Len(dst) \in Nat /\ wanted \in 0..capacity
        /\ capacity \in Nat
    BY <2>2 DEF TypeOK, CursorsOK
  <2>4. Len(src) <= WriteAvail(tailSeen) /\ wanted <= Minus(headSeen, tail)
    BY <2>1, <2>2 DEF ThreadsAgree, ReadAvail
  <2>5. /\ WriteAvail(tailSeen) \in Int /\ WriteAvail(tailSeen) <= capacity
        /\ Minus(headSeen, tail) \in Nat /\ Minus(head, tail) \in Nat
        /\ Minus(headSeen, tail) <= Minus(head, tail)
    <3>1. Minus(headSeen, tail) \in Nat /\ Minus(head, tailSeen) \in Nat
      BY <2>2, MinusNat DEF CursorsOK
    <3>2. QED
      BY <2>2, <2>3, <3>1, SeenIsThere DEF WriteAvail
  <2>6. /\ Len(src) \in 0..capacity /\ i \in 0..(Len(src) - 1) /\ j \in 0..(wanted - 1)
        /\ i \in Nat /\ i < WriteAvail(tailSeen) /\ j \in Nat /\ j < Minus(head, tail)
    BY <2>3, <2>4, <2>5
  <2>7. /\ Index(head, Len(src), i) = (head + i) % capacity
        /\ Index(tail, wanted, j) = (tail + j) % capacity
    BY <2>2, <2>3, <2>6, IndexIs DEF CursorsOK
  <2>8. (tail + j) % capacity # (head + i) % capacity
    BY <2>2, <2>6, RoomIsApart
  <2>9. QED
    BY <2>7, <2>8
<1>2. QED
  BY <1>1, Invariance, PTL

\* What write_avail and read_avail have answered stays true until it is used.
THEOREM Promised == Spec => []PromisesKept
<1>1. ASSUME IInv PROVE PromisesKept
  <2>1. SUFFICES ASSUME capacity # 0 PROVE PromisesKept
    BY DEF PromisesKept
  <2>2. CursorsOK /\ OrderAgrees /\ TypeOK /\ ThreadsAgree
    BY <1>1, Facts
  <2>3. /\ Dist(tail) \in Nat /\ Dist(headSeen) \in Nat /\ Dist(head) \in Nat /\ Dist(tailSeen) = 0
        /\ Dist(tail) <= Dist(headSeen) /\ Dist(headSeen) <= Dist(head)
        /\ capacity \in Nat /\ room \in Nat /\ ready \in Nat
    BY <2>1, <2>2, DistIs DEF CursorsOK, OrderAgrees, TypeOK
  <2>4. ASSUME NEW t \in Cursor, Dist(t) <= Dist(tail) PROVE WriteAvail(t) >= room
    <3>1. Dist(t) \in Nat
      BY <2>2, DistIs DEF CursorsOK
    <3>2. Dist(t) <= Dist(head)
      BY <2>3, <2>4, <3>1
    <3>3. Minus(head, t) = Dist(head) - Dist(t)
      BY <2>2, <3>2, DistIs DEF CursorsOK
    <3>4. room <= capacity - Dist(head)
      BY <2>1, <2>2 DEF ThreadsAgree, WriteAvail, Dist
    <3>5. QED
      BY <2>3, <3>1, <3>3, <3>4 DEF WriteAvail
  <2>5. ASSUME NEW h \in Cursor, Dist(headSeen) <= Dist(h) PROVE ReadAvail(h) >= ready
    <3>1. Dist(h) \in Nat
      BY <2>2, DistIs DEF CursorsOK
    <3>2. Dist(tail) <= Dist(h)
      BY <2>3, <2>5, <3>1
    <3>3. Minus(h, tail) = Dist(h) - Dist(tail)
      BY <2>2, <3>2, DistIs DEF CursorsOK
    <3>4. ready <= Dist(headSeen) - Dist(tail)
      BY <2>1, <2>2, SeenIsThere DEF ThreadsAgree, ReadAvail
    <3>5. QED
      BY <2>3, <2>5, <3>1, <3>3, <3>4 DEF ReadAvail
  <2>6. \A t \in {tailSeen} \cup ToSet(tails) : t \in Cursor /\ Dist(t) <= Dist(tail)
    BY <2>1, <2>2, <2>3 DEF CursorsOK, OrderAgrees, ToSet
  <2>7. \A h \in {headSeen} \cup ToSet(heads) : h \in Cursor /\ Dist(headSeen) <= Dist(h)
    BY <2>1, <2>2, <2>3 DEF CursorsOK, OrderAgrees, ToSet
  <2>8. QED
    BY <2>4, <2>5, <2>6, <2>7 DEF PromisesKept
<1>2. QED
  BY <1>1, Invariance, PTL
-----------------------------------------------------------------------------
(* The refinement. *)

\* The stream, byte by byte.
StreamOK ==
  /\ Stream \in Seq(Values \cup {Junk})
  /\ Len(Stream) = IF capacity = 0 THEN 0 ELSE Minus(head, tail)
  /\ Len(Stream) \in Nat
  /\ \A i \in 1..Len(Stream) : Stream[i] = buffer[(tail + (i - 1)) % capacity]

\* It is what Stream is.
LEMMA StreamIs == IInv => StreamOK
<1> SUFFICES ASSUME IInv PROVE StreamOK
  OBVIOUS
<1> DEFINE n == IF capacity = 0 THEN 0 ELSE Minus(head, tail)
<1>1. CursorsOK /\ TypeOK /\ (capacity # 0 => IsCapacity(capacity))
  BY Facts
<1>2. n \in Nat
  BY <1>1, MinusNat DEF CursorsOK
<1>3. ASSUME NEW i \in 1..n PROVE Stream[i] \in Values \cup {Junk}
  <2>1. capacity # 0 /\ i - 1 \in Nat
    BY <1>2, <1>3
  <2>2. (tail + (i - 1)) % capacity \in 0..(capacity - 1)
    BY <1>1, <2>1, PlaceIs DEF CursorsOK
  <2>3. Stream[i] = buffer[(tail + (i - 1)) % capacity]
    BY <1>3 DEF Stream
  <2>4. QED
    BY <1>1, <2>2, <2>3 DEF TypeOK
<1>4. Stream \in [1..n -> Values \cup {Junk}]
  <2>1. Stream = [i \in 1..n |-> Stream[i]]
    BY DEF Stream
  <2>2. QED
    BY <1>3, <2>1, Zenon
<1>5. \A i \in 1..n : Stream[i] = buffer[(tail + (i - 1)) % capacity]
  BY DEF Stream
<1> HIDE DEF n
<1>6. Stream \in Seq(Values \cup {Junk}) /\ Len(Stream) = n
  BY <1>2, <1>4
<1>7. QED
  BY <1>2, <1>5, <1>6 DEF n, StreamOK

\* And in the next state.
LEMMA StreamIsNext == IInv' => StreamOK'
BY StreamIs, PTL

\* The stream stays as it is when its places do.
LEMMA StreamKept ==
  ASSUME IInv, IInv', UNCHANGED <<capacity, head, tail>>,
         capacity # 0 =>
           \A i \in Nat : i < Minus(head, tail) =>
             buffer'[(tail + i) % capacity] = buffer[(tail + i) % capacity]
  PROVE  Stream' = Stream
<1>1. StreamOK /\ StreamOK'
  BY StreamIs, StreamIsNext
<1>2. /\ Stream \in Seq(Values \cup {Junk}) /\ Stream' \in Seq(Values \cup {Junk})
      /\ Len(Stream) = Len(Stream') /\ Len(Stream) \in Nat
  BY <1>1 DEF StreamOK, Minus
<1>3. ASSUME NEW i \in 1..Len(Stream) PROVE Stream'[i] = Stream[i]
  <2>1. /\ Stream[i] = buffer[(tail + (i - 1)) % capacity]
        /\ Stream'[i] = buffer'[(tail + (i - 1)) % capacity]
    BY <1>1, <1>2 DEF StreamOK
  <2>2. capacity # 0 /\ i - 1 \in Nat /\ i - 1 < Minus(head, tail)
    BY <1>1 DEF StreamOK
  <2>3. QED
    BY <2>1, <2>2
<1>4. QED
  BY <1>2, <1>3, SeqEqual

\* A write that returns puts its bytes at the end of the stream.
LEMMA WriteAppends ==
  ASSUME IInv, IInv', WriteReturns
  PROVE  Stream' = Stream \o src /\ Len(Stream) + Len(src) <= capacity
<1>1. /\ TypeOK /\ CursorsOK /\ OrderAgrees /\ ThreadsAgree /\ DataAgrees /\ StreamOK /\ StreamOK'
      /\ pc["producer"] = "copy" /\ written = Len(src) /\ head' = Plus(head, Len(src))
      /\ UNCHANGED <<capacity, buffer, tail>>
  BY Facts, StreamIs, StreamIsNext DEF WriteReturns
<1>2. /\ capacity # 0 /\ IsCapacity(capacity) /\ Len(src) <= WriteAvail(tailSeen)
      /\ capacity \in Nat /\ 2 * capacity < Wrap
  BY <1>1, Facts DEF ThreadsAgree, CursorsOK, IsCapacity
<1>3. src \in Seq(Values \cup {Junk}) /\ Len(src) \in Nat
  <2>1. src \in Seq(Values)
    BY <1>1 DEF TypeOK
  <2>2. QED
    BY <2>1, SeqMonotonic
<1> DEFINE m == Minus(head, tail)
<1>4. m \in Nat /\ m + Len(src) <= capacity
  <2>1. m = Dist(head) - Dist(tail) /\ m \in Nat /\ Dist(head) \in Nat /\ Dist(tail) \in Nat
    BY <1>1, <1>2, SeenIsThere, DistIs DEF CursorsOK
  <2>2. WriteAvail(tailSeen) = capacity - Dist(head)
    BY DEF WriteAvail, Dist
  <2> HIDE DEF m
  <2>3. QED
    BY <1>2, <1>3, <2>1, <2>2
<1>5. Minus(head', tail) = m + Len(src)
  <2>1. Minus(head, tail) + Len(src) < Wrap
    BY <1>2, <1>3, <1>4, WrapIs
  <2>2. QED
    BY <1>1, <1>3, <2>1, MinusPlus DEF CursorsOK
<1>6. head = Plus(tail, m) /\ m \in 0..Wrap
  BY <1>1, MinusBack DEF CursorsOK
<1>7. Len(Stream) = m /\ Len(Stream') = m + Len(src)
  <2>1. Len(Stream') = Minus(head', tail)
    BY <1>1, <1>2 DEF StreamOK, Minus
  <2>2. QED
    BY <1>1, <1>2, <1>5, <2>1 DEF StreamOK
<1> HIDE DEF m
<1>8. /\ Stream \o src \in Seq(Values \cup {Junk})
      /\ Len(Stream \o src) = m + Len(src)
      /\ \A i \in 1..(m + Len(src)) : (Stream \o src)[i] = IF i <= m THEN Stream[i] ELSE src[i - m]
  BY <1>1, <1>3, <1>7, ConcatProperties DEF StreamOK
<1>9. ASSUME NEW i \in 1..(m + Len(src)) PROVE Stream'[i] = (Stream \o src)[i]
  <2>1. Stream'[i] = buffer[(tail + (i - 1)) % capacity]
    BY <1>1, <1>7 DEF StreamOK
  <2>2. CASE i <= m
    <3>1. Stream[i] = buffer[(tail + (i - 1)) % capacity]
      BY <1>1, <1>4, <1>7, <2>2 DEF StreamOK
    <3>2. QED
      BY <1>8, <2>1, <2>2, <3>1
  <2>3. CASE i > m
    <3>1. i - m - 1 \in 0..(written - 1) /\ i - m - 1 \in Nat
      BY <1>1, <1>3, <1>4, <2>3
    <3>2. buffer[(head + (i - m - 1)) % capacity] = src[(i - m - 1) + 1]
      BY <1>1, <3>1 DEF DataAgrees
    <3>3. (head + (i - m - 1)) % capacity = (tail + (m + (i - m - 1))) % capacity
      BY <1>1, <1>2, <1>6, <3>1, PlacePlus DEF CursorsOK
    <3>4. m + (i - m - 1) = i - 1 /\ (i - m - 1) + 1 = i - m
      BY <1>4
    <3>5. QED
      BY <1>4, <1>8, <2>1, <2>3, <3>2, <3>3, <3>4
  <2>4. i <= m \/ i > m
    BY <1>3, <1>4
  <2>5. QED
    BY <2>2, <2>3, <2>4, Zenon
<1>10. Stream' = Stream \o src
  BY <1>1, <1>7, <1>8, <1>9, SeqEqual DEF StreamOK
<1>11. QED
  BY <1>4, <1>7, <1>10

\* A read returns the first bytes of the stream, and takes them out of it unless it
\* is a peek.
LEMMA ReadTakes ==
  ASSUME IInv, IInv', ReadReturns
  PROVE  /\ wanted \in 1..Len(Stream)
         /\ dst = SubSeq(Stream, 1, wanted)
         /\ peeking => Stream' = Stream
         /\ ~peeking => Stream' = SubSeq(Stream, wanted + 1, Len(Stream))
<1>1. /\ TypeOK /\ CursorsOK /\ OrderAgrees /\ ThreadsAgree /\ DataAgrees /\ StreamOK /\ StreamOK'
      /\ pc["consumer"] = "copy" /\ Len(dst) = wanted
      /\ UNCHANGED <<capacity, buffer, head>>
  BY Facts, StreamIs, StreamIsNext DEF ReadReturns
<1>2. /\ capacity # 0 /\ IsCapacity(capacity) /\ wanted <= ReadAvail(headSeen) /\ wanted # 0
      /\ capacity \in Nat /\ 2 * capacity < Wrap /\ wanted \in Nat
      /\ dst \in Seq(Values \cup {Junk})
  BY <1>1, Facts DEF ThreadsAgree, CursorsOK, IsCapacity, TypeOK
<1> DEFINE m == Minus(head, tail)
<1>3. m \in Nat /\ wanted <= m /\ m <= capacity
  <2>1. Minus(headSeen, tail) <= m /\ m \in Nat /\ m <= capacity
    BY <1>1, <1>2, SeenIsThere
  <2>2. Minus(headSeen, tail) \in Nat
    BY <1>1, MinusNat DEF CursorsOK
  <2> HIDE DEF m
  <2>3. QED
    BY <1>2, <2>1, <2>2 DEF ReadAvail
<1>4. Len(Stream) = m
  BY <1>1, <1>2 DEF StreamOK
<1> HIDE DEF m
<1>5. /\ Stream \in Seq(Values \cup {Junk}) /\ Stream' \in Seq(Values \cup {Junk})
      /\ \A i \in 1..m : Stream[i] = buffer[(tail + (i - 1)) % capacity]
  BY <1>1, <1>4 DEF StreamOK
<1>6. dst = SubSeq(Stream, 1, wanted)
  <2>1. \A i \in 1..wanted : Stream[i] \in Values \cup {Junk}
    BY <1>2, <1>3, <1>4, <1>5
  <2>2. /\ SubSeq(Stream, 1, wanted) \in Seq(Values \cup {Junk})
        /\ Len(SubSeq(Stream, 1, wanted)) = wanted
        /\ \A i \in 1..(wanted - 1 + 1) : SubSeq(Stream, 1, wanted)[i] = Stream[1 + i - 1]
    BY <1>2, <2>1, SubSeqProperties
  <2>3. ASSUME NEW i \in 1..Len(dst) PROVE dst[i] = SubSeq(Stream, 1, wanted)[i]
    <3>1. i - 1 \in 0..(Len(dst) - 1) /\ (i - 1) + 1 = i /\ 1 + i - 1 = i
      BY <1>1, <1>2
    <3>2. dst[i] = buffer[(tail + (i - 1)) % capacity]
      BY <1>1, <3>1 DEF DataAgrees
    <3>3. i \in 1..m /\ i \in 1..(wanted - 1 + 1)
      BY <1>1, <1>2, <1>3
    <3>4. QED
      BY <1>5, <2>2, <3>1, <3>2, <3>3
  <2>4. QED
    BY <1>1, <1>2, <2>2, <2>3, SeqEqual
<1>7. ASSUME peeking PROVE Stream' = Stream
  <2>1. UNCHANGED tail
    BY <1>7 DEF ReadReturns
  <2>2. QED
    BY <1>1, <2>1, StreamKept
<1>8. ASSUME ~peeking PROVE Stream' = SubSeq(Stream, wanted + 1, Len(Stream))
  <2>1. tail' = Plus(tail, wanted)
    BY <1>8 DEF ReadReturns
  <2>2. /\ tail' \in Cursor /\ wanted \in 0..Wrap
        /\ Minus(head, tail') = m - wanted
    <3>1. wanted \in 0..Wrap
      BY <1>2, <1>3, WrapIs
    <3>2. Plus(tail, wanted) \in Cursor /\ Minus(Plus(tail, wanted), tail) = wanted
      <4>1. Minus(tail, tail) = 0
        <5>1. Minus(tail, tail) = IF tail >= tail THEN tail - tail ELSE tail - tail + Wrap
          BY <1>1, MinusIs DEF CursorsOK
        <5>2. QED
          BY <1>1, <5>1, WrapIs DEF CursorsOK, Cursor
      <4>2. Minus(tail, tail) + wanted < Wrap
        BY <1>2, <1>3, <4>1, WrapIs
      <4>3. Plus(tail, wanted) \in Cursor /\ Minus(Plus(tail, wanted), tail) = Minus(tail, tail) + wanted
        BY <1>1, <1>2, <4>2, MinusPlus DEF CursorsOK
      <4>4. QED
        BY <1>2, <4>1, <4>3
    <3>3. Minus(tail', tail) <= Minus(head, tail)
      BY <1>3, <2>1, <3>2 DEF m
    <3>4. Minus(head, tail') = Minus(head, tail) - Minus(tail', tail)
      BY <1>1, <2>1, <3>2, <3>3, MinusAdds DEF CursorsOK
    <3>5. QED
      BY <2>1, <3>1, <3>2, <3>4 DEF m
  <2>3. Len(Stream') = m - wanted
    BY <1>1, <1>2, <2>2 DEF StreamOK, Minus
  <2>4. /\ SubSeq(Stream, wanted + 1, Len(Stream)) \in Seq(Values \cup {Junk})
        /\ Len(SubSeq(Stream, wanted + 1, Len(Stream))) = m - wanted
        /\ \A i \in 1..(m - wanted) : /\ wanted + i \in 1..m
                                      /\ SubSeq(Stream, wanted + 1, Len(Stream))[i] = Stream[wanted + i]
    <3>1. wanted \in 0..Len(Stream)
      BY <1>2, <1>3, <1>4
    <3>2. QED
      BY <1>4, <1>5, <3>1, DropProperties
  <2>5. ASSUME NEW i \in 1..(m - wanted)
        PROVE  Stream'[i] = SubSeq(Stream, wanted + 1, Len(Stream))[i]
    <3>1. Stream'[i] = buffer[(tail' + (i - 1)) % capacity]
      BY <1>1, <2>3 DEF StreamOK
    <3>2. i - 1 \in Nat /\ wanted + (i - 1) = (wanted + i) - 1
      BY <1>2
    <3>3. (tail' + (i - 1)) % capacity = (tail + (wanted + (i - 1))) % capacity
      BY <1>1, <1>2, <2>1, <2>2, <3>2, PlacePlus DEF CursorsOK
    <3>4. Stream[wanted + i] = buffer[(tail + ((wanted + i) - 1)) % capacity]
      BY <1>5, <2>4
    <3>5. QED
      BY <2>4, <3>1, <3>2, <3>3, <3>4
  <2>6. QED
    BY <1>5, <2>3, <2>4, <2>5, SeqEqual
<1>9. QED
  BY <1>2, <1>3, <1>4, <1>6, <1>7, <1>8

\* Nothing but the bytes and the cursors make the stream.
LEMMA Stutters ==
  ASSUME UNCHANGED <<capacity, buffer, head, tail>>
  PROVE  Stream' = Stream
BY DEF Stream, Minus

\* The copies of a write stay out of the stream.
LEMMA CopyStutters ==
  ASSUME IInv, IInv', WriteCopies
  PROVE  Stream' = Stream
<1>1. /\ TypeOK /\ CursorsOK /\ OrderAgrees /\ ThreadsAgree
      /\ pc["producer"] = "copy" /\ written < Len(src)
      /\ buffer' = [buffer EXCEPT ![Index(head, Len(src), written)] = src[written + 1]]
      /\ UNCHANGED <<capacity, head, tail>>
  BY Facts DEF WriteCopies, cursors
<1>2. /\ capacity # 0 /\ IsCapacity(capacity) /\ Len(src) <= WriteAvail(tailSeen)
      /\ capacity \in Nat /\ written \in 0..(Len(src) - 1) /\ Len(src) \in Nat
  BY <1>1, Facts DEF ThreadsAgree, CursorsOK, TypeOK
<1>3. /\ WriteAvail(tailSeen) \in Int /\ WriteAvail(tailSeen) <= capacity
      /\ Len(src) \in 0..capacity
  <2>1. Minus(head, tailSeen) \in Nat
    BY <1>1, MinusNat DEF CursorsOK
  <2>2. QED
    BY <1>2, <2>1 DEF WriteAvail
<1>4. Index(head, Len(src), written) = (head + written) % capacity
  BY <1>1, <1>2, <1>3, IndexIs DEF CursorsOK
<1>5. ASSUME NEW i \in Nat, i < Minus(head, tail)
      PROVE  buffer'[(tail + i) % capacity] = buffer[(tail + i) % capacity]
  <2>1. written \in Nat /\ written < WriteAvail(tailSeen)
    BY <1>2, <1>3
  <2>2. (tail + i) % capacity # (head + written) % capacity
    BY <1>1, <1>2, <1>5, <2>1, RoomIsApart
  <2>3. (tail + i) % capacity \in 0..(capacity - 1)
    BY <1>1, <1>2, PlaceIs DEF CursorsOK
  <2>4. QED
    BY <1>1, <1>4, <2>2, <2>3 DEF TypeOK
<1>6. QED
  BY <1>1, <1>5, StreamKept

\* With nobody inside a call, and the cursors at 0 or no buffer.
LEMMA ClearClears ==
  ASSUME IInv, IInv', Lifetime
  PROVE  /\ Stream' = <<>> /\ src' = src /\ Got' = Got /\ src = <<>> /\ Got = <<>>
         /\ pc["producer"] = "idle" /\ pc["consumer"] = "idle"
<1>1. TypeOK /\ ThreadsAgree /\ StreamOK'
  BY Facts, StreamIsNext
<1>2. pc["producer"] = "idle" /\ pc["consumer"] = "idle" /\ UNCHANGED <<src, pc, dst>>
  <2>1. CASE Quiescent
    BY <1>1, <2>1 DEF Quiescent, TypeOK, Lifetime, retro_spsc_free, retro_spsc_clear, retro_spsc_init
  <2>2. CASE capacity = 0
    BY <1>1, <2>2 DEF ThreadsAgree, Lifetime, retro_spsc_free, retro_spsc_clear, retro_spsc_init
  <2>3. QED
    BY <2>1, <2>2 DEF Lifetime, retro_spsc_free, retro_spsc_clear, retro_spsc_init
<1>3. capacity' = 0 \/ (head' = 0 /\ tail' = 0)
  BY DEF Lifetime, retro_spsc_free, retro_spsc_clear, retro_spsc_init, NewCursors
<1>4. Len(Stream') = 0
  <2>1. Minus(0, 0) = 0
    BY MinusIs, WrapIs DEF Cursor
  <2>2. head' = 0 /\ tail' = 0 => Minus(head, tail)' = Minus(0, 0)
    BY DEF Minus
  <2>3. QED
    BY <1>1, <1>3, <2>1, <2>2 DEF StreamOK
<1>5. Stream' = <<>>
  BY <1>1, <1>4, EmptySeq DEF StreamOK
<1>6. QED
  BY <1>1, <1>2, <1>5 DEF Got, ThreadsAgree

\* The queue of retro_spsc.c is a stream of bytes: for every width of size_t, every
\* capacity and all that its two threads do, the bytes come out as they went in, whole
\* writes at a time, in order and once.
THEOREM Implements == Spec => ImplementsByteFifo
<1> USE DEF Fifo!Next, Fifo!vars
<1>1. Init => Fifo!Init
  <2> SUFFICES ASSUME Init PROVE Fifo!Init
    OBVIOUS
  <2>1. StreamOK
    BY InitIInv, StreamIs
  <2>2. Stream = <<>>
    BY <2>1, EmptySeq DEF StreamOK, Init
  <2>3. QED
    BY <2>2 DEF Init, Fifo!Init, Got
<1>2. ASSUME IInv, IInv', [Next]_vars PROVE [Fifo!Next]_Fifo!vars
  <2>1. CASE Lifetime
    <3>1. Fifo!Clear
      BY <1>2, <2>1, ClearClears DEF Fifo!Clear
    <3>2. QED
      BY <3>1
  <2>2. ASSUME NEW n \in 0..Len(tails), retro_spsc_write_avail(n) PROVE [Fifo!Next]_Fifo!vars
    BY <2>2, Stutters DEF retro_spsc_write_avail, consumer, Got
  <2>3. ASSUME NEW n \in 0..Len(tails), NEW data \in Data, WriteBegins(n, data)
        PROVE  [Fifo!Next]_Fifo!vars
    <3>1. Stream' = Stream
      BY <2>3, Stutters DEF WriteBegins
    <3>2. Got' = Got
      BY <1>2, <2>3, Facts DEF WriteBegins, consumer, Got, TypeOK
    <3>3. src = <<>>
      BY <1>2, <2>3, Facts DEF WriteBegins, ThreadsAgree
    <3>4. src' \in Seq(Values) /\ Len(src') <= SizeMax \div 2
      <4>1. TypeOK' /\ ThreadsAgree' /\ CursorsOK'
        BY <1>2, FactsNext
      <4>2. src' \in Seq(Values) /\ capacity' \in 0..(SizeMax \div 2) /\ capacity' \in Nat
        BY <4>1 DEF TypeOK
      <4>3. Len(src') <= WriteAvail(tailSeen)' \/ Len(src') = 0
        BY <4>1 DEF TypeOK, ThreadsAgree
      <4>4. WriteAvail(tailSeen)' = capacity' - Minus(head', tailSeen')
        BY DEF WriteAvail, Minus
      <4>5. Minus(head', tailSeen') \in Nat
        <5>1. head' \in Cursor /\ tailSeen' \in Cursor
          BY <4>1 DEF CursorsOK, Cursor
        <5>2. QED
          BY <5>1, MinusNat
      <4>6. QED
        BY <4>2, <4>3, <4>4, <4>5, WrapIs
    <3>5. Fifo!WriteBegins
      BY <3>1, <3>2, <3>3, <3>4 DEF Fifo!WriteBegins
    <3>6. QED
      BY <3>5
  <2>4. CASE WriteCopies
    <3>1. Stream' = Stream
      BY <1>2, <2>4, CopyStutters
    <3>2. QED
      BY <2>4, <3>1 DEF WriteCopies, consumer, Got
  <2>5. CASE WriteReturns
    <3>1. Stream' = Stream \o src /\ Len(Stream) + Len(src) <= capacity
      BY <1>2, <2>5, WriteAppends
    <3>2. Len(Stream) + Len(src) <= SizeMax \div 2
      <4>1. capacity \in 0..(SizeMax \div 2) /\ Len(Stream) \in Nat /\ Len(src) \in Nat
        BY <1>2, Facts, StreamIs DEF TypeOK, StreamOK
      <4>2. QED
        BY <3>1, <4>1, WrapIs
    <3>3. src' = <<>> /\ Got' = Got
      BY <1>2, <2>5, Facts DEF WriteReturns, consumer, Got, TypeOK
    <3>4. Fifo!WriteReturns
      BY <3>1, <3>2, <3>3 DEF Fifo!WriteReturns
    <3>5. QED
      BY <3>4
  <2>6. ASSUME NEW n \in 0..Len(heads), retro_spsc_read_avail(n) PROVE [Fifo!Next]_Fifo!vars
    BY <2>6, Stutters DEF retro_spsc_read_avail, producer, Got
  <2>7. ASSUME NEW n \in 0..Len(heads), NEW bytes \in 1..MaxBytes, NEW peek \in BOOLEAN,
               ReadBegins(n, bytes, peek)
        PROVE  [Fifo!Next]_Fifo!vars
    <3>1. Got' = Got
      BY <1>2, <2>7, Facts DEF ReadBegins, Got, TypeOK
    <3>2. QED
      BY <2>7, <3>1, Stutters DEF ReadBegins, producer
  <2>8. CASE ReadCopies
    <3>1. Got' = Got
      BY <2>8 DEF ReadCopies, Got
    <3>2. QED
      BY <2>8, <3>1, Stutters DEF ReadCopies, producer, cursors
  <2>9. CASE ReadReturns
    <3>1. /\ wanted \in 1..Len(Stream)
          /\ dst = SubSeq(Stream, 1, wanted)
          /\ peeking => Stream' = Stream
          /\ ~peeking => Stream' = SubSeq(Stream, wanted + 1, Len(Stream))
      BY <1>2, <2>9, ReadTakes
    <3>2. Got = <<>> /\ Got' = dst /\ src' = src
      BY <1>2, <2>9, Facts DEF ReadReturns, Got, producer, TypeOK
    <3>3. Fifo!Read(wanted) \/ Fifo!Peek(wanted)
      BY <3>1, <3>2 DEF Fifo!Read, Fifo!Peek
    <3>4. QED
      BY <3>1, <3>3
  <2>10. CASE Consumed
    <3>1. Fifo!Use
      BY <1>2, <2>10, Facts, Stutters DEF Consumed, Got, producer, cursors, TypeOK, Fifo!Use
    <3>2. QED
      BY <3>1
  <2>11. CASE UNCHANGED vars
    BY <2>11, Stutters DEF vars, cursors, producer, consumer, Got
  <2>12. QED
    BY <1>2, <2>1, <2>2, <2>3, <2>4, <2>5, <2>6, <2>7, <2>8, <2>9, <2>10, <2>11
       DEF Next, ProducerStep, ConsumerStep
<1>3. QED
  BY <1>1, <1>2, Invariance, PTL DEF Spec, ImplementsByteFifo, Fifo!Spec
=============================================================================
