-------------------------- MODULE TaskQueueProofs --------------------------
(***************************************************************************)
(* The queue keeps every task in one place, for every set of tasks, every  *)
(* assignment of pushers, delays and bounds: IInv of TaskQueue is          *)
(* inductive.  And, further down, it implements TaskLifecycle.             *)
(***************************************************************************)
EXTENDS TaskQueue, SequenceTheorems, WellFoundedInduction, TLAPS

(***************************************************************************)
(* What the list operations of task_queue.c do to the tasks in a list, for *)
(* lists of any length.                                                    *)
(***************************************************************************)

\* Inserting at position i shifts what is behind it.
LEMMA InsertAtElements ==
  ASSUME NEW S, NEW q \in Seq(S), NEW t \in S, NEW i \in 1..(Len(q) + 1)
  PROVE  /\ InsertAt(q, i, t) \in Seq(S)
         /\ Len(InsertAt(q, i, t)) = Len(q) + 1
         /\ \A j \in 1..(Len(q) + 1) : InsertAt(q, i, t)[j] =
              IF j < i THEN q[j] ELSE IF j = i THEN t ELSE q[j - 1]
<1> DEFINE p == SubSeq(q, 1, i - 1)
           pt == p \o <<t>>
           r == SubSeq(q, i, Len(q))
<1>1. p \in Seq(S) /\ Len(p) = i - 1 /\ \A j \in 1..(i - 1) : p[j] = q[j]
  BY SMT
<1>2. r \in Seq(S) /\ Len(r) = Len(q) - i + 1 /\ \A j \in 1..(Len(q) - i + 1) : r[j] = q[i + j - 1]
  BY SMT
<1>3. <<t>> \in Seq(S) /\ Len(<<t>>) = 1 /\ <<t>>[1] = t
  OBVIOUS
<1> HIDE DEF p, r
<1>4. /\ pt \in Seq(S) /\ Len(pt) = i
      /\ \A j \in 1..i : pt[j] = IF j < i THEN q[j] ELSE t
  BY <1>1, <1>3, SMT
<1> HIDE DEF pt
<1>5. /\ pt \o r \in Seq(S)
      /\ Len(pt \o r) = Len(pt) + Len(r)
      /\ \A j \in 1..(Len(pt) + Len(r)) :
           (pt \o r)[j] = IF j <= Len(pt) THEN pt[j] ELSE r[j - Len(pt)]
  BY <1>2, <1>4, ConcatProperties
<1>6. /\ pt \o r \in Seq(S)
      /\ Len(pt \o r) = Len(q) + 1
      /\ \A j \in 1..(Len(q) + 1) : (pt \o r)[j] =
              IF j < i THEN q[j] ELSE IF j = i THEN t ELSE q[j - 1]
  BY <1>2, <1>4, <1>5, SMT
<1> QED BY <1>6 DEF InsertAt, p, pt, r

\* Removing position i shifts what is behind it.
LEMMA RemoveAtElements ==
  ASSUME NEW S, NEW q \in Seq(S), NEW i \in 1..Len(q)
  PROVE  /\ RemoveAt(q, i) \in Seq(S)
         /\ Len(RemoveAt(q, i)) = Len(q) - 1
         /\ \A j \in 1..(Len(q) - 1) :
              RemoveAt(q, i)[j] = IF j < i THEN q[j] ELSE q[j + 1]
<1> DEFINE p == SubSeq(q, 1, i - 1)
           r == SubSeq(q, i + 1, Len(q))
<1>1. p \in Seq(S) /\ Len(p) = i - 1 /\ \A j \in 1..(i - 1) : p[j] = q[j]
  BY SMT
<1>2. r \in Seq(S) /\ Len(r) = Len(q) - i /\ \A j \in 1..(Len(q) - i) : r[j] = q[i + j]
  BY SMT
<1> HIDE DEF p, r
<1>3. /\ p \o r \in Seq(S)
      /\ Len(p \o r) = Len(p) + Len(r)
      /\ \A j \in 1..(Len(p) + Len(r)) : (p \o r)[j] =
              IF j <= Len(p) THEN p[j] ELSE r[j - Len(p)]
  BY <1>1, <1>2, ConcatProperties
<1>4. /\ p \o r \in Seq(S)
      /\ Len(p \o r) = Len(q) - 1
      /\ \A j \in 1..(Len(q) - 1) : (p \o r)[j] = IF j < i THEN q[j] ELSE q[j + 1]
  BY <1>1, <1>2, <1>3, SMT
<1> QED BY <1>4 DEF RemoveAt, p, r

-----------------------------------------------------------------------------
\* A nonempty set of naturals has a least element.
LEMMA LeastElement ==
  ASSUME NEW T \in SUBSET Nat, T # {}
  PROVE  \E x \in T : \A y \in T : x <= y
<1>1. PICK x \in T : \A y \in T : <<y, x>> \notin OpToRel(<, Nat)
  BY NatLessThanWellFounded, WFMin, Zenon
<1>2. \A y \in T : ~ (y < x)
  BY <1>1 DEF OpToRel
<1> QED BY <1>2, SMT

\* The loop of task_queue_put stops inside the list when its last task is due
\* later than t, and in front of the first such task.
LEMMA InsertPosExists ==
  ASSUME NEW S, NEW q \in Seq(S), NEW t \in S, NEW at \in [S -> Nat],
         q # <<>>, at[q[Len(q)]] > at[t]
  PROVE  LET i == InsertPos(q, t, at)
         IN  /\ i \in 1..Len(q)
             /\ at[q[i]] > at[t]
             /\ \A j \in 1..(i - 1) : at[q[j]] <= at[t]
<1> DEFINE T == { i \in 1..Len(q) : at[q[i]] > at[t] }
<1>1. Len(q) \in T
  BY EmptySeq, SMT
<1>2. PICK i \in T : \A j \in T : i <= j
  <2>1. T \in SUBSET Nat
    OBVIOUS
  <2> HIDE DEF T
  <2> QED BY <1>1, <2>1, LeastElement
<1>3. \A j \in 1..(i - 1) : at[q[j]] <= at[t]
  BY <1>2, SMT
<1>4. \E k \in 1..Len(q) : /\ at[q[k]] > at[t]
                           /\ \A j \in 1..(k - 1) : at[q[j]] <= at[t]
  BY <1>2, <1>3
<1> QED BY <1>4 DEF InsertPos

\* r is q with t put at position i.
Inserted(r, q, t, i) ==
  /\ Len(r) = Len(q) + 1
  /\ \A j \in 1..(i - 1) : r[j] = q[j]
  /\ r[i] = t
  /\ \A j \in i..Len(q) : r[j + 1] = q[j]

\* Insertion adds t and nothing else.
LEMMA InsertedProperties ==
  ASSUME NEW S, NEW q \in Seq(S), NEW r \in Seq(S), NEW t \in S,
         NEW i \in 1..(Len(q) + 1), Inserted(r, q, t, i)
  PROVE  /\ Members(r) = Members(q) \cup {t}
         /\ NoDuplicates(q) /\ t \notin Members(q) => NoDuplicates(r)
<1> DEFINE m(l) == IF l < i THEN l ELSE l - 1
<1>1. Len(q) \in Nat /\ i \in Int
  OBVIOUS
<1>2. r[i] = t /\ i \in 1..Len(r) /\ Len(r) = Len(q) + 1
  BY <1>1 DEF Inserted
<1>3. ASSUME NEW l \in 1..(Len(q) + 1), l # i
      PROVE  m(l) \in 1..Len(q) /\ r[l] = q[m(l)]
  <2>1. CASE l < i
    BY <1>1, <2>1 DEF Inserted
  <2>2. CASE l > i
    <3>1. l - 1 \in i..Len(q) /\ (l - 1) + 1 = l
      BY <1>1, <2>2
    <3>2. r[(l - 1) + 1] = q[l - 1]
      BY <3>1 DEF Inserted
    <3>3. m(l) = l - 1 /\ m(l) \in 1..Len(q)
      BY <1>1, <2>2
    <3> QED BY <3>1, <3>2, <3>3
  <2> QED BY <1>1, <1>3, <2>1, <2>2
<1>4. ASSUME NEW j \in 1..Len(q)
      PROVE  q[j] \in Members(r)
  <2>1. CASE j < i
    <3>1. j \in 1..Len(r) /\ r[j] = q[j]
      BY <1>1, <1>2, <2>1 DEF Inserted
    <3> QED BY <3>1 DEF Members
  <2>2. CASE j >= i
    <3>1. j + 1 \in 1..Len(r) /\ r[j + 1] = q[j]
      BY <1>1, <1>2, <2>2 DEF Inserted
    <3> QED BY <3>1 DEF Members
  <2> QED BY <1>1, <2>1, <2>2
<1>5. Members(r) \subseteq Members(q) \cup {t}
  <2> HIDE DEF m
  <2>1. \A l \in 1..Len(r) : r[l] = t \/ \E k \in 1..Len(q) : r[l] = q[k]
    BY <1>2, <1>3
  <2> QED BY <2>1 DEF Members
<1>6. Members(r) = Members(q) \cup {t}
  BY <1>2, <1>4, <1>5 DEF Members
<1>7. ASSUME NoDuplicates(q), t \notin Members(q),
             NEW j \in 1..(Len(q) + 1), NEW k \in 1..(Len(q) + 1), r[j] = r[k]
      PROVE  j = k
  <2>1. CASE j # i /\ k # i
    <3>1. m(j) = m(k)
      BY <1>3, <1>7, <2>1 DEF NoDuplicates
    <3> QED BY <1>1, <2>1, <3>1
  <2>2. CASE j = i \/ k = i
    <3> HIDE DEF m
    <3>1. \A l \in 1..Len(q) : q[l] # t
      BY <1>7 DEF Members
    <3> QED BY <1>2, <1>3, <1>7, <2>2, <3>1
  <2> QED BY <2>1, <2>2
<1> QED BY <1>2, <1>6, <1>7 DEF NoDuplicates

\* task_queue_put inserts t somewhere in the list.
LEMMA PutInserts ==
  ASSUME NEW S, NEW q \in Seq(S), NEW t \in S, NEW at \in [S -> Nat]
  PROVE  /\ task_queue_put(q, t, at) \in Seq(S)
         /\ \E i \in 1..(Len(q) + 1) : Inserted(task_queue_put(q, t, at), q, t, i)
<1>1. CASE q # <<>> /\ at[q[Len(q)]] > at[t]
  <2> DEFINE i == InsertPos(q, t, at)
             r == InsertAt(q, i, t)
  <2>1. task_queue_put(q, t, at) = r
    BY <1>1 DEF task_queue_put
  <2>2. i \in 1..(Len(q) + 1)
    BY <1>1, InsertPosExists
  <2> HIDE DEF i
  <2>3. /\ r \in Seq(S) /\ Len(r) = Len(q) + 1
        /\ \A j \in 1..(Len(q) + 1) :
             r[j] = IF j < i THEN q[j] ELSE IF j = i THEN t ELSE q[j - 1]
    BY <2>2, InsertAtElements
  <2> HIDE DEF r
  <2>4. \A j \in 1..(i - 1) : r[j] = q[j]
    BY <2>2, <2>3
  <2>5. r[i] = t
    BY <2>2, <2>3
  <2>6. ASSUME NEW j \in i..Len(q)
        PROVE  r[j + 1] = q[j]
    <3>1. j + 1 \in 1..(Len(q) + 1) /\ ~ (j + 1 < i) /\ j + 1 # i /\ (j + 1) - 1 = j
      BY <2>2
    <3> QED BY <2>3, <3>1
  <2>7. Inserted(r, q, t, i)
    BY <2>3, <2>4, <2>5, <2>6 DEF Inserted
  <2> QED BY <2>1, <2>2, <2>3, <2>7
<1>2. CASE ~ (q # <<>> /\ at[q[Len(q)]] > at[t])
  <2>1. task_queue_put(q, t, at) = Append(q, t)
    BY <1>2 DEF task_queue_put
  <2>2. /\ Append(q, t) \in Seq(S) /\ Len(q) + 1 \in 1..(Len(q) + 1)
        /\ Inserted(Append(q, t), q, t, Len(q) + 1)
    BY DEF Inserted
  <2> QED BY <2>1, <2>2
<1> QED BY <1>1, <1>2

\* task_queue_put adds t, and nothing else, to a list without duplicates.
LEMMA PutProperties ==
  ASSUME NEW S, NEW q \in Seq(S), NEW t \in S, NEW at \in [S -> Nat]
  PROVE  /\ task_queue_put(q, t, at) \in Seq(S)
         /\ Members(task_queue_put(q, t, at)) = Members(q) \cup {t}
         /\ NoDuplicates(q) /\ t \notin Members(q)
              => NoDuplicates(task_queue_put(q, t, at))
BY PutInserts, InsertedProperties

\* A task put where no task before it is due later and none after it is due
\* earlier leaves the list sorted.
LEMMA InsertedSorted ==
  ASSUME NEW S, NEW q \in Seq(S), NEW r, NEW t \in S, NEW at \in [S -> Nat],
         NEW i \in 1..(Len(q) + 1), Inserted(r, q, t, i),
         SortedByWhen(q, at),
         \A j \in 1..(i - 1) : at[q[j]] <= at[t],
         \A j \in i..Len(q) : at[t] <= at[q[j]]
  PROVE  SortedByWhen(r, at)
<1> SUFFICES ASSUME NEW j \in 1..(Len(q) + 1), NEW k \in 1..(Len(q) + 1), j < k
             PROVE  at[r[j]] <= at[r[k]]
  BY DEF SortedByWhen, Inserted
<1>1. Len(q) \in Nat /\ i \in Int /\ j \in Int /\ k \in Int /\ r[i] = t
  BY DEF Inserted
<1>2. ASSUME NEW l \in (i + 1)..(Len(q) + 1)
      PROVE  l - 1 \in i..Len(q) /\ r[l] = q[l - 1]
  <2>1. l - 1 \in i..Len(q) /\ (l - 1) + 1 = l
    BY <1>1
  <2> QED BY <2>1 DEF Inserted
<1>3. CASE k < i
  <2>1. r[j] = q[j] /\ r[k] = q[k] /\ j \in 1..Len(q) /\ k \in 1..Len(q)
    BY <1>1, <1>3 DEF Inserted
  <2> QED BY <2>1 DEF SortedByWhen
<1>4. CASE k = i
  <2>1. j \in 1..(i - 1) /\ r[j] = q[j]
    BY <1>1, <1>4 DEF Inserted
  <2> QED BY <1>1, <1>4, <2>1
<1>5. CASE k > i
  <2>1. k - 1 \in i..Len(q) /\ r[k] = q[k - 1]
    BY <1>1, <1>2, <1>5
  <2>2. CASE j < i
    <3>1. j \in 1..(i - 1) /\ j \in 1..Len(q) /\ r[j] = q[j] /\ k - 1 \in 1..Len(q)
      BY <1>1, <2>1, <2>2 DEF Inserted
    <3>2. j < k - 1
      BY <1>1, <1>5, <2>2
    <3> QED BY <2>1, <3>1, <3>2 DEF SortedByWhen
  <2>3. CASE j = i
    <3>1. at[t] <= at[q[k - 1]]
      BY <2>1
    <3> QED BY <1>1, <2>1, <2>3, <3>1
  <2>4. CASE j > i
    <3>0. j \in (i + 1)..(Len(q) + 1)
      BY <1>1, <2>4
    <3>1. j - 1 \in i..Len(q) /\ r[j] = q[j - 1]
      BY <1>2, <3>0
    <3>2. j - 1 \in 1..Len(q) /\ k - 1 \in 1..Len(q) /\ j - 1 < k - 1
      BY <1>1, <2>1, <3>1
    <3> QED BY <2>1, <3>1, <3>2 DEF SortedByWhen
  <2> QED BY <1>1, <2>2, <2>3, <2>4
<1> QED BY <1>1, <1>3, <1>4, <1>5

\* task_queue_put keeps a sorted list sorted, although it looks only at the last
\* task before it appends, and stops at the first task that is due later.
LEMMA PutSorted ==
  ASSUME NEW S, NEW q \in Seq(S), NEW t \in S, NEW at \in [S -> Nat],
         SortedByWhen(q, at)
  PROVE  SortedByWhen(task_queue_put(q, t, at), at)
<1>0. Len(q) \in Nat /\ \A j \in 1..Len(q) : at[q[j]] \in Nat
  OBVIOUS
<1>1. CASE q # <<>> /\ at[q[Len(q)]] > at[t]
  <2> DEFINE i == InsertPos(q, t, at)
             r == InsertAt(q, i, t)
  <2>1. task_queue_put(q, t, at) = r
    BY <1>1 DEF task_queue_put
  <2>2. i \in 1..Len(q) /\ at[q[i]] > at[t] /\ \A j \in 1..(i - 1) : at[q[j]] <= at[t]
    BY <1>1, InsertPosExists
  <2> HIDE DEF i
  <2>6. i \in 1..(Len(q) + 1)
    BY <2>2
  <2>3. /\ r \in Seq(S) /\ Len(r) = Len(q) + 1
        /\ \A j \in 1..(Len(q) + 1) :
             r[j] = IF j < i THEN q[j] ELSE IF j = i THEN t ELSE q[j - 1]
    BY ONLY q \in Seq(S), t \in S, <2>6, InsertAtElements
  <2> HIDE DEF r
  <2>4. ASSUME NEW j \in i..Len(q)
        PROVE  r[j + 1] = q[j] /\ at[t] <= at[q[j]]
    <3>1. j + 1 \in 1..(Len(q) + 1) /\ ~ (j + 1 < i) /\ j + 1 # i /\ (j + 1) - 1 = j
      BY <2>2
    <3>2. j = i \/ i < j
      BY <2>2
    <3>3. at[q[i]] <= at[q[j]]
      BY <1>0, <2>2, <3>2 DEF SortedByWhen
    <3>4. r[j + 1] = q[(j + 1) - 1]
      BY ONLY <2>3, <3>1
    <3> QED BY ONLY Len(q) \in Nat, \A k \in 1..Len(q) : at[q[k]] \in Nat, at[t] \in Nat,
                    j \in i..Len(q), <2>2, <3>1, <3>3, <3>4
  <2>5. Inserted(r, q, t, i)
    <3>1. \A j \in 1..(i - 1) : r[j] = q[j]
      BY ONLY Len(q) \in Nat, <2>6, <2>3
    <3>2. r[i] = t
      BY ONLY Len(q) \in Nat, <2>6, <2>3
    <3> QED BY <2>3, <2>4, <3>1, <3>2 DEF Inserted
  <2>7. \A j \in i..Len(q) : at[t] <= at[q[j]]
    BY <2>4
  <2>8. SortedByWhen(r, at)
    BY <2>2, <2>5, <2>6, <2>7, InsertedSorted
  <2> QED BY <2>1, <2>8
<1>2. CASE q = <<>> \/ ~ (at[q[Len(q)]] > at[t])
  <2> DEFINE i == Len(q) + 1
  <2>1. task_queue_put(q, t, at) = Append(q, t)
    BY <1>2 DEF task_queue_put
  <2>2. Inserted(Append(q, t), q, t, i) /\ i \in 1..(Len(q) + 1)
    BY DEF Inserted
  <2>3. ASSUME NEW j \in 1..Len(q)
        PROVE  at[q[j]] <= at[t]
    <3>1. q # <<>> /\ Len(q) \in 1..Len(q)
      BY <2>3
    <3>2. j = Len(q) \/ j < Len(q)
      BY <2>3
    <3>3. at[q[j]] <= at[q[Len(q)]]
      BY <1>0, <3>1, <3>2 DEF SortedByWhen
    <3>4. at[q[Len(q)]] \in Nat /\ at[q[j]] \in Nat /\ at[t] \in Nat
      BY <1>0, <2>3, <3>1
    <3>5. at[q[Len(q)]] <= at[t]
      BY <1>2, <3>1, <3>4
    <3> QED BY <3>3, <3>4, <3>5
  <2>4. i..Len(q) = {} /\ 1..(i - 1) = 1..Len(q)
    BY <1>0
  <2> HIDE DEF i
  <2> QED BY <2>1, <2>2, <2>3, <2>4, InsertedSorted
<1> QED BY <1>1, <1>2

\* task_queue_remove takes t, and nothing else, out of a list without duplicates.
LEMMA RemoveProperties ==
  ASSUME NEW S, NEW q \in Seq(S), NEW t \in Members(q), NoDuplicates(q)
  PROVE  /\ task_queue_remove(q, t) \in Seq(S)
         /\ Members(task_queue_remove(q, t)) = Members(q) \ {t}
         /\ NoDuplicates(task_queue_remove(q, t))
<1> DEFINE i == PosOf(q, t)
           r == task_queue_remove(q, t)
<1>1. i \in 1..Len(q) /\ q[i] = t
  BY DEF PosOf, Members
<1> HIDE DEF i
<1>2. /\ r \in Seq(S) /\ Len(r) = Len(q) - 1
      /\ \A j \in 1..(Len(q) - 1) : r[j] = IF j < i THEN q[j] ELSE q[j + 1]
  BY <1>1, RemoveAtElements DEF task_queue_remove, i
<1> HIDE DEF r
<1>3. Members(r) = Members(q) \ {t}
  <2>1. Members(r) \subseteq Members(q) \ {t}
    BY <1>1, <1>2, SMT DEF Members, NoDuplicates
  <2>2. ASSUME NEW j \in 1..Len(q), q[j] # t
        PROVE  q[j] \in Members(r)
    <3>1. CASE j < i
      <4>1. j \in 1..Len(r) /\ r[j] = q[j]
        BY <1>1, <1>2, <3>1, SMT
      <4> QED BY <4>1 DEF Members
    <3>2. CASE j > i
      <4>1. j - 1 \in 1..Len(r) /\ r[j - 1] = q[j]
        BY <1>1, <1>2, <3>2, SMT
      <4> QED BY <4>1 DEF Members
    <3> QED BY <1>1, <2>2, <3>1, <3>2, SMT
  <2> QED BY <2>1, <2>2 DEF Members
<1>4. NoDuplicates(r)
  BY <1>1, <1>2, SMT DEF NoDuplicates
<1> QED BY <1>2, <1>3, <1>4 DEF r

\* Taking a task out of a sorted list leaves it sorted.
LEMMA RemoveSorted ==
  ASSUME NEW S, NEW q \in Seq(S), NEW t \in Members(q), NEW at \in [S -> Nat],
         SortedByWhen(q, at)
  PROVE  SortedByWhen(task_queue_remove(q, t), at)
<1> DEFINE i == PosOf(q, t)
           r == task_queue_remove(q, t)
           m(l) == IF l < i THEN l ELSE l + 1
<1>1. i \in 1..Len(q)
  BY DEF PosOf, Members
<1>2. /\ Len(r) = Len(q) - 1
      /\ \A j \in 1..(Len(q) - 1) : r[j] = IF j < i THEN q[j] ELSE q[j + 1]
  BY <1>1, RemoveAtElements DEF task_queue_remove
<1> HIDE DEF i, r
<1>3. \A j \in 1..(Len(q) - 1) : m(j) \in 1..Len(q) /\ r[j] = q[m(j)]
  BY <1>1, <1>2, SMTT(40)
<1>4. \A j, k \in 1..(Len(q) - 1) : j < k => m(j) < m(k)
  BY <1>1
<1> HIDE DEF m
<1>5. ASSUME NEW j \in 1..(Len(q) - 1), NEW k \in 1..(Len(q) - 1), j < k
      PROVE  at[r[j]] <= at[r[k]]
  BY <1>3, <1>4, <1>5 DEF SortedByWhen
<1>6. SortedByWhen(r, at)
  BY <1>2, <1>5 DEF SortedByWhen
<1> QED BY <1>6 DEF r

\* Removing a task leaves a list of the same tasks.
LEMMA RemoveType ==
  ASSUME NEW S, NEW q \in Seq(S), NEW t \in Members(q)
  PROVE  task_queue_remove(q, t) \in Seq(S)
<1>1. PosOf(q, t) \in 1..Len(q)
  BY DEF PosOf, Members
<1> QED BY <1>1, RemoveAtElements DEF task_queue_remove

\* task_queue_get takes the first task, and nothing else, out of a list.
LEMMA GetProperties ==
  ASSUME NEW S, NEW q \in Seq(S), q # <<>>, NoDuplicates(q)
  PROVE  /\ Head(q) \in Members(q)
         /\ Tail(q) \in Seq(S)
         /\ Members(Tail(q)) = Members(q) \ {Head(q)}
         /\ NoDuplicates(Tail(q))
<1> DEFINE r == Tail(q)
<1>1. /\ Len(q) \in Nat \ {0} /\ Head(q) = q[1]
      /\ r \in Seq(S) /\ Len(r) = Len(q) - 1
      /\ \A j \in 1..(Len(q) - 1) : r[j] = q[j + 1]
  BY EmptySeq, HeadTailProperties, SMT
<1> HIDE DEF r
<1>2. Members(r) = Members(q) \ {q[1]}
  <2>1. Members(r) \subseteq Members(q) \ {q[1]}
    BY <1>1, SMT DEF Members, NoDuplicates
  <2>2. ASSUME NEW j \in 1..Len(q), q[j] # q[1]
        PROVE  q[j] \in Members(r)
    <3>1. j - 1 \in 1..Len(r) /\ r[j - 1] = q[j]
      BY <1>1, <2>2, SMT
    <3> QED BY <3>1 DEF Members
  <2> QED BY <2>1, <2>2 DEF Members
<1>3. NoDuplicates(r)
  BY <1>1, SMT DEF NoDuplicates
<1>4. q[1] \in Members(q)
  BY <1>1, 1 \in 1..Len(q), SMT DEF Members
<1> QED BY <1>1, <1>2, <1>3, <1>4 DEF r

\* The rest of a list has no other tasks.
LEMMA TailMembers ==
  ASSUME NEW S, NEW q \in Seq(S), q # <<>>
  PROVE  Members(Tail(q)) \subseteq Members(q)
<1> DEFINE r == Tail(q)
<1>1. /\ Len(q) \in Nat /\ Len(r) = Len(q) - 1
      /\ \A j \in 1..(Len(q) - 1) : r[j] = q[j + 1]
  BY EmptySeq, HeadTailProperties, SMT
<1> HIDE DEF r
<1> QED BY <1>1, SMT DEF Members, r

\* Reversing a list keeps its tasks.
LEMMA ReverseTasks ==
  ASSUME NEW S, NEW q \in Seq(S), NoDuplicates(q)
  PROVE  /\ Reverse(q) \in Seq(S)
         /\ Members(Reverse(q)) = Members(q)
         /\ NoDuplicates(Reverse(q))
<1> DEFINE r == Reverse(q)
<1>1. /\ r \in Seq(S) /\ Len(r) = Len(q)
      /\ \A j \in 1..Len(q) : r[j] = q[Len(q) - j + 1]
  BY SMT DEF Reverse
<1> HIDE DEF r
<1>2. Members(r) = Members(q)
  <2>1. Members(r) \subseteq Members(q)
    BY <1>1, SMT DEF Members
  <2>2. ASSUME NEW j \in 1..Len(q)
        PROVE  q[j] \in Members(r)
    <3>1. Len(q) - j + 1 \in 1..Len(r) /\ r[Len(q) - j + 1] = q[j]
      BY <1>1, SMT
    <3> QED BY <3>1 DEF Members
  <2> QED BY <2>1, <2>2 DEF Members
<1>3. NoDuplicates(r)
  <2>1. SUFFICES ASSUME NEW j \in 1..Len(q), NEW k \in 1..Len(q), r[j] = r[k]
                 PROVE  j = k
    BY <1>1 DEF NoDuplicates
  <2>2. /\ Len(q) - j + 1 \in 1..Len(q) /\ Len(q) - k + 1 \in 1..Len(q)
        /\ q[Len(q) - j + 1] = q[Len(q) - k + 1]
    BY <1>1, <2>1, SMT
  <2>3. Len(q) - j + 1 = Len(q) - k + 1
    BY <2>2 DEF NoDuplicates
  <2> QED BY <2>3, SMT
<1> QED BY <1>1, <1>2, <1>3 DEF r

(***************************************************************************)
(* The inductive invariant.                                                *)
(***************************************************************************)
USE DEF Main, Worker, Nobody

\* What can be taken from, put into and asked of the lists is a task.
LEMMA ListFacts ==
  ASSUME IInv
  PROVE  /\ \A t \in Tasks : /\ task_queue_put(running, t, when) \in Seq(Tasks)
                             /\ task_queue_put(finished, t, when) \in Seq(Tasks)
                             /\ Append(unbegun, t) \in Seq(Tasks)
                             /\ <<t>> \in Seq(Tasks)
         /\ \A t \in Members(running) :
              /\ t \in Tasks
              /\ task_queue_remove(running, t) \in Seq(Tasks)
              /\ task_queue_put(task_queue_remove(running, t), t, when) \in Seq(Tasks)
         /\ \A t \in Members(unbegun) : task_queue_remove(unbegun, t) \in Seq(Tasks)
         /\ running # <<>> => Head(running) \in Members(running)
         /\ finished # <<>> => Head(finished) \in Tasks /\ Tail(finished) \in Seq(Tasks)
         /\ batch # <<>> => Head(batch) \in Tasks /\ Tail(batch) \in Seq(Tasks)
         /\ todo # <<>> => Head(todo) \in Tasks /\ Tail(todo) \in Seq(Tasks)
         /\ Reverse(running) \in Seq(Tasks)
<1> USE DEF IInv, TypeOK, ListsOK, PropsOK, PcOK, LocalsOK
<1>1. \A t \in Tasks : /\ task_queue_put(running, t, when) \in Seq(Tasks)
                       /\ task_queue_put(finished, t, when) \in Seq(Tasks)
                       /\ Append(unbegun, t) \in Seq(Tasks)
                       /\ <<t>> \in Seq(Tasks)
  BY PutProperties
<1>2. \A t \in Members(running) : t \in Tasks /\ task_queue_remove(running, t) \in Seq(Tasks)
  BY RemoveType DEF Members
<1>3. \A t \in Members(running) :
        task_queue_put(task_queue_remove(running, t), t, when) \in Seq(Tasks)
  BY <1>2, PutProperties
<1>4. \A t \in Members(unbegun) : task_queue_remove(unbegun, t) \in Seq(Tasks)
  BY RemoveType
<1>5. running # <<>> => Head(running) \in Members(running)
  BY GetProperties DEF EveryTaskInOnePlace
<1>6. /\ finished # <<>> => Head(finished) \in Tasks /\ Tail(finished) \in Seq(Tasks)
      /\ batch # <<>> => Head(batch) \in Tasks /\ Tail(batch) \in Seq(Tasks)
      /\ todo # <<>> => Head(todo) \in Tasks /\ Tail(todo) \in Seq(Tasks)
  BY EmptySeq, HeadTailProperties, SMT
<1>7. Reverse(running) \in Seq(Tasks)
  BY ReverseTasks DEF EveryTaskInOnePlace
<1> QED BY <1>1, <1>2, <1>3, <1>4, <1>5, <1>6, <1>7


\* What a thread has in hand is a task, and where the worker's is.
LEMMA InHand ==
  ASSUME IInv
  PROVE  /\ \A th \in Threads : pc[th] \in {"handler", "set_flags"} => cur[th] \in Tasks
         /\ \A th \in Threads : pc[th] = "put" => arg[th] \in Tasks
         /\ pc[Main] \in {"rebuild", "callback"} => cur[Main] \in Tasks
         /\ WorkerHas => cur[Worker] \in Members(running)
         /\ pc[Worker] = "put_finished" => cur[Worker] \in Tasks
BY DEF IInv, TypeOK, ListsOK, PropsOK, PcOK, LocalsOK, Control, EveryTaskInOnePlace, Threads, InHandler, WorkerHas, MainHas


\* The types, one part at a time.
LEMMA ListsTyped ==
  ASSUME IInv, [Next]_vars
  PROVE  ListsOK'
<1> USE TaskQueueAssumption, ListFacts, InHand DEF IInv, TypeOK, ListsOK, lists, props, history, mode, sleep, threads
<1>1. CASE \E th \in Threads, t \in Tasks : PushCheck(th, t)
  BY <1>1 DEF PushCheck
<1>2. CASE \E th \in Threads : PushRunning(th)
  BY <1>2 DEF PushRunning, At
<1>3. CASE \E th \in Threads : Handler(th)
  BY <1>3 DEF Handler, HandlerYields, HandlerReschedules, HandlerReadsFlags, HandlerSetsFinished,
     At, AfterHandler
<1>4. CASE WorkerStep
  <2>1. CASE WorkerExits
    BY <2>1 DEF WorkerExits, At
  <2>2. CASE WorkerSleeps
    BY <2>2 DEF WorkerSleeps, At
  <2>3. CASE WorkerTimesOut
    BY <2>3 DEF WorkerTimesOut
  <2>4. CASE WorkerWakes
    BY <2>4 DEF WorkerWakes, At
  <2>5. CASE WorkerStarts
    BY <2>5 DEF WorkerStarts, Begin, At
  <2>6. CASE WorkerReadsFlags
    BY <2>6 DEF WorkerReadsFlags, At
  <2>7. CASE WorkerRequeues
    BY <2>7 DEF WorkerRequeues, At, WorkerHas
  <2>8. CASE WorkerRemoves
    BY <2>8 DEF WorkerRemoves, At, WorkerHas
  <2>9. CASE WorkerPutsFinished
    BY <2>9 DEF WorkerPutsFinished, At
  <2> QED BY <1>4, <2>1, <2>2, <2>3, <2>4, <2>5, <2>6, <2>7, <2>8, <2>9 DEF WorkerStep
<1>5. CASE SwitchStep
  BY <1>5 DEF SwitchStep, DeinitStops, DeinitJoins, TaskQueueInit, At
<1>6. CASE GatherStep
  <2>1. CASE GatherLocks
    BY <2>1 DEF GatherLocks, At
  <2>2. CASE GatherReports
    BY <2>2 DEF GatherReports, At
  <2>3. CASE GatherUnlocks
    BY <2>3 DEF GatherUnlocks, At
  <2>4. CASE CollectLocks
    BY <2>4 DEF CollectLocks, At
  <2>5. CASE Collect
    BY <2>5 DEF Collect, At
  <2>6. CASE CallbackReturns
    BY <2>6 DEF CallbackReturns, At
  <2>7. CASE CollectEnds
    BY <2>7 DEF CollectEnds, At
  <2>8. CASE BatchTakes
    BY <2>8 DEF BatchTakes, At
  <2>9. CASE BatchStarts
    BY <2>9 DEF BatchStarts, Begin, At
  <2>10. CASE BatchPuts
    BY <2>10 DEF BatchPuts, PutBack, At
  <2>11. CASE BatchSkips
    BY <2>11 DEF BatchSkips, PutBack, At
  <2>12. CASE BatchEnds
    BY <2>12 DEF BatchEnds, At
  <2> QED BY <1>6, <2>1, <2>2, <2>3, <2>4, <2>5, <2>6, <2>7, <2>8, <2>9, <2>10, <2>11, <2>12 DEF GatherStep
<1>7. CASE WaitStep
  BY <1>7 DEF WaitStep, WaitLooksAtRunning, WaitLooksAtFinished, WaitRegular, At
<1>8. CASE CancelStep
  <2>1. CASE CancelReadsFlags
    BY <2>1 DEF CancelReadsFlags, At
  <2>2. CASE CancelSetsCancelled
    BY <2>2 DEF CancelSetsCancelled, At, Control
  <2>3. CASE CancelEnds
    BY <2>3 DEF CancelEnds, At
  <2> QED BY <1>8, <2>1, <2>2, <2>3 DEF CancelStep
<1>9. CASE FrameLoop
  <2>1. CASE Check
    BY <2>1 DEF Check, At
  <2>2. CASE SetThreaded
    BY <2>2 DEF SetThreaded, At
  <2>3. CASE InitTaskQueue
    BY <2>3 DEF InitTaskQueue, At
  <2>4. CASE Wait
    BY <2>4 DEF Wait, At
  <2>5. CASE Reset
    BY <2>5 DEF Reset, At
  <2>6. CASE \E t \in Tasks : Cancel(t)
    <3>1. PICK t \in Tasks : Cancel(t)
      BY <2>6
    <3>2. todo' = <<t>> \/ todo' = <<>>
      BY <3>1 DEF Cancel
    <3>3. todo' \in Seq(Tasks)
      <4>1. <<t>> \in Seq(Tasks) /\ <<>> \in Seq(Tasks)
        OBVIOUS
      <4> QED BY <3>2, <4>1
    <3> QED BY <3>1, <3>3 DEF Cancel
  <2> QED BY <1>9, <2>1, <2>2, <2>3, <2>4, <2>5, <2>6 DEF FrameLoop
<1>10. CASE Tick
  BY <1>10 DEF Tick
<1>11. CASE UNCHANGED vars
  BY <1>11 DEF vars
<1> QED
  BY <1>1, <1>2, <1>3, <1>4, <1>5, <1>6, <1>7, <1>8, <1>9, <1>10, <1>11 DEF Next, Push

\* The progress, flags and times of the tasks keep their types.
LEMMA PropsTyped ==
  ASSUME IInv, [Next]_vars
  PROVE  PropsOK'
<1> USE TaskQueueAssumption, ListFacts, InHand DEF IInv, TypeOK, PropsOK, lists, props, history, mode, sleep, threads
<1>1. CASE \E th \in Threads, t \in Tasks : PushCheck(th, t)
  <2> PICK th \in Threads, t \in Tasks : PushCheck(th, t)
    BY <1>1
  <2>1. PICK w \in {0} \cup Later : when' = [when EXCEPT ![t] = w]
    BY DEF PushCheck
  <2>2. w \in Nat
    <3>1. now \in Nat /\ Delays \subseteq Nat
      BY DEF ModeOK
    <3> QED BY ONLY <2>1, <3>1 DEF Later
  <2> QED BY <2>1, <2>2 DEF PushCheck
<1>2. CASE \E th \in Threads : PushRunning(th)
  <2> PICK th \in Threads : PushRunning(th)
    BY <1>2
  <2>1. arg[th] \in Tasks
    BY DEF PushRunning, At
  <2>2. life' = [life EXCEPT ![arg[th]] = "pushed"] /\ UNCHANGED <<flags, when, done>>
    BY DEF PushRunning
  <2> QED BY <2>1, <2>2
<1>3. CASE \E th \in Threads : Handler(th)
  <2> PICK th \in Threads : Handler(th)
    BY <1>3
  <2>1. CASE HandlerYields(th)
    BY <2>1 DEF HandlerYields, At, Flags, Later
  <2>2. CASE HandlerReschedules(th)
    <3>1. PICK w \in Later : when' = [when EXCEPT ![cur[th]] = w]
      BY <2>2 DEF HandlerReschedules
    <3>2. w \in Nat
      BY <3>1 DEF Later, ModeOK
    <3> QED BY <2>2, <3>1, <3>2 DEF HandlerReschedules
  <2>3. CASE HandlerReadsFlags(th)
    BY <2>3 DEF HandlerReadsFlags, At, Flags, Later
  <2>4. CASE HandlerSetsFinished(th)
    BY <2>4 DEF HandlerSetsFinished, At, LocalsOK, Flags
  <2> QED BY <2>1, <2>2, <2>3, <2>4 DEF Handler
<1>4. CASE WorkerStep
  BY <1>4 DEF WorkerStep, WorkerExits, WorkerSleeps, WorkerTimesOut, WorkerWakes, WorkerStarts,
     WorkerReadsFlags, WorkerRequeues, WorkerRemoves, WorkerPutsFinished, At, Flags,
     Later
<1>5. CASE SwitchStep
  BY <1>5 DEF SwitchStep, DeinitStops, DeinitJoins, TaskQueueInit, At, Flags, Later
<1>6. CASE GatherStep
  BY <1>6 DEF GatherStep, GatherLocks, GatherReports, GatherUnlocks, CollectLocks, Collect,
     CallbackReturns, CollectEnds, BatchTakes, BatchStarts, BatchPuts, BatchSkips,
     BatchEnds, At, Flags, Later
<1>7. CASE WaitStep
  BY <1>7 DEF WaitStep, WaitLooksAtRunning, WaitLooksAtFinished, WaitRegular, At, Flags, Later
<1>8. CASE CancelStep
  <2>1. CASE CancelReadsFlags
    BY <2>1 DEF CancelReadsFlags, At, Flags, Later
  <2>2. CASE CancelSetsCancelled
    BY <2>2 DEF CancelSetsCancelled, LocalsOK, Control, Flags, Threads
  <2>3. CASE CancelEnds
    BY <2>3 DEF CancelEnds, At, Flags, Later
  <2> QED BY <1>8, <2>1, <2>2, <2>3 DEF CancelStep
<1>9. CASE FrameLoop
  BY <1>9 DEF FrameLoop, Check, SetThreaded, InitTaskQueue, Wait, Reset, Cancel, At, Flags, Later
<1>10. CASE Tick
  BY <1>10 DEF Tick, Flags, Later
<1>11. CASE UNCHANGED vars
  BY <1>11 DEF vars
<1> QED
  BY <1>1, <1>2, <1>3, <1>4, <1>5, <1>6, <1>7, <1>8, <1>9, <1>10, <1>11 DEF Next, Push

\* The mode and what was last asked of it keep their types.
LEMMA ModeTyped ==
  ASSUME IInv, [Next]_vars
  PROVE  ModeOK'
<1> USE TaskQueueAssumption, ListFacts, InHand DEF IInv, TypeOK, ModeOK, lists, props, history, mode, sleep, threads
<1>1. CASE \E th \in Threads, t \in Tasks : PushCheck(th, t)
  BY <1>1 DEF PushCheck, Later
<1>2. CASE \E th \in Threads : PushRunning(th)
  BY <1>2 DEF PushRunning, Signal, Later
<1>3. CASE \E th \in Threads : Handler(th)
  BY <1>3 DEF Handler, HandlerYields, HandlerReschedules, HandlerReadsFlags, HandlerSetsFinished,
     Later
<1>4. CASE WorkerStep
  <2>1. CASE WorkerExits
    BY <2>1 DEF WorkerExits, Later
  <2>2. CASE WorkerSleeps
    <3>1. ASSUME running # <<>>, NotDue
          PROVE  now + Delay \in Nat
      <4>1. when[Head(running)] \in Nat
        BY <3>1 DEF PropsOK
      <4>2. now \in Nat /\ Slack \in Nat
        OBVIOUS
      <4> HIDE DEF ModeOK
      <4> QED BY <3>1, <4>1, <4>2 DEF NotDue, Delay
    <3> QED BY <2>2, <3>1 DEF WorkerSleeps
  <2>3. CASE WorkerTimesOut
    BY <2>3 DEF WorkerTimesOut, Later
  <2>4. CASE WorkerWakes
    BY <2>4 DEF WorkerWakes, Later
  <2>5. CASE WorkerStarts
    BY <2>5 DEF WorkerStarts, Delay, NotDue, Later
  <2>6. CASE WorkerReadsFlags
    BY <2>6 DEF WorkerReadsFlags, Later
  <2>7. CASE WorkerRequeues
    BY <2>7 DEF WorkerRequeues, Signal, Later
  <2>8. CASE WorkerRemoves
    BY <2>8 DEF WorkerRemoves, Later
  <2>9. CASE WorkerPutsFinished
    BY <2>9 DEF WorkerPutsFinished, Later
  <2> QED BY <1>4, <2>1, <2>2, <2>3, <2>4, <2>5, <2>6, <2>7, <2>8, <2>9 DEF WorkerStep
<1>5. CASE SwitchStep
  BY <1>5 DEF SwitchStep, DeinitStops, DeinitJoins, TaskQueueInit, Signal, Later
<1>6. CASE GatherStep
  BY <1>6 DEF GatherStep, GatherLocks, GatherReports, GatherUnlocks, CollectLocks, Collect,
     CallbackReturns, CollectEnds, BatchTakes, BatchStarts, BatchPuts, BatchSkips,
     BatchEnds, Later
<1>7. CASE WaitStep
  BY <1>7 DEF WaitStep, WaitLooksAtRunning, WaitLooksAtFinished, WaitRegular, Condition,
     WaitReturns, Later
<1>8. CASE CancelStep
  BY <1>8 DEF CancelStep, CancelReadsFlags, CancelSetsCancelled, CancelEnds, Later
<1>9. CASE FrameLoop
  <2>1. CASE Check
    BY <2>1 DEF Check, Later
  <2>2. CASE SetThreaded
    BY <2>2 DEF SetThreaded, Later
  <2>3. CASE InitTaskQueue
    BY <2>3 DEF InitTaskQueue, Later
  <2>4. CASE Wait
    BY <2>4 DEF Wait, Later
  <2>5. CASE Reset
    BY <2>5 DEF Reset, Later
  <2>6. CASE \E t \in Tasks : Cancel(t)
    BY <2>6 DEF Cancel, Later
  <2> QED BY <1>9, <2>1, <2>2, <2>3, <2>4, <2>5, <2>6 DEF FrameLoop
<1>10. CASE Tick
  BY <1>10 DEF Tick, Later
<1>11. CASE UNCHANGED vars
  BY <1>11 DEF vars
<1> QED
  BY <1>1, <1>2, <1>3, <1>4, <1>5, <1>6, <1>7, <1>8, <1>9, <1>10, <1>11 DEF Next, Push

\* A thread that goes to a place of its own is at one.
LEMMA MainGoes ==
  ASSUME PcOK, NEW l \in MainLabels, Goto(Main, l)
  PROVE  PcOK'
BY DEF PcOK, Goto, Threads

\* The same for the worker.
LEMMA WorkerGoes ==
  ASSUME PcOK, NEW l \in WorkerLabels, Goto(Worker, l)
  PROVE  PcOK'
BY DEF PcOK, Goto, Threads

\* Every step leads each thread to one of its own places.
LEMMA PcTyped ==
  ASSUME IInv, [Next]_vars
  PROVE  PcOK'
<1> USE MainGoes, WorkerGoes DEF IInv, TypeOK, MainLabels, WorkerLabels
<1>1. CASE \E th \in Threads, t \in Tasks : PushCheck(th, t)
  BY <1>1 DEF PushCheck, Threads
<1>2. CASE \E th \in Threads : PushRunning(th)
  <2>1. CASE PushRunning(Main)
    <3>1. Goto(Main, Pusher[arg[Main]]) /\ Pusher[arg[Main]] \in MainLabels
      BY <2>1, InHand, TaskQueueAssumption DEF PushRunning, At, Threads, Contexts
    <3> QED BY <3>1
  <2>2. CASE PushRunning(Worker)
    <3>1. Goto(Worker, "handler")
      BY <2>2 DEF PushRunning, At, Control
    <3> QED BY <3>1
  <2> QED BY <1>2, <2>1, <2>2 DEF Threads
<1>3. CASE \E th \in Threads : Handler(th)
  <2>1. CASE Handler(Main)
    <3>1. Goto(Main, "rebuild") \/ Goto(Main, "set_flags")
      BY <2>1 DEF Handler, HandlerYields, HandlerReschedules, HandlerReadsFlags,
         HandlerSetsFinished, AfterHandler
    <3> QED BY <3>1
  <2>2. CASE Handler(Worker)
    <3>1. Goto(Worker, "read_flags") \/ Goto(Worker, "set_flags")
      BY <2>2 DEF Handler, HandlerYields, HandlerReschedules, HandlerReadsFlags,
         HandlerSetsFinished, AfterHandler
    <3> QED BY <3>1
  <2> QED BY <1>3, <2>1, <2>2 DEF Threads
<1>4. CASE WorkerStep
  <2>1. CASE WorkerExits
    BY <2>1 DEF WorkerExits
  <2>2. CASE WorkerSleeps
    BY <2>2 DEF WorkerSleeps
  <2>3. CASE WorkerTimesOut
    BY <2>3 DEF WorkerTimesOut, PcOK
  <2>4. CASE WorkerWakes
    BY <2>4 DEF WorkerWakes
  <2>5. CASE WorkerStarts
    BY <2>5 DEF WorkerStarts
  <2>6. CASE WorkerReadsFlags
    BY <2>6 DEF WorkerReadsFlags
  <2>7. CASE WorkerRequeues
    BY <2>7 DEF WorkerRequeues
  <2>8. CASE WorkerRemoves
    BY <2>8 DEF WorkerRemoves
  <2>9. CASE WorkerPutsFinished
    BY <2>9 DEF WorkerPutsFinished
  <2> QED BY <1>4, <2>1, <2>2, <2>3, <2>4, <2>5, <2>6, <2>7, <2>8, <2>9 DEF WorkerStep
<1>5. CASE SwitchStep
  <2>1. CASE DeinitStops
    BY <2>1 DEF DeinitStops
  <2>2. CASE DeinitJoins
    BY <2>2 DEF DeinitJoins
  <2>3. CASE TaskQueueInit
    BY <2>3 DEF TaskQueueInit, PcOK, Threads
  <2> QED BY <1>5, <2>1, <2>2, <2>3 DEF SwitchStep
<1>6. CASE GatherStep
  <2>1. CASE GatherLocks
    BY <2>1 DEF GatherLocks
  <2>2. CASE GatherReports
    BY <2>2 DEF GatherReports, PcOK
  <2>3. CASE GatherUnlocks
    BY <2>3 DEF GatherUnlocks
  <2>4. CASE CollectLocks
    BY <2>4 DEF CollectLocks
  <2>5. CASE Collect
    BY <2>5 DEF Collect
  <2>6. CASE CallbackReturns
    BY <2>6 DEF CallbackReturns
  <2>7. CASE CollectEnds
    BY <2>7 DEF CollectEnds
  <2>8. CASE BatchTakes
    BY <2>8 DEF BatchTakes
  <2>9. CASE BatchStarts
    BY <2>9 DEF BatchStarts
  <2>10. CASE BatchPuts
    BY <2>10 DEF BatchPuts
  <2>11. CASE BatchSkips
    BY <2>11 DEF BatchSkips, PcOK
  <2>12. CASE BatchEnds
    BY <2>12 DEF BatchEnds
  <2> QED BY <1>6, <2>1, <2>2, <2>3, <2>4, <2>5, <2>6, <2>7, <2>8, <2>9, <2>10, <2>11, <2>12 DEF GatherStep
<1>7. CASE WaitStep
  <2>1. CASE WaitLooksAtRunning
    BY <2>1 DEF WaitLooksAtRunning, Condition
  <2>2. CASE WaitLooksAtFinished
    BY <2>2 DEF WaitLooksAtFinished, Condition, WaitReturns
  <2>3. CASE WaitRegular
    BY <2>3 DEF WaitRegular, Condition, WaitReturns
  <2> QED BY <1>7, <2>1, <2>2, <2>3 DEF WaitStep
<1>8. CASE CancelStep
  <2>1. CASE CancelReadsFlags
    BY <2>1 DEF CancelReadsFlags
  <2>2. CASE CancelSetsCancelled
    BY <2>2 DEF CancelSetsCancelled
  <2>3. CASE CancelEnds
    BY <2>3 DEF CancelEnds
  <2> QED BY <1>8, <2>1, <2>2, <2>3 DEF CancelStep
<1>9. CASE FrameLoop
  <2>1. CASE Check
    BY <2>1 DEF Check
  <2>2. CASE SetThreaded
    BY <2>2 DEF SetThreaded, PcOK
  <2>3. CASE InitTaskQueue
    BY <2>3 DEF InitTaskQueue
  <2>4. CASE Wait
    BY <2>4 DEF Wait
  <2>5. CASE Reset
    BY <2>5 DEF Reset
  <2>6. CASE \E t \in Tasks : Cancel(t)
    BY <2>6 DEF Cancel
  <2> QED BY <1>9, <2>1, <2>2, <2>3, <2>4, <2>5, <2>6 DEF FrameLoop
<1>10. CASE Tick \/ UNCHANGED vars
  BY <1>10 DEF Tick, vars, PcOK
<1> QED
  BY <1>1, <1>2, <1>3, <1>4, <1>5, <1>6, <1>7, <1>8, <1>9, <1>10 DEF Next, Push

\* What a thread has in hand, and who owns a lock, keeps its type.
LEMMA LocalsTyped ==
  ASSUME IInv, [Next]_vars
  PROVE  LocalsOK'
<1> USE TaskQueueAssumption, ListFacts, InHand DEF IInv, TypeOK, LocalsOK, Threads, threads
<1>1. CASE \E th \in Threads, t \in Tasks : PushCheck(th, t)
  <2> PICK th \in Threads, t \in Tasks : PushCheck(th, t)
    BY <1>1
  <2> QED BY DEF PushCheck
<1>2. CASE \E th \in Threads : PushRunning(th)
  BY <1>2, ZenonT(40) DEF PushRunning
<1>3. CASE \E th \in Threads : Handler(th)
  <2> PICK th \in Threads : Handler(th)
    BY <1>3
  <2>1. CASE HandlerYields(th)
    BY <2>1 DEF HandlerYields
  <2>2. CASE HandlerReschedules(th)
    BY <2>2 DEF HandlerReschedules
  <2>3. CASE HandlerReadsFlags(th)
    BY <2>3, ZenonT(40) DEF HandlerReadsFlags, At, Acquire, Locks, PropsOK
  <2>4. CASE HandlerSetsFinished(th)
    BY <2>4 DEF HandlerSetsFinished, Release, Locks
  <2> QED BY <1>3, <2>1, <2>2, <2>3, <2>4 DEF Handler
<1>4. CASE WorkerStep
  <2>1. CASE WorkerExits
    BY <2>1 DEF WorkerExits
  <2>2. CASE WorkerSleeps
    BY <2>2 DEF WorkerSleeps
  <2>3. CASE WorkerTimesOut
    BY <2>3 DEF WorkerTimesOut
  <2>4. CASE WorkerWakes
    BY <2>4 DEF WorkerWakes
  <2>5. CASE WorkerStarts
    BY <2>5 DEF WorkerStarts
  <2>6. CASE WorkerReadsFlags
    BY <2>6 DEF WorkerReadsFlags
  <2>7. CASE WorkerRequeues
    BY <2>7 DEF WorkerRequeues
  <2>8. CASE WorkerRemoves
    BY <2>8 DEF WorkerRemoves
  <2>9. CASE WorkerPutsFinished
    BY <2>9 DEF WorkerPutsFinished
  <2> QED BY <1>4, <2>1, <2>2, <2>3, <2>4, <2>5, <2>6, <2>7, <2>8, <2>9 DEF WorkerStep
<1>5. CASE SwitchStep
  <2>1. CASE DeinitStops
    BY <2>1 DEF DeinitStops
  <2>2. CASE DeinitJoins
    BY <2>2 DEF DeinitJoins
  <2>3. CASE TaskQueueInit
    BY <2>3 DEF TaskQueueInit
  <2> QED BY <1>5, <2>1, <2>2, <2>3 DEF SwitchStep
<1>6. CASE GatherStep
  <2>1. CASE GatherLocks
    BY <2>1 DEF GatherLocks, Acquire, Locks
  <2>2. CASE GatherReports
    BY <2>2 DEF GatherReports
  <2>3. CASE GatherUnlocks
    BY <2>3 DEF GatherUnlocks, Release, Locks
  <2>4. CASE CollectLocks
    BY <2>4 DEF CollectLocks, Acquire, Locks
  <2>5. CASE Collect
    BY <2>5 DEF Collect
  <2>6. CASE CallbackReturns
    BY <2>6 DEF CallbackReturns
  <2>7. CASE CollectEnds
    BY <2>7 DEF CollectEnds, Release, Locks
  <2>8. CASE BatchTakes
    BY <2>8 DEF BatchTakes
  <2>9. CASE BatchStarts
    BY <2>9 DEF BatchStarts
  <2>10. CASE BatchPuts
    BY <2>10 DEF BatchPuts
  <2>11. CASE BatchSkips
    BY <2>11 DEF BatchSkips
  <2>12. CASE BatchEnds
    BY <2>12 DEF BatchEnds
  <2> QED BY <1>6, <2>1, <2>2, <2>3, <2>4, <2>5, <2>6, <2>7, <2>8, <2>9, <2>10, <2>11, <2>12 DEF GatherStep
<1>7. CASE WaitStep
  <2>1. CASE WaitLooksAtRunning
    BY <2>1 DEF WaitLooksAtRunning
  <2>2. CASE WaitLooksAtFinished
    BY <2>2 DEF WaitLooksAtFinished
  <2>3. CASE WaitRegular
    BY <2>3 DEF WaitRegular
  <2> QED BY <1>7, <2>1, <2>2, <2>3 DEF WaitStep
<1>8. CASE CancelStep
  <2>1. CASE CancelReadsFlags
    BY <2>1 DEF CancelReadsFlags, PropsOK
  <2>2. CASE CancelSetsCancelled
    BY <2>2 DEF CancelSetsCancelled
  <2>3. CASE CancelEnds
    BY <2>3 DEF CancelEnds, Release, Locks
  <2> QED BY <1>8, <2>1, <2>2, <2>3 DEF CancelStep
<1>9. CASE FrameLoop
  <2>1. CASE Check
    BY <2>1 DEF Check
  <2>2. CASE SetThreaded
    BY <2>2 DEF SetThreaded
  <2>3. CASE InitTaskQueue
    BY <2>3 DEF InitTaskQueue
  <2>4. CASE Wait
    BY <2>4 DEF Wait
  <2>5. CASE Reset
    BY <2>5 DEF Reset, Acquire, Locks
  <2>6. CASE \E t \in Tasks : Cancel(t)
    BY <2>6 DEF Cancel, Acquire, Locks
  <2> QED BY <1>9, <2>1, <2>2, <2>3, <2>4, <2>5, <2>6 DEF FrameLoop
<1>10. CASE Tick \/ UNCHANGED vars
  BY <1>10 DEF Tick, vars
<1> QED
  BY <1>1, <1>2, <1>3, <1>4, <1>5, <1>6, <1>7, <1>8, <1>9, <1>10 DEF Next, Push

\* The types are kept.
LEMMA TypePreserved ==
  ASSUME IInv, [Next]_vars
  PROVE  TypeOK'
BY ListsTyped, PropsTyped, ModeTyped, PcTyped, LocalsTyped DEF TypeOK
\* The program counters agree with what each thread holds.
LEMMA ControlPreserved ==
  ASSUME IInv, [Next]_vars
  PROVE  Control'
<1> USE TaskQueueAssumption, ListFacts, InHand DEF IInv, TypeOK, Control, Threads, InHandler, WorkerHas, MainHas, lists, props, mode, sleep, threads
<1>1. CASE \E th \in Threads, t \in Tasks : PushCheck(th, t)
  <2> PICK th \in Threads, t \in Tasks : PushCheck(th, t)
    BY <1>1
  <2>1. CASE th = Main
    BY <2>1 DEF PushCheck, Goto, Contexts, PcOK, LocalsOK, PropsOK
  <2>2. CASE th = Worker
    BY SMTT(30), <2>2 DEF PushCheck, Goto, Contexts, PcOK, LocalsOK, PropsOK, WorkerLabels
  <2> QED BY <2>1, <2>2
<1>2. CASE \E th \in Threads : PushRunning(th)
  <2> PICK th \in Threads : PushRunning(th)
    BY <1>2
  <2>1. CASE th = Main
    BY <2>1, ZenonT(40) DEF PushRunning, Goto, At, Contexts, PcOK, LocalsOK, PropsOK
  <2>2. CASE th = Worker
    BY <2>2 DEF PushRunning, Goto, At, PcOK, LocalsOK, PropsOK
  <2> QED BY <2>1, <2>2
<1>3. CASE \E th \in Threads : Handler(th)
  <2> PICK th \in Threads : Handler(th)
    BY <1>3
  <2>1. CASE HandlerYields(th)
    BY <2>1 DEF HandlerYields, Goto, At, AfterHandler, PcOK, LocalsOK
  <2>2. CASE HandlerReschedules(th)
    BY <2>2 DEF HandlerReschedules, Goto, At, AfterHandler, PcOK, LocalsOK
  <2>3. CASE HandlerReadsFlags(th)
    BY <2>3 DEF HandlerReadsFlags, Goto, At, PcOK, LocalsOK
  <2>4. CASE HandlerSetsFinished(th)
    BY <2>4 DEF HandlerSetsFinished, Goto, At, AfterHandler, PcOK, LocalsOK
  <2> QED BY <1>3, <2>1, <2>2, <2>3, <2>4 DEF Handler
<1>4. CASE WorkerStep
  <2>1. CASE WorkerExits
    BY <2>1 DEF WorkerExits, Goto, At, PcOK, LocalsOK
  <2>2. CASE WorkerSleeps
    BY <2>2 DEF WorkerSleeps, Goto, At, PcOK, LocalsOK
  <2>3. CASE WorkerTimesOut
    BY <2>3 DEF WorkerTimesOut, PcOK, LocalsOK
  <2>4. CASE WorkerWakes
    BY <2>4 DEF WorkerWakes, Goto, At, PcOK, LocalsOK
  <2>5. CASE WorkerStarts
    BY <2>5 DEF WorkerStarts, Goto, At, PcOK, LocalsOK
  <2>6. CASE WorkerReadsFlags
    BY <2>6 DEF WorkerReadsFlags, Goto, At, PcOK, LocalsOK
  <2>7. CASE WorkerRequeues
    BY <2>7 DEF WorkerRequeues, Goto, At, PcOK, LocalsOK
  <2>8. CASE WorkerRemoves
    BY <2>8 DEF WorkerRemoves, Goto, At, PcOK, LocalsOK
  <2>9. CASE WorkerPutsFinished
    BY <2>9 DEF WorkerPutsFinished, Goto, At, PcOK, LocalsOK
  <2> QED BY <1>4, <2>1, <2>2, <2>3, <2>4, <2>5, <2>6, <2>7, <2>8, <2>9 DEF WorkerStep
<1>5. CASE SwitchStep
  <2>1. CASE DeinitStops
    BY <2>1 DEF DeinitStops, Goto, At, PcOK, LocalsOK
  <2>2. CASE DeinitJoins
    BY <2>2 DEF DeinitJoins, Goto, At, PcOK, LocalsOK
  <2>3. CASE TaskQueueInit
    BY <2>3 DEF TaskQueueInit, At, PcOK, LocalsOK
  <2> QED BY <1>5, <2>1, <2>2, <2>3 DEF SwitchStep
<1>6. CASE GatherStep
  <2>1. CASE GatherLocks
    BY <2>1 DEF GatherLocks, Goto, At, PcOK, LocalsOK
  <2>2. CASE GatherReports
    BY <2>2 DEF GatherReports, At, PcOK, LocalsOK
  <2>3. CASE GatherUnlocks
    BY <2>3 DEF GatherUnlocks, Goto, At, PcOK, LocalsOK
  <2>4. CASE CollectLocks
    BY <2>4 DEF CollectLocks, Goto, At, PcOK, LocalsOK
  <2>5. CASE Collect
    BY <2>5 DEF Collect, Goto, At, PcOK, LocalsOK
  <2>6. CASE CallbackReturns
    <3>1. life[cur[Main]] = "pushed"
      BY <2>6 DEF CallbackReturns, At, EveryTaskInOnePlace, Held, LocalsOK
    <3> QED BY <2>6, <3>1 DEF CallbackReturns, Goto, At, PcOK, PropsOK, LocalsOK
  <2>7. CASE CollectEnds
    BY <2>7 DEF CollectEnds, Goto, At, PcOK, LocalsOK
  <2>8. CASE BatchTakes
    BY <2>8 DEF BatchTakes, Goto, At, PcOK, LocalsOK
  <2>9. CASE BatchStarts
    BY <2>9 DEF BatchStarts, Goto, At, PcOK, LocalsOK
  <2>10. CASE BatchPuts
    BY <2>10 DEF BatchPuts, Goto, At, PcOK, LocalsOK
  <2>11. CASE BatchSkips
    BY <2>11 DEF BatchSkips, At, PcOK, LocalsOK
  <2>12. CASE BatchEnds
    BY <2>12 DEF BatchEnds, Goto, At, PcOK, LocalsOK
  <2> QED BY <1>6, <2>1, <2>2, <2>3, <2>4, <2>5, <2>6, <2>7, <2>8, <2>9, <2>10, <2>11, <2>12 DEF GatherStep
<1>7. CASE WaitStep
  <2>1. CASE WaitLooksAtRunning
    BY <2>1 DEF WaitLooksAtRunning, Goto, At, Condition, PcOK, LocalsOK
  <2>2. CASE WaitLooksAtFinished
    BY <2>2, SMTT(40) DEF WaitLooksAtFinished, Goto, At, Condition, WaitReturns, PcOK, LocalsOK
  <2>3. CASE WaitRegular
    BY <2>3 DEF WaitRegular, Goto, At, Condition, WaitReturns, PcOK, LocalsOK
  <2> QED BY <1>7, <2>1, <2>2, <2>3 DEF WaitStep
<1>8. CASE CancelStep
  <2>1. CASE CancelReadsFlags
    BY <2>1 DEF CancelReadsFlags, Goto, At, PcOK, LocalsOK
  <2>2. CASE CancelSetsCancelled
    BY <2>2 DEF CancelSetsCancelled, Goto, At, PcOK, LocalsOK
  <2>3. CASE CancelEnds
    BY <2>3 DEF CancelEnds, Goto, At, PcOK, LocalsOK
  <2> QED BY <1>8, <2>1, <2>2, <2>3 DEF CancelStep
<1>9. CASE FrameLoop
  <2>1. CASE Check
    BY <2>1 DEF Check, Goto, At, PcOK, LocalsOK
  <2>2. CASE SetThreaded
    BY <2>2 DEF SetThreaded, At, PcOK, LocalsOK
  <2>3. CASE InitTaskQueue
    BY <2>3 DEF InitTaskQueue, Goto, At, PcOK, LocalsOK
  <2>4. CASE Wait
    BY <2>4 DEF Wait, Goto, At, PcOK, LocalsOK
  <2>5. CASE Reset
    BY <2>5 DEF Reset, Goto, At, PcOK, LocalsOK
  <2>6. CASE \E t \in Tasks : Cancel(t)
    BY <2>6 DEF Cancel, Goto, At, PcOK, LocalsOK
  <2> QED BY <1>9, <2>1, <2>2, <2>3, <2>4, <2>5, <2>6 DEF FrameLoop
<1>10. CASE Tick \/ UNCHANGED vars
  BY <1>10, SMTT(40) DEF Tick, vars
<1> QED
  BY <1>1, <1>2, <1>3, <1>4, <1>5, <1>6, <1>7, <1>8, <1>9, <1>10 DEF Next, Push
\* The tasks of a list when one has been taken from it or put into it.
LEMMA ListPlaces ==
  ASSUME IInv
  PROVE  /\ \A t \in Tasks :
              /\ Members(task_queue_put(running, t, when)) = Members(running) \cup {t}
              /\ Members(task_queue_put(finished, t, when)) = Members(finished) \cup {t}
              /\ t \notin Members(running) => NoDuplicates(task_queue_put(running, t, when))
              /\ t \notin Members(finished) => NoDuplicates(task_queue_put(finished, t, when))
              /\ Members(<<t>>) = {t}
         /\ \A t \in Members(running) :
              LET r == task_queue_remove(running, t)
                  p == task_queue_put(r, t, when)
              IN  /\ Members(r) = Members(running) \ {t} /\ NoDuplicates(r)
                  /\ Members(p) = Members(running) /\ NoDuplicates(p)
         /\ \A q \in {finished, batch} : q # <<>> =>
              /\ Head(q) \in Members(q)
              /\ Members(Tail(q)) = Members(q) \ {Head(q)}
              /\ NoDuplicates(Tail(q))
         /\ Members(Reverse(running)) = Members(running) /\ NoDuplicates(Reverse(running))
         /\ todo # <<>> => Members(Tail(todo)) \subseteq Members(todo)
         /\ Members(<<>>) = {} /\ NoDuplicates(<<>>)
<1> USE DEF IInv, TypeOK, ListsOK, PropsOK
<1>1. \A t \in Tasks :
        /\ Members(task_queue_put(running, t, when)) = Members(running) \cup {t}
        /\ Members(task_queue_put(finished, t, when)) = Members(finished) \cup {t}
        /\ t \notin Members(running) => NoDuplicates(task_queue_put(running, t, when))
        /\ t \notin Members(finished) => NoDuplicates(task_queue_put(finished, t, when))
  BY PutProperties DEF EveryTaskInOnePlace
<1>2. ASSUME NEW t \in Members(running)
      PROVE  LET r == task_queue_remove(running, t)
                 p == task_queue_put(r, t, when)
             IN  /\ Members(r) = Members(running) \ {t} /\ NoDuplicates(r)
                 /\ Members(p) = Members(running) /\ NoDuplicates(p)
  <2> DEFINE r == task_queue_remove(running, t)
  <2>1. t \in Tasks
    BY DEF Members
  <2>2. r \in Seq(Tasks) /\ Members(r) = Members(running) \ {t} /\ NoDuplicates(r)
    BY RemoveProperties DEF EveryTaskInOnePlace
  <2> HIDE DEF r
  <2>3. /\ Members(task_queue_put(r, t, when)) = Members(r) \cup {t}
        /\ t \notin Members(r) => NoDuplicates(task_queue_put(r, t, when))
    BY <2>1, <2>2, PutProperties, SMTT(40)
  <2> QED BY <2>2, <2>3 DEF r
<1>3. \A q \in {finished, batch} : q # <<>> =>
        /\ Head(q) \in Members(q)
        /\ Members(Tail(q)) = Members(q) \ {Head(q)}
        /\ NoDuplicates(Tail(q))
  BY GetProperties DEF EveryTaskInOnePlace
<1>4. Members(Reverse(running)) = Members(running) /\ NoDuplicates(Reverse(running))
  BY ReverseTasks DEF EveryTaskInOnePlace
<1>5. todo # <<>> => Members(Tail(todo)) \subseteq Members(todo)
  BY TailMembers
<1>6. Members(<<>>) = {} /\ NoDuplicates(<<>>)
  BY DEF Members, NoDuplicates
<1>7. \A t \in Tasks : Members(<<t>>) = {t}
  BY DEF Members
<1> QED BY <1>1, <1>2, <1>3, <1>4, <1>5, <1>6, <1>7

\* A step that leaves the lists, the tasks in hand and the progress of the
\* worker through its loop alone keeps every task where it is.
LEMMA NothingMoves ==
  ASSUME EveryTaskInOnePlace,
         UNCHANGED <<running, finished, batch, cur>>,
         \A t \in Tasks : life'[t] = "pushed" <=> life[t] = "pushed",
         Members(todo') \subseteq { t \in Tasks : life[t] = "pushed" },
         WorkerHas' => WorkerHas,
         pc'[Worker] = "put_finished" <=> pc[Worker] = "put_finished"
  PROVE  EveryTaskInOnePlace'
BY SMT DEF EveryTaskInOnePlace, Held

\* A task that has been pushed and is in no list is in hand.
Pushed == { t \in Tasks : life[t] = "pushed" }

\* A task that is pushed joins the others in tasks_running.
LEMMA PushRunningKeeps ==
  ASSUME IInv, NEW th \in Threads, PushRunning(th)
  PROVE  EveryTaskInOnePlace'
<1> DEFINE t == arg[th]
<1> USE DEF IInv
<1>1. t \in Tasks /\ life[t] = "pushing" /\ pc[th] = "put"
  BY InHand DEF PushRunning, At, Control
<1>2. t \notin Pushed
  BY <1>1 DEF Pushed
<1>3. /\ Members(running') = Members(running) \cup {t} /\ NoDuplicates(running')
      /\ UNCHANGED <<finished, batch, cur, todo>>
  BY <1>1, <1>2, ListPlaces DEF PushRunning, EveryTaskInOnePlace, Pushed
<1>4. Pushed' = Pushed \cup {t}
  BY <1>1 DEF PushRunning, Pushed, TypeOK, PropsOK
<1>5. pc'[Worker] = IF th = Worker THEN "handler" ELSE pc[Worker]
  BY <1>1 DEF PushRunning, Goto, Control, TypeOK, PcOK, Threads
<1>6. Held' = Held
  BY <1>1, <1>3, <1>5 DEF Held, Threads
<1>7. WorkerHas' => WorkerHas
  BY <1>1, <1>5 DEF WorkerHas, InHandler, Control, PushRunning
<1> QED
  BY <1>1, <1>2, <1>3, <1>4, <1>5, <1>6, <1>7 DEF EveryTaskInOnePlace, Pushed

\* The worker takes the first task in hand without unlinking it.
LEMMA WorkerStartsKeeps ==
  ASSUME IInv, WorkerStarts
  PROVE  EveryTaskInOnePlace'
<1> USE DEF IInv, WorkerStarts
<1>1. /\ pc[Worker] = "top" /\ pc'[Worker] = "handler" /\ cur'[Main] = cur[Main]
      /\ cur'[Worker] \in Members(running)
  BY ListFacts DEF At, Goto, TypeOK, PcOK, LocalsOK, Threads
<1>2. Held' = Held
  BY <1>1 DEF Held
<1>3. UNCHANGED <<running, finished, batch, life, todo>>
  BY DEF lists, props
<1> QED BY <1>1, <1>2, <1>3 DEF EveryTaskInOnePlace

\* An unfinished task is moved to the back of tasks_running, or stays there.
LEMMA WorkerRequeuesKeeps ==
  ASSUME IInv, WorkerRequeues
  PROVE  EveryTaskInOnePlace'
<1> USE DEF IInv, WorkerRequeues
<1>1. /\ pc[Worker] = "requeue" /\ pc'[Worker] = "top" /\ cur'[Main] = cur[Main]
      /\ cur[Worker] \in Members(running)
  BY InHand DEF At, Goto, WorkerHas, TypeOK, PcOK, LocalsOK, Threads
<1>2. Members(running') = Members(running) /\ NoDuplicates(running')
  BY <1>1, ListPlaces DEF EveryTaskInOnePlace
<1>3. Held' = Held /\ ~ WorkerHas'
  BY <1>1 DEF Held, WorkerHas, InHandler
<1>4. UNCHANGED <<finished, batch, life, todo>>
  BY DEF props
<1> QED BY <1>1, <1>2, <1>3, <1>4 DEF EveryTaskInOnePlace

\* A finished task goes from tasks_running into the hands of the worker ...
LEMMA WorkerRemovesKeeps ==
  ASSUME IInv, WorkerRemoves
  PROVE  EveryTaskInOnePlace'
<1> USE DEF IInv, WorkerRemoves
<1>1. /\ pc[Worker] = "remove" /\ pc'[Worker] = "put_finished" /\ cur' = cur
      /\ cur[Worker] \in Members(running)
  BY InHand DEF At, Goto, WorkerHas, threads, TypeOK, PcOK, Threads
<1>2. Members(running') = Members(running) \ {cur[Worker]} /\ NoDuplicates(running')
  BY <1>1, ListPlaces
<1>3. Held' = Held \cup {cur[Worker]} /\ ~ WorkerHas'
  BY <1>1 DEF Held, WorkerHas, InHandler
<1>4. UNCHANGED <<finished, batch, life, todo>>
  BY DEF props, threads
<1>5. cur[Worker] \in Tasks
  BY <1>1, ListFacts
<1>6. cur[Main] # cur[Worker]
  BY <1>1, <1>5, TaskQueueAssumption DEF EveryTaskInOnePlace, Held
<1> QED BY <1>1, <1>2, <1>3, <1>4, <1>6 DEF EveryTaskInOnePlace

\* ... and from there to tasks_finished.
LEMMA WorkerPutsFinishedKeeps ==
  ASSUME IInv, WorkerPutsFinished
  PROVE  EveryTaskInOnePlace'
<1> USE DEF IInv, WorkerPutsFinished
<1>1. /\ pc[Worker] = "put_finished" /\ pc'[Worker] = "top" /\ cur'[Main] = cur[Main]
      /\ cur[Worker] \in Tasks
  BY InHand DEF At, Goto, TypeOK, PcOK, LocalsOK, Threads
<1>2. cur[Worker] \in Held /\ cur[Worker] # cur[Main]
  BY <1>1 DEF Held, EveryTaskInOnePlace
<1>3. Members(finished') = Members(finished) \cup {cur[Worker]} /\ NoDuplicates(finished')
  BY <1>1, <1>2, ListPlaces DEF EveryTaskInOnePlace
<1>4. Held' = Held \ {cur[Worker]} /\ ~ WorkerHas'
  BY <1>1, <1>2 DEF Held, WorkerHas, InHandler
<1>5. UNCHANGED <<running, batch, life, todo>>
  BY DEF props
<1> QED BY <1>1, <1>2, <1>3, <1>4, <1>5 DEF EveryTaskInOnePlace

\* A step of the main thread changes nothing the worker has in hand.
LEMMA MainStepWorker ==
  ASSUME IInv, NEW l \in MainLabels, Goto(Main, l), cur'[Worker] = cur[Worker],
         UNCHANGED arg
  PROVE  /\ Held' = ({cur'[Main]} \ {NoTask})
                       \cup (IF pc[Worker] = "put_finished" THEN {cur[Worker]} ELSE {})
         /\ WorkerHas' = WorkerHas
         /\ pc'[Worker] = pc[Worker]
<1>1. pc'[Worker] = pc[Worker]
  BY DEF IInv, TypeOK, PcOK, Goto, Threads
<1> QED BY <1>1 DEF Held, WorkerHas, InHandler

\* The first finished task is taken to be delivered.
LEMMA CollectKeeps ==
  ASSUME IInv, Collect
  PROVE  EveryTaskInOnePlace'
<1> USE DEF IInv, Collect
<1>1. /\ pc[Main] = "collect" /\ cur[Main] = NoTask /\ cur'[Worker] = cur[Worker]
      /\ cur'[Main] = Head(finished) /\ Head(finished) \in Tasks
  BY ListFacts DEF At, Control, MainHas, InHandler, TypeOK, LocalsOK, Threads
<1>2. /\ Held' = Held \cup {Head(finished)}
      /\ WorkerHas' = WorkerHas /\ pc'[Worker] = pc[Worker]
  BY <1>1, MainStepWorker, "callback" \in MainLabels, TaskQueueAssumption DEF MainLabels, Held
<1>3. /\ Head(finished) \in Members(finished)
      /\ Members(finished') = Members(finished) \ {Head(finished)} /\ NoDuplicates(finished')
  BY ListPlaces
<1>4. UNCHANGED <<running, batch, life, todo>>
  BY DEF props
<1>5. pc[Worker] = "put_finished" => cur[Worker] \in Held
  BY DEF Held
<1> QED BY <1>1, <1>2, <1>3, <1>4, <1>5 DEF EveryTaskInOnePlace

\* The task that has been delivered is freed.
LEMMA CallbackReturnsKeeps ==
  ASSUME IInv, CallbackReturns
  PROVE  EveryTaskInOnePlace'
<1> USE DEF IInv, CallbackReturns
<1>1. /\ pc[Main] = "callback" /\ cur[Main] \in Tasks /\ cur'[Worker] = cur[Worker]
      /\ cur'[Main] = NoTask
  BY InHand DEF At, TypeOK, LocalsOK, Threads
<1>2. cur[Main] \in Held /\ (pc[Worker] = "put_finished" => cur[Worker] # cur[Main])
  BY <1>1, TaskQueueAssumption DEF Held, EveryTaskInOnePlace
<1>3. /\ Held' = Held \ {cur[Main]}
      /\ WorkerHas' = WorkerHas /\ pc'[Worker] = pc[Worker]
  BY <1>1, <1>2, MainStepWorker, "collect" \in MainLabels DEF MainLabels, Held
<1>4. UNCHANGED <<running, finished, batch, todo>>
  BY DEF lists
<1>5. Pushed' = Pushed \ {cur[Main]}
  BY <1>1 DEF Pushed, TypeOK, PropsOK
<1>6. Members(todo) = {}
  BY <1>1, ListPlaces DEF Control
<1>7. pc[Worker] = "put_finished" => cur[Worker] \in Tasks
  BY InHand
<1> QED
  BY <1>1, <1>2, <1>3, <1>4, <1>5, <1>6, <1>7, TaskQueueAssumption
     DEF EveryTaskInOnePlace, Pushed

\* All tasks move to the batch, which was empty.
LEMMA BatchTakesKeeps ==
  ASSUME IInv, BatchTakes
  PROVE  EveryTaskInOnePlace'
<1> USE DEF IInv, BatchTakes
<1>1. pc[Main] = "gather" /\ pc[Worker] = "none" /\ batch = <<>> /\ UNCHANGED <<cur, arg>>
  BY DEF At, Control, InHandler, threads
<1>2. Held' = Held /\ WorkerHas' = WorkerHas /\ pc'[Worker] = pc[Worker]
  BY <1>1, MainStepWorker, "batch" \in MainLabels DEF MainLabels, Held
<1>3. /\ Members(batch') = Members(running) /\ NoDuplicates(batch')
      /\ Members(running') = {} /\ NoDuplicates(running') /\ Members(batch) = {}
  BY <1>1, ListPlaces
<1>4. ~ WorkerHas
  BY <1>1 DEF WorkerHas, InHandler
<1>5. UNCHANGED <<finished, life, todo>>
  BY DEF props, threads
<1> QED BY <1>1, <1>2, <1>3, <1>4, <1>5 DEF EveryTaskInOnePlace

\* The main thread takes the first task of the batch in hand ...
LEMMA BatchStartsKeeps ==
  ASSUME IInv, BatchStarts
  PROVE  EveryTaskInOnePlace'
<1> USE DEF IInv, BatchStarts
<1>1. /\ pc[Main] = "batch" /\ cur[Main] = NoTask /\ cur'[Worker] = cur[Worker]
      /\ cur'[Main] = Head(batch) /\ Head(batch) \in Tasks
  BY ListFacts DEF At, Control, MainHas, InHandler, TypeOK, LocalsOK, Threads
<1>2. /\ Held' = Held \cup {Head(batch)}
      /\ WorkerHas' = WorkerHas /\ pc'[Worker] = pc[Worker]
  BY <1>1, MainStepWorker, "handler" \in MainLabels, TaskQueueAssumption DEF MainLabels, Held
<1>3. /\ Head(batch) \in Members(batch)
      /\ Members(batch') = Members(batch) \ {Head(batch)} /\ NoDuplicates(batch')
  BY ListPlaces
<1>4. UNCHANGED <<running, finished, life, todo>>
  BY DEF props
<1>5. pc[Worker] = "put_finished" => cur[Worker] \in Held
  BY DEF Held
<1> QED BY <1>1, <1>2, <1>3, <1>4, <1>5 DEF EveryTaskInOnePlace

\* A task in no list that is put back is in one of them.
LEMMA PutBackPlaces ==
  ASSUME IInv, NEW t \in Tasks, PutBack(t),
         t \notin Members(running) \cup Members(finished)
  PROVE  /\ NoDuplicates(running') /\ NoDuplicates(finished')
         /\ \/ /\ Members(running') = Members(running) \cup {t}
               /\ Members(finished') = Members(finished)
            \/ /\ Members(finished') = Members(finished) \cup {t}
               /\ Members(running') = Members(running)
<1>0. /\ NoDuplicates(running) /\ NoDuplicates(finished)
      /\ Members(task_queue_put(running, t, when)) = Members(running) \cup {t}
      /\ Members(task_queue_put(finished, t, when)) = Members(finished) \cup {t}
      /\ NoDuplicates(task_queue_put(running, t, when))
      /\ NoDuplicates(task_queue_put(finished, t, when))
  BY ListPlaces DEF IInv, EveryTaskInOnePlace
<1>1. CASE "FINISHED" \in flags[t]
  BY <1>0, <1>1 DEF PutBack
<1>2. CASE "FINISHED" \notin flags[t]
  BY <1>0, <1>2 DEF PutBack
<1> QED BY <1>1, <1>2

\* ... and puts it back into tasks_running or tasks_finished.
LEMMA BatchPutsKeeps ==
  ASSUME IInv, BatchPuts
  PROVE  EveryTaskInOnePlace'
<1> DEFINE t == cur[Main]
<1> USE DEF IInv, BatchPuts
<1>1. /\ pc[Main] = "rebuild" /\ t \in Tasks /\ cur'[Worker] = cur[Worker]
      /\ cur'[Main] = NoTask
  BY InHand DEF At, TypeOK, LocalsOK, Threads
<1>2. t \in Held /\ (pc[Worker] = "put_finished" => cur[Worker] # t)
  BY <1>1, TaskQueueAssumption DEF Held, EveryTaskInOnePlace
<1>3. /\ Held' = Held \ {t}
      /\ WorkerHas' = WorkerHas /\ pc'[Worker] = pc[Worker]
  BY <1>1, <1>2, MainStepWorker, "batch" \in MainLabels DEF MainLabels, Held
<1>4. t \notin Members(running) \cup Members(finished) \cup Members(batch)
  BY <1>2 DEF EveryTaskInOnePlace
<1>5. /\ NoDuplicates(running') /\ NoDuplicates(finished')
      /\ \/ /\ Members(running') = Members(running) \cup {t}
            /\ Members(finished') = Members(finished)
         \/ /\ Members(finished') = Members(finished) \cup {t}
            /\ Members(running') = Members(running)
  BY <1>1, <1>4, PutBackPlaces
<1>6. UNCHANGED <<batch, life, todo>>
  BY DEF props
<1>7. pc[Worker] = "put_finished" => cur[Worker] \in Tasks
  BY InHand
<1> HIDE DEF t
<1> QED
  BY <1>1, <1>2, <1>3, <1>4, <1>5, <1>6, <1>7, TaskQueueAssumption DEF EveryTaskInOnePlace

\* A task of the batch that is not due goes back at once.
LEMMA BatchSkipsKeeps ==
  ASSUME IInv, BatchSkips
  PROVE  EveryTaskInOnePlace'
<1> DEFINE t == Head(batch)
<1> USE DEF IInv, BatchSkips
<1>1. /\ t \in Members(batch) /\ t \in Tasks
      /\ Members(batch') = Members(batch) \ {t} /\ NoDuplicates(batch')
  BY ListPlaces, ListFacts
<1>2. t \notin Members(running) \cup Members(finished)
  BY <1>1 DEF EveryTaskInOnePlace
<1>3. /\ NoDuplicates(running') /\ NoDuplicates(finished')
      /\ \/ /\ Members(running') = Members(running) \cup {t}
            /\ Members(finished') = Members(finished)
         \/ /\ Members(finished') = Members(finished) \cup {t}
            /\ Members(running') = Members(running)
  BY <1>1, <1>2, PutBackPlaces
<1>4. UNCHANGED <<life, todo, cur, pc, arg>>
  BY DEF props, threads
<1>5. Held' = Held /\ WorkerHas' = WorkerHas
  BY <1>4 DEF Held, WorkerHas, InHandler
<1> HIDE DEF t
<1> QED BY <1>1, <1>2, <1>3, <1>4, <1>5 DEF EveryTaskInOnePlace

\* Every task stays in one place, in every step.
LEMMA PlacesPreserved ==
  ASSUME IInv, [Next]_vars
  PROVE  EveryTaskInOnePlace'
<1> USE TaskQueueAssumption, ListFacts, ListPlaces, InHand DEF IInv, TypeOK, ListsOK, PcOK, LocalsOK, PropsOK, Threads, InHandler, WorkerHas, lists, props, mode, sleep, threads

<1>1. CASE \E th \in Threads, t \in Tasks : PushCheck(th, t)
  <2> PICK th \in Threads, t \in Tasks : PushCheck(th, t)
    BY <1>1
  <2>1. \A x \in Tasks : life'[x] = "pushed" <=> life[x] = "pushed"
    BY DEF PushCheck
  <2>2. /\ WorkerHas' => WorkerHas
        /\ pc'[Worker] = "put_finished" <=> pc[Worker] = "put_finished"
    BY DEF PushCheck, Goto, Contexts, WorkerLabels
  <2>3. UNCHANGED <<running, finished, batch, cur, todo>>
    BY DEF PushCheck
  <2> QED BY <2>1, <2>2, <2>3, NothingMoves DEF EveryTaskInOnePlace
<1>2. CASE \E th \in Threads : PushRunning(th)
  <2> PICK th \in Threads : PushRunning(th)
    BY <1>2
  <2> QED BY PushRunningKeeps
<1>3. CASE \E th \in Threads : Handler(th)
  <2> PICK th \in Threads : Handler(th)
    BY <1>3
  <2>1. CASE HandlerYields(th)
    BY <2>1, NothingMoves DEF EveryTaskInOnePlace, Control, MainHas, HandlerYields, Goto, At, AfterHandler
  <2>2. CASE HandlerReschedules(th)
    BY <2>2, NothingMoves DEF EveryTaskInOnePlace, Control, MainHas, HandlerReschedules, Goto, At, AfterHandler
  <2>3. CASE HandlerReadsFlags(th)
    BY <2>3, NothingMoves DEF EveryTaskInOnePlace, Control, MainHas, HandlerReadsFlags, Goto, At
  <2>4. CASE HandlerSetsFinished(th)
    BY <2>4, NothingMoves DEF EveryTaskInOnePlace, Control, MainHas, HandlerSetsFinished, Goto, At, AfterHandler
  <2> QED BY <1>3, <2>1, <2>2, <2>3, <2>4 DEF Handler
<1>4. CASE WorkerStep
  <2>1. CASE WorkerExits
    BY <2>1, NothingMoves DEF EveryTaskInOnePlace, Control, MainHas, WorkerExits, Goto, At
  <2>2. CASE WorkerSleeps
    BY <2>2, NothingMoves DEF EveryTaskInOnePlace, Control, MainHas, WorkerSleeps, Goto, At
  <2>3. CASE WorkerTimesOut
    BY <2>3, NothingMoves DEF EveryTaskInOnePlace, Control, MainHas, WorkerTimesOut
  <2>4. CASE WorkerWakes
    BY <2>4, NothingMoves DEF EveryTaskInOnePlace, Control, MainHas, WorkerWakes, Goto, At
  <2>5. CASE WorkerStarts
    BY <2>5, WorkerStartsKeeps
  <2>6. CASE WorkerReadsFlags
    BY <2>6, NothingMoves DEF EveryTaskInOnePlace, Control, MainHas, WorkerReadsFlags, Goto, At
  <2>7. CASE WorkerRequeues
    BY <2>7, WorkerRequeuesKeeps
  <2>8. CASE WorkerRemoves
    BY <2>8, WorkerRemovesKeeps
  <2>9. CASE WorkerPutsFinished
    BY <2>9, WorkerPutsFinishedKeeps
  <2> QED BY <1>4, <2>1, <2>2, <2>3, <2>4, <2>5, <2>6, <2>7, <2>8, <2>9 DEF WorkerStep
<1>5. CASE SwitchStep
  <2>1. CASE DeinitStops
    BY <2>1, NothingMoves DEF EveryTaskInOnePlace, Control, MainHas, DeinitStops, Goto, At
  <2>2. CASE DeinitJoins
    BY <2>2, NothingMoves DEF EveryTaskInOnePlace, Control, MainHas, DeinitJoins, Goto, At
  <2>3. CASE TaskQueueInit
    BY <2>3, NothingMoves DEF EveryTaskInOnePlace, Control, MainHas, TaskQueueInit, At
  <2> QED BY <1>5, <2>1, <2>2, <2>3 DEF SwitchStep
<1>6. CASE GatherStep
  <2>1. CASE GatherLocks
    BY <2>1, NothingMoves DEF EveryTaskInOnePlace, Control, MainHas, GatherLocks, Goto, At
  <2>2. CASE GatherReports
    BY <2>2, NothingMoves DEF EveryTaskInOnePlace, Control, MainHas, GatherReports, At
  <2>3. CASE GatherUnlocks
    BY <2>3, NothingMoves DEF EveryTaskInOnePlace, Control, MainHas, GatherUnlocks, Goto, At
  <2>4. CASE CollectLocks
    BY <2>4, NothingMoves DEF EveryTaskInOnePlace, Control, MainHas, CollectLocks, Goto, At
  <2>5. CASE Collect
    BY <2>5, CollectKeeps
  <2>6. CASE CallbackReturns
    BY <2>6, CallbackReturnsKeeps
  <2>7. CASE CollectEnds
    BY <2>7, NothingMoves DEF EveryTaskInOnePlace, Control, MainHas, CollectEnds, Goto, At
  <2>8. CASE BatchTakes
    BY <2>8, BatchTakesKeeps
  <2>9. CASE BatchStarts
    BY <2>9, BatchStartsKeeps
  <2>10. CASE BatchPuts
    BY <2>10, BatchPutsKeeps
  <2>11. CASE BatchSkips
    BY <2>11, BatchSkipsKeeps
  <2>12. CASE BatchEnds
    BY <2>12, NothingMoves DEF EveryTaskInOnePlace, Control, MainHas, BatchEnds, Goto, At
  <2> QED BY <1>6, <2>1, <2>2, <2>3, <2>4, <2>5, <2>6, <2>7, <2>8, <2>9, <2>10, <2>11, <2>12 DEF GatherStep
<1>7. CASE WaitStep
  <2>1. CASE WaitLooksAtRunning
    <3>1. \E l \in MainLabels : Goto(Main, l)
      BY <2>1 DEF WaitLooksAtRunning, Condition, WaitReturns, MainLabels
    <3>2. UNCHANGED <<running, finished, batch, life, cur, todo, arg>>
      BY <2>1 DEF WaitLooksAtRunning
    <3> QED BY <3>1, <3>2, MainStepWorker, NothingMoves DEF EveryTaskInOnePlace
  <2>2. CASE WaitLooksAtFinished
    <3>1. \E l \in MainLabels : Goto(Main, l)
      BY <2>2 DEF WaitLooksAtFinished, Condition, WaitReturns, MainLabels
    <3>2. UNCHANGED <<running, finished, batch, life, cur, todo, arg>>
      BY <2>2 DEF WaitLooksAtFinished
    <3> QED BY <3>1, <3>2, MainStepWorker, NothingMoves DEF EveryTaskInOnePlace
  <2>3. CASE WaitRegular
    <3>1. \E l \in MainLabels : Goto(Main, l)
      BY <2>3 DEF WaitRegular, Condition, WaitReturns, MainLabels
    <3>2. UNCHANGED <<running, finished, batch, life, cur, todo, arg>>
      BY <2>3 DEF WaitRegular
    <3> QED BY <3>1, <3>2, MainStepWorker, NothingMoves DEF EveryTaskInOnePlace
  <2> QED BY <1>7, <2>1, <2>2, <2>3 DEF WaitStep
<1>8. CASE CancelStep
  <2>1. CASE CancelReadsFlags
    BY <2>1, NothingMoves DEF EveryTaskInOnePlace, Control, MainHas, CancelReadsFlags, Goto, At
  <2>2. CASE CancelSetsCancelled
    BY <2>2, NothingMoves DEF EveryTaskInOnePlace, Control, MainHas, CancelSetsCancelled, Goto, At
  <2>3. CASE CancelEnds
    BY <2>3, NothingMoves DEF EveryTaskInOnePlace, Control, MainHas, CancelEnds, Goto, At
  <2> QED BY <1>8, <2>1, <2>2, <2>3 DEF CancelStep
<1>9. CASE FrameLoop
  <2>1. CASE Check
    BY <2>1, NothingMoves DEF EveryTaskInOnePlace, Control, MainHas, Check, Goto, At
  <2>2. CASE SetThreaded
    BY <2>2, NothingMoves DEF EveryTaskInOnePlace, Control, MainHas, SetThreaded, At
  <2>3. CASE InitTaskQueue
    BY <2>3, NothingMoves DEF EveryTaskInOnePlace, Control, MainHas, InitTaskQueue, Goto, At
  <2>4. CASE Wait
    BY <2>4, NothingMoves DEF EveryTaskInOnePlace, Control, MainHas, Wait, Goto, At
  <2>5. CASE Reset
    BY <2>5, NothingMoves DEF EveryTaskInOnePlace, Control, MainHas, Reset, Goto, At
  <2>6. CASE \E t \in Tasks : Cancel(t)
    <3>1. PICK t \in Tasks : Cancel(t)
      BY <2>6
    <3>2. Members(todo') \subseteq { x \in Tasks : life[x] = "pushed" }
      <4>1. CASE todo' = <<>>
        BY <4>1, ListPlaces
      <4>2. CASE todo' = <<t>> /\ (t \in Members(running) \/ life[t] = "pushed")
        <5>1. Members(todo') = {t}
          BY <4>2, ListPlaces
        <5>2. life[t] = "pushed"
          BY <4>2 DEF EveryTaskInOnePlace
        <5> QED BY <5>1, <5>2
      <4> QED BY <3>1, <4>1, <4>2 DEF Cancel, Found
    <3>3. Goto(Main, "cancel") /\ UNCHANGED <<running, finished, batch, life, cur, arg>>
      BY <3>1 DEF Cancel
    <3> QED BY <3>2, <3>3, MainStepWorker, NothingMoves DEF MainLabels
  <2> QED BY <1>9, <2>1, <2>2, <2>3, <2>4, <2>5, <2>6 DEF FrameLoop
<1>10. CASE Tick \/ UNCHANGED vars
  BY <1>10, NothingMoves DEF EveryTaskInOnePlace, Tick, vars
<1> QED
  BY <1>1, <1>2, <1>3, <1>4, <1>5, <1>6, <1>7, <1>8, <1>9, <1>10 DEF Next, Push

-----------------------------------------------------------------------------
\* The queue starts empty.
LEMMA InitIInv == Init => IInv
<1> SUFFICES ASSUME Init
             PROVE  IInv
  OBVIOUS
<1> USE TaskQueueAssumption DEF Init, Threads
<1>1. TypeOK
  <2>1. ListsOK
    BY DEF ListsOK
  <2>4. PropsOK
    BY DEF PropsOK
  <2>5. ModeOK
    <3>1. threaded \in BOOLEAN /\ asked \in BOOLEAN
      BY Zenon
    <3>2. now \in Nat /\ switches \in 0..MaxSwitches /\ deadline \in Nat
      BY SMT
    <3>3. impl \in {"none", "regular", "threaded"}
      BY Zenon
    <3>4. /\ continue \in BOOLEAN /\ asleep \in BOOLEAN
          /\ checking \in BOOLEAN /\ waiting \in BOOLEAN
      BY Zenon
    <3> QED BY <3>1, <3>2, <3>3, <3>4, Zenon DEF ModeOK
  <2>2. PcOK
    BY DEF PcOK, MainLabels, WorkerLabels
  <2>3. LocalsOK
    BY DEF LocalsOK
  <2> QED BY <2>1, <2>2, <2>3, <2>4, <2>5 DEF TypeOK
<1>2. Control
  BY DEF Control, InHandler, WorkerHas, MainHas
<1>3. EveryTaskInOnePlace
  <2>1. Members(<<>>) = {} /\ NoDuplicates(<<>>)
    BY DEF Members, NoDuplicates
  <2>2. Held = {} /\ ~ WorkerHas
    BY DEF Held, WorkerHas, InHandler
  <2> QED BY <2>1, <2>2 DEF EveryTaskInOnePlace
<1> QED BY <1>1, <1>2, <1>3 DEF IInv

\* No step breaks the invariant: types, control and places together.
LEMMA NextIInv == IInv /\ [Next]_vars => IInv'
BY TypePreserved, ControlPreserved, PlacesPreserved DEF IInv

\* IInv holds in every state the queue reaches.
THEOREM Invariance == Spec => []IInv
BY InitIInv, NextIInv, PTL DEF Spec

\* Every variable keeps its type, whatever the tasks, their pushers, the delays
\* and the number of changes of mode.
THEOREM TypeCorrect == Spec => []TypeOK
<1>1. IInv => TypeOK
  BY DEF IInv
<1> QED BY <1>1, Invariance, PTL

\* No task of task_queue.c is lost, duplicated or reachable after it has been
\* freed: not between the worker's removal from tasks_running and its insertion
\* into tasks_finished, not in the batch of the regular mode, not over a change
\* of mode, whatever the interleaving.
THEOREM TasksInOnePlace == Spec => []EveryTaskInOnePlace
<1>1. IInv => EveryTaskInOnePlace
  BY DEF IInv
<1> QED BY <1>1, Invariance, PTL
-----------------------------------------------------------------------------
(* A program that keeps to one mode. *)

\* The mode is the one asked for at first, and the main thread is nowhere in the other.
InMode(b) ==
  /\ impl = (IF b THEN "threaded" ELSE "regular")
  /\ threaded = b
  /\ pc[Main] \notin {"stop", "join", "init"}
  /\ b => pc[Main] \notin {"batch", "rebuild"} /\ ~ InHandler(Main)
  /\ ~b => pc[Main] \notin {"wait_running", "wait_finished"}

\* The mode only changes when it is asked to.
LEMMA ModeStays ==
  ASSUME NEW b \in BOOLEAN, "switch" \notin Ops, IInv, InMode(b), [Next]_vars
  PROVE  InMode(b)'
<1> USE DEF lists, props, history, mode, sleep, threads, InMode, InHandler, Goto, At
<1>0. pc \in [Threads -> MainLabels \cup WorkerLabels] /\ Main \in Threads /\ Worker \in Threads
      /\ Main # Worker
  BY DEF IInv, TypeOK, PcOK, Threads, Main, Worker
<1>1. CASE \E th \in Threads, t \in Tasks : PushCheck(th, t)
  <2> PICK th \in Threads, t \in Tasks : PushCheck(th, t)
    BY <1>1
  <2>1. /\ pc[th] \in Contexts /\ Pusher[t] = pc[th] /\ arg' = [arg EXCEPT ![th] = t]
        /\ pc' = [pc EXCEPT ![th] = "put"] /\ impl' = impl /\ threaded' = threaded
    BY DEF PushCheck
  <2>2. arg \in [Threads -> Tasks \cup {NoTask}]
    BY DEF IInv, TypeOK, LocalsOK
  <2>3. CASE th = Main
    <3>1. pc'[Main] = "put" /\ arg'[Main] = t
      BY <1>0, <2>1, <2>2, <2>3
    <3>2. b => Pusher[t] # "handler"
      BY <2>1, <2>3
    <3> QED BY <2>1, <3>1, <3>2
  <2>4. CASE th # Main
    <3>1. pc'[Main] = pc[Main] /\ arg'[Main] = arg[Main]
      BY <1>0, <2>1, <2>2, <2>4
    <3> QED BY <2>1, <3>1
  <2> QED BY <2>3, <2>4
<1>2. CASE \E th \in Threads : PushRunning(th)
  <2>1. \A t \in Tasks : Pusher[t] \in Contexts
    BY TaskQueueAssumption
  <2>2. QED
    BY <1>0, <1>2, <2>1, InHand DEF PushRunning, Contexts
<1>3. CASE \E th \in Threads : Handler(th)
  BY <1>0, <1>3 DEF Handler, HandlerYields, HandlerReschedules, HandlerReadsFlags, HandlerSetsFinished,
    AfterHandler
<1>4. CASE WorkerStep
  BY <1>0, <1>4 DEF WorkerStep, WorkerExits, WorkerSleeps, WorkerTimesOut, WorkerWakes, WorkerStarts,
    WorkerReadsFlags, WorkerRequeues, WorkerRemoves, WorkerPutsFinished
<1>5. CASE SwitchStep
  BY <1>0, <1>5 DEF SwitchStep, DeinitStops, DeinitJoins, TaskQueueInit
<1>6. CASE GatherStep
  BY <1>0, <1>6 DEF GatherStep, GatherLocks, GatherReports, GatherUnlocks, CollectLocks, Collect,
    CallbackReturns, CollectEnds, BatchTakes, BatchStarts, BatchPuts, BatchSkips, BatchEnds
<1>7. CASE WaitStep
  BY <1>0, <1>7 DEF WaitStep, WaitLooksAtRunning, WaitLooksAtFinished, WaitRegular, Condition, WaitReturns
<1>8. CASE CancelStep
  BY <1>0, <1>8 DEF CancelStep, CancelReadsFlags, CancelSetsCancelled, CancelEnds
<1>9. CASE FrameLoop
  BY <1>0, <1>9 DEF FrameLoop, Check, SetThreaded, InitTaskQueue, Wait, Reset, Cancel
<1>10. CASE Tick \/ UNCHANGED vars
  BY <1>10 DEF Tick, vars
<1>11. QED
  BY <1>1, <1>2, <1>3, <1>4, <1>5, <1>6, <1>7, <1>8, <1>9, <1>10 DEF Next, Push

\* ... as it is at first.
LEMMA ModeBegins ==
  ASSUME NEW b \in BOOLEAN, Modes = {b}, Init
  PROVE  InMode(b)
BY DEF Init, InMode, InHandler, Threads
-----------------------------------------------------------------------------
(* "The queue is sorted by 'when'" (task_queue.c): true of tasks_running   *)
(* in both modes and over the changes between them as long as no handler   *)
(* changes `when`, which is written under no lock while the task is linked.*)

\* The list stays sorted when it stays as it is, and `when` too for its tasks.
LEMMA ListLeftAlone ==
  ASSUME SortedByWhen(running, when), running' = running,
         \A t \in Members(running) : when'[t] = when[t]
  PROVE  SortedByWhen(running, when)'
<1>1. \A i \in 1..Len(running) : when'[running[i]] = when[running[i]]
  BY DEF Members
<1> QED BY <1>1 DEF SortedByWhen

\* What the queue does to the list leaves it sorted.
LEMMA ListChanges ==
  ASSUME IInv, SortedByWhen(running, when)
  PROVE  /\ \A t \in Tasks : SortedByWhen(task_queue_put(running, t, when), when)
         /\ \A t \in Members(running) :
              LET r == task_queue_remove(running, t)
              IN  /\ SortedByWhen(r, when)
                  /\ SortedByWhen(task_queue_put(r, t, when), when)
         /\ SortedByWhen(<<>>, when)
<1> USE DEF IInv, TypeOK, ListsOK, PropsOK
<1>1. \A t \in Tasks : SortedByWhen(task_queue_put(running, t, when), when)
  BY PutSorted
<1>2. ASSUME NEW t \in Members(running)
      PROVE  LET r == task_queue_remove(running, t)
             IN  SortedByWhen(r, when) /\ SortedByWhen(task_queue_put(r, t, when), when)
  <2> DEFINE r == task_queue_remove(running, t)
  <2>1. t \in Tasks
    BY DEF Members
  <2>2. r \in Seq(Tasks) /\ SortedByWhen(r, when)
    BY RemoveType, RemoveSorted
  <2> HIDE DEF r
  <2>3. SortedByWhen(task_queue_put(r, t, when), when)
    BY <2>1, <2>2, PutSorted
  <2> QED BY <2>2, <2>3 DEF r
<1>3. SortedByWhen(<<>>, when)
  BY DEF SortedByWhen
<1> QED BY <1>1, <1>2, <1>3

\* Every step leaves tasks_running sorted.
LEMMA SortedPreserved ==
  ASSUME Rescheduling = {} \/ impl = "regular", IInv, [Next]_vars, SortedByWhen(running, when)
  PROVE  SortedByWhen(running, when)'
<1> USE ListLeftAlone, ListChanges, InHand DEF lists, props
<1>1. CASE \E th \in Threads, t \in Tasks : PushCheck(th, t)
  <2> PICK th \in Threads, t \in Tasks : PushCheck(th, t)
    BY <1>1
  <2>1. t \notin Members(running)
    BY DEF PushCheck, IInv, EveryTaskInOnePlace
  <2>2. running' = running /\ \A x \in Tasks : x # t => when'[x] = when[x]
    BY DEF PushCheck, IInv, TypeOK, PropsOK
  <2>3. Members(running) \subseteq Tasks
    BY DEF IInv, TypeOK, ListsOK, Members
  <2> QED BY <2>1, <2>2, <2>3
<1>2. CASE \E th \in Threads : PushRunning(th)
  BY <1>2 DEF PushRunning, At
<1>3. CASE \E th \in Threads : Handler(th)
  <2>1. CASE \E th \in Threads : HandlerReschedules(th)
    <3>1. impl = "regular" /\ HandlerReschedules(Main)
      BY <2>1 DEF HandlerReschedules, At, IInv, Control, Threads
    <3>2. cur[Main] \in Held
      BY <3>1 DEF HandlerReschedules, At, IInv, Control, MainHas, InHandler, Held
    <3>3. cur[Main] \notin Members(running)
      BY <3>2 DEF IInv, EveryTaskInOnePlace
    <3>4. running' = running /\ \A x \in Tasks : x # cur[Main] => when'[x] = when[x]
      BY <3>1 DEF HandlerReschedules, IInv, TypeOK, PropsOK
    <3>5. Members(running) \subseteq Tasks
      BY DEF IInv, TypeOK, ListsOK, Members
    <3> QED BY <3>3, <3>4, <3>5
  <2>2. CASE ~ \E th \in Threads : HandlerReschedules(th)
    BY <1>3, <2>2 DEF Handler, HandlerYields, HandlerReadsFlags, HandlerSetsFinished
  <2> QED BY <2>1, <2>2
<1>4. CASE WorkerStep
  <2>1. CASE WorkerRequeues
    BY <2>1 DEF WorkerRequeues, At, WorkerHas
  <2>2. CASE WorkerRemoves
    BY <2>2 DEF WorkerRemoves, At, WorkerHas
  <2>3. CASE ~ WorkerRequeues /\ ~ WorkerRemoves
    BY <1>4, <2>3 DEF WorkerStep, WorkerExits, WorkerSleeps, WorkerTimesOut, WorkerWakes,
         WorkerStarts, WorkerReadsFlags, WorkerPutsFinished
  <2> QED BY <2>1, <2>2, <2>3
<1>5. CASE SwitchStep
  BY <1>5 DEF SwitchStep, DeinitStops, DeinitJoins, TaskQueueInit
<1>6. CASE GatherStep
  <2>1. CASE BatchTakes
    BY <2>1 DEF BatchTakes
  <2>2. CASE BatchPuts
    BY <2>2 DEF BatchPuts, PutBack, At
  <2>3. CASE BatchSkips
    BY <2>3, ListFacts DEF BatchSkips, PutBack
  <2>4. CASE ~ BatchTakes /\ ~ BatchPuts /\ ~ BatchSkips
    BY <1>6, <2>4 DEF GatherStep, GatherLocks, GatherReports, GatherUnlocks, CollectLocks,
         Collect, CallbackReturns, CollectEnds, BatchStarts, BatchEnds
  <2> QED BY <2>1, <2>2, <2>3, <2>4
<1>7. CASE WaitStep
  BY <1>7 DEF WaitStep, WaitLooksAtRunning, WaitLooksAtFinished, WaitRegular
<1>8. CASE CancelStep
  BY <1>8 DEF CancelStep, CancelReadsFlags, CancelSetsCancelled, CancelEnds
<1>9. CASE FrameLoop
  BY <1>9 DEF FrameLoop, Check, SetThreaded, InitTaskQueue, Wait, Reset, Cancel
<1>10. CASE Tick \/ UNCHANGED vars
  BY <1>10 DEF Tick, vars
<1> QED
  BY <1>1, <1>2, <1>3, <1>4, <1>5, <1>6, <1>7, <1>8, <1>9, <1>10 DEF Next, Push

\* When no handler changes `when`, or in the regular mode, where no list holds the task
\* whose handler does, no task waits behind one that is due later, however many tasks
\* are pushed, requeued and removed in whatever order.
THEOREM StaysSorted ==
  ASSUME Rescheduling = {} \/ (Modes = {FALSE} /\ "switch" \notin Ops)
  PROVE  Spec => []RunningSorted
<1>1. IInv /\ SortedByWhen(running, when) => RunningSorted
  BY ListChanges, InHand DEF RunningSorted, Waiting
<1>2. Init => SortedByWhen(running, when)
  BY DEF Init, SortedByWhen
<1>3. CASE Rescheduling = {}
  <2>1. IInv /\ [Next]_vars /\ SortedByWhen(running, when) => SortedByWhen(running, when)'
    BY <1>3, SortedPreserved
  <2> QED BY <1>1, <1>2, <2>1, Invariance, PTL DEF Spec
<1>4. CASE Modes = {FALSE} /\ "switch" \notin Ops
  <2>1. IInv /\ InMode(FALSE) /\ [Next]_vars /\ SortedByWhen(running, when)
          => SortedByWhen(running, when)'
    BY SortedPreserved DEF InMode
  <2>2. IInv /\ InMode(FALSE) /\ [Next]_vars => InMode(FALSE)'
    BY <1>4, ModeStays
  <2>3. Init => InMode(FALSE)
    BY <1>4, ModeBegins
  <2> QED BY <1>1, <1>2, <2>1, <2>2, <2>3, Invariance, PTL DEF Spec
<1> QED BY <1>3, <1>4
-----------------------------------------------------------------------------
(* The order of the tasks in a list. *)

\* x stands before y in q.
Before(q, x, y) == \E i, j \in 1..Len(q) : i < j /\ q[i] = x /\ q[j] = y

\* Nothing stands before the first task.
LEMMA NoneBeforeFirst ==
  ASSUME NEW S, NEW q \in Seq(S), q # <<>>, NoDuplicates(q), NEW x
  PROVE  ~ Before(q, x, Head(q))
<1>1. Len(q) \in Nat \ {0} /\ Head(q) = q[1]
  BY EmptySeq, HeadTailProperties, SMT
<1>2. QED
  BY <1>1 DEF Before, NoDuplicates

\* What is put into a list leaves the order of the others.
LEMMA InsertedKeepsOrder ==
  ASSUME NEW S, NEW q \in Seq(S), NEW r, NEW t, NEW i \in 1..(Len(q) + 1), Inserted(r, q, t, i),
         NEW x, NEW y, Before(q, x, y)
  PROVE  Before(r, x, y)
<1>1. PICK j \in 1..Len(q), k \in 1..Len(q) : j < k /\ q[j] = x /\ q[k] = y
  BY DEF Before
<1>2. Len(q) \in Nat /\ Len(r) = Len(q) + 1
  BY DEF Inserted
<1> DEFINE m(l) == IF l < i THEN l ELSE l + 1
<1>3. \A l \in 1..Len(q) : m(l) \in 1..Len(r) /\ r[m(l)] = q[l]
  <2>1. TAKE l \in 1..Len(q)
  <2>2. CASE l < i
    BY <1>2, <2>2 DEF Inserted
  <2>3. CASE ~ (l < i)
    <3>1. l \in i..Len(q)
      BY <1>2, <2>3
    <3>2. r[l + 1] = q[l]
      BY <3>1 DEF Inserted
    <3>3. QED
      BY <1>2, <2>3, <3>2
  <2>4. QED
    BY <2>2, <2>3
<1>4. m(j) < m(k)
  BY <1>1, <1>2
<1>5. QED
  BY <1>1, <1>3, <1>4 DEF Before

\* task_queue_put leaves the order of the tasks that are there, and puts a task
\* behind all that are due when it is.
LEMMA PutKeepsOrder ==
  ASSUME NEW S, NEW q \in Seq(S), NEW t \in S, NEW at \in [S -> Nat]
  PROVE  /\ \A x, y : Before(q, x, y) => Before(task_queue_put(q, t, at), x, y)
         /\ SortedByWhen(q, at) =>
              \A x \in Members(q) : at[x] = at[t] => Before(task_queue_put(q, t, at), x, t)
<1> DEFINE r == task_queue_put(q, t, at)
<1>1. Len(q) \in Nat /\ \A j \in 1..Len(q) : at[q[j]] \in Nat
  OBVIOUS
<1>2. \A x, y : Before(q, x, y) => Before(r, x, y)
  BY PutInserts, InsertedKeepsOrder
<1>3. ASSUME SortedByWhen(q, at), NEW x \in Members(q), at[x] = at[t]
      PROVE  Before(r, x, t)
  <2>1. PICK k \in 1..Len(q) : q[k] = x
    BY DEF Members
  <2>2. CASE q # <<>> /\ at[q[Len(q)]] > at[t]
    <3>1. PICK i : i = InsertPos(q, t, at)
      OBVIOUS
    <3>2. i \in 1..Len(q) /\ at[q[i]] > at[t]
      BY <2>2, <3>1, InsertPosExists
    <3>3. k < i
      <4>1. i < k => at[q[i]] <= at[q[k]]
        BY <1>3, <3>2 DEF SortedByWhen
      <4>2. at[q[k]] = at[t] /\ at[t] \in Nat /\ at[q[i]] \in Nat
        BY <1>1, <1>3, <2>1, <3>2
      <4>3. QED
        BY <3>2, <4>1, <4>2
    <3>4. r = InsertAt(q, i, t)
      BY <2>2, <3>1 DEF task_queue_put
    <3>5. i \in 1..(Len(q) + 1)
      BY <3>2
    <3>6. Len(r) = Len(q) + 1 /\ r[k] = x /\ r[i] = t
      <4>1. /\ Len(InsertAt(q, i, t)) = Len(q) + 1
            /\ \A j \in 1..(Len(q) + 1) : InsertAt(q, i, t)[j] =
                 IF j < i THEN q[j] ELSE IF j = i THEN t ELSE q[j - 1]
        BY <3>5, InsertAtElements
      <4>2. k \in 1..(Len(q) + 1)
        BY <1>1
      <4>3. QED
        BY <2>1, <3>2, <3>3, <3>4, <3>5, <4>1, <4>2
    <3>7. QED
      BY <1>1, <3>3, <3>5, <3>6 DEF Before
  <2>3. CASE ~ (q # <<>> /\ at[q[Len(q)]] > at[t])
    <3>1. r = Append(q, t)
      BY <2>3 DEF task_queue_put
    <3>2. Len(r) = Len(q) + 1 /\ r[k] = x /\ r[Len(q) + 1] = t
      BY <2>1, <3>1
    <3>3. k \in 1..(Len(q) + 1) /\ Len(q) + 1 \in 1..(Len(q) + 1) /\ k < Len(q) + 1
      BY <1>1
    <3>4. QED
      BY <3>2, <3>3 DEF Before
  <2>4. QED
    BY <2>2, <2>3
<1>4. QED
  BY <1>2, <1>3

\* task_queue_remove leaves the order of the others.
LEMMA RemoveKeepsOrder ==
  ASSUME NEW S, NEW q \in Seq(S), NEW t \in Members(q), NoDuplicates(q), NEW x, NEW y
  PROVE  Before(task_queue_remove(q, t), x, y) <=> Before(q, x, y) /\ x # t /\ y # t
<1> DEFINE i == PosOf(q, t)
           r == task_queue_remove(q, t)
           m(l) == IF l < i THEN l ELSE l + 1
<1>1. i \in 1..Len(q) /\ q[i] = t
  BY DEF PosOf, Members
<1>2. /\ Len(r) = Len(q) - 1
      /\ \A j \in 1..(Len(q) - 1) : r[j] = IF j < i THEN q[j] ELSE q[j + 1]
  BY <1>1, RemoveAtElements DEF task_queue_remove
<1> HIDE DEF i, r
<1>3. \A j \in 1..Len(r) : m(j) \in 1..Len(q) /\ r[j] = q[m(j)] /\ m(j) # i
  BY <1>1, <1>2, SMTT(40)
<1>4. \A j, k \in 1..Len(r) : j < k <=> m(j) < m(k)
  BY <1>1, <1>2
<1>5. \A l \in 1..Len(q) : l # i => \E j \in 1..Len(r) : m(j) = l
  <2>1. TAKE l \in 1..Len(q)
  <2>2. HAVE l # i
  <2>3. CASE l < i
    <3>1. l \in 1..Len(r) /\ m(l) = l
      BY <1>1, <1>2, <2>3
    <3>2. QED
      BY <3>1
  <2>4. CASE l > i
    <3>1. l - 1 \in 1..Len(r) /\ m(l - 1) = l
      BY <1>1, <1>2, <2>4
    <3>2. QED
      BY <3>1
  <2>5. QED
    BY <1>1, <2>2, <2>3, <2>4
<1> HIDE DEF m
<1>6. ASSUME Before(r, x, y)
      PROVE  Before(q, x, y) /\ x # t /\ y # t
  <2>1. PICK j \in 1..Len(r), k \in 1..Len(r) : j < k /\ r[j] = x /\ r[k] = y
    BY <1>6 DEF Before
  <2>2. m(j) \in 1..Len(q) /\ m(k) \in 1..Len(q) /\ m(j) < m(k) /\ q[m(j)] = x /\ q[m(k)] = y
        /\ m(j) # i /\ m(k) # i
    BY <1>3, <1>4, <2>1
  <2>3. Before(q, x, y)
    BY <2>2 DEF Before
  <2>4. x # t /\ y # t
    BY <1>1, <2>2 DEF NoDuplicates
  <2>5. QED
    BY <2>3, <2>4
<1>7. ASSUME Before(q, x, y), x # t, y # t
      PROVE  Before(r, x, y)
  <2>1. PICK a \in 1..Len(q), b \in 1..Len(q) : a < b /\ q[a] = x /\ q[b] = y
    BY <1>7 DEF Before
  <2>2. PICK j \in 1..Len(r) : m(j) = a
    BY <1>1, <1>5, <1>7, <2>1
  <2>3. PICK k \in 1..Len(r) : m(k) = b
    BY <1>1, <1>5, <1>7, <2>1
  <2>4. j < k /\ r[j] = x /\ r[k] = y
    BY <1>3, <1>4, <2>1, <2>2, <2>3
  <2>5. QED
    BY <2>4 DEF Before
<1>8. QED
  BY <1>6, <1>7 DEF r

\* A task that is appended is behind all others.
LEMMA AppendOrder ==
  ASSUME NEW S, NEW q \in Seq(S), NEW t \in S, NEW x, NEW y, Before(Append(q, t), x, y)
  PROVE  Before(q, x, y) \/ (x \in Members(q) /\ y = t)
<1>1. PICK j \in 1..(Len(q) + 1), k \in 1..(Len(q) + 1) :
        j < k /\ Append(q, t)[j] = x /\ Append(q, t)[k] = y
  BY DEF Before
<1>2. Len(q) \in Nat
  OBVIOUS
<1>3. j \in 1..Len(q) /\ q[j] = x
  BY <1>1, <1>2
<1>4. CASE k = Len(q) + 1
  BY <1>1, <1>2, <1>3, <1>4 DEF Members
<1>5. CASE k \in 1..Len(q)
  BY <1>1, <1>3, <1>5 DEF Before
<1>6. QED
  BY <1>1, <1>2, <1>4, <1>5
-----------------------------------------------------------------------------
(* "Tasks with the same task::when value will be executed in the order they *)
(* were scheduled" (task_queue.h 639): true of the worker as long as no     *)
(* handler changes `when`.                                                  *)

\* The tasks that have not begun are in tasks_running, those that are due at the same
\* time in the order in which they were pushed.
OrderAgrees ==
  /\ NoDuplicates(unbegun)
  /\ \A t \in Members(unbegun) : t \in Members(running) /\ ~ (WorkerHas /\ cur[Worker] = t)
  /\ \A t, u : Before(unbegun, t, u) /\ when[t] = when[u] => Before(running, t, u)

\* What stands before something is in the list, and so is that.
LEMMA BeforeMembers ==
  ASSUME NEW q, NEW x, NEW y, Before(q, x, y)
  PROVE  x \in Members(q) /\ y \in Members(q)
BY DEF Before, Members

\* A step that only changes what the worker holds, and takes nothing up.
LEMMA OrderLeftAlone ==
  ASSUME IInv, OrderAgrees, running' = running, unbegun' = unbegun,
         \A t \in Members(running) : when'[t] = when[t],
         WorkerHas' => WorkerHas /\ cur'[Worker] = cur[Worker]
  PROVE  OrderAgrees'
<1>1. \A t, u : Before(unbegun, t, u) =>
        when'[t] = when[t] /\ when'[u] = when[u]
  BY BeforeMembers DEF OrderAgrees
<1>2. QED
  BY <1>1 DEF OrderAgrees

\* A task that is pushed comes behind all that are due when it is.
LEMMA PushKeepsOrder ==
  ASSUME IInv, OrderAgrees, SortedByWhen(running, when), NEW th \in Threads, PushRunning(th)
  PROVE  OrderAgrees'
<1>1. PICK t : t = arg[th]
  OBVIOUS
<1>2. t \in Tasks /\ t \notin Members(running) /\ t \notin Members(unbegun)
  <2>1. t \in Tasks /\ life[t] = "pushing"
    BY <1>1, InHand DEF PushRunning, At, IInv, Control
  <2>2. QED
    BY <2>1 DEF IInv, EveryTaskInOnePlace, OrderAgrees
<1>3. running' = task_queue_put(running, t, when) /\ unbegun' = Append(unbegun, t) /\ when' = when
      /\ cur' = cur
  BY <1>1 DEF PushRunning
<1>4. running \in Seq(Tasks) /\ unbegun \in Seq(Tasks) /\ when \in [Tasks -> Nat]
  BY DEF IInv, TypeOK, ListsOK, PropsOK
<1>5. Members(running') = Members(running) \cup {t}
  <2>1. Members(task_queue_put(running, t, when)) = Members(running) \cup {t}
    BY <1>2, <1>4, PutProperties
  <2>2. QED
    BY <1>3, <2>1 DEF Members
<1>6. Members(unbegun') = Members(unbegun) \cup {t} /\ NoDuplicates(unbegun')
  <2>1. Inserted(Append(unbegun, t), unbegun, t, Len(unbegun) + 1) /\ Append(unbegun, t) \in Seq(Tasks)
        /\ Len(unbegun) + 1 \in 1..(Len(unbegun) + 1)
    BY <1>2, <1>4 DEF Inserted
  <2>2. /\ Members(Append(unbegun, t)) = Members(unbegun) \cup {t}
        /\ NoDuplicates(Append(unbegun, t))
    <3>1. PICK u, v : u = unbegun /\ v = Append(unbegun, t)
      OBVIOUS
    <3>2. /\ u \in Seq(Tasks) /\ v \in Seq(Tasks) /\ Len(u) + 1 \in 1..(Len(u) + 1)
          /\ Inserted(v, u, t, Len(u) + 1)
      BY <1>4, <2>1, <3>1
    <3>3. NoDuplicates(u) /\ t \notin Members(u)
      BY <1>2, <3>1 DEF OrderAgrees
    <3>4. Members(v) = Members(u) \cup {t} /\ NoDuplicates(v)
      BY <1>2, <3>2, <3>3, InsertedProperties
    <3>5. QED
      BY <3>1, <3>4
  <2>3. QED
    BY <1>3, <2>2 DEF Members, NoDuplicates
<1>7. WorkerHas' => WorkerHas
  <2>1. pc \in [Threads -> MainLabels \cup WorkerLabels] /\ Main \in Threads /\ Worker \in Threads /\ Main # Worker
    BY DEF IInv, TypeOK, PcOK, Threads, Main, Worker
  <2>2. CASE th = Main
    <3>1. pc'[Worker] = pc[Worker] /\ arg'[Worker] = arg[Worker]
      BY <2>1, <2>2 DEF PushRunning, Goto, IInv, TypeOK, LocalsOK
    <3>2. QED
      BY <3>1 DEF WorkerHas, InHandler
  <2>3. CASE th = Worker
    <3>1. pc[Worker] = "put" /\ Pusher[arg[Worker]] = "handler"
      BY <2>3 DEF PushRunning, At, IInv, Control
    <3>2. QED
      BY <3>1 DEF WorkerHas, InHandler
  <2>4. QED
    BY <2>2, <2>3 DEF Threads
<1>8. \A x \in Members(unbegun') : x \in Members(running') /\ ~ (WorkerHas /\ cur[Worker] = x)
  <2>1. ~ (WorkerHas /\ cur[Worker] = t)
    BY <1>2, InHand
  <2>2. QED
    BY <1>5, <1>6, <2>1 DEF OrderAgrees
<1>9. ASSUME NEW x, NEW y, Before(unbegun', x, y), when[x] = when[y]
      PROVE  Before(running', x, y)
  <2>1. Before(unbegun, x, y) \/ (x \in Members(unbegun) /\ y = t)
    BY <1>2, <1>3, <1>4, <1>9, AppendOrder
  <2>2. CASE Before(unbegun, x, y)
    BY <1>2, <1>3, <1>4, <1>9, <2>2, PutKeepsOrder DEF OrderAgrees
  <2>3. CASE x \in Members(unbegun) /\ y = t
    BY <1>2, <1>3, <1>4, <1>9, <2>3, PutKeepsOrder DEF OrderAgrees
  <2>4. QED
    BY <2>1, <2>2, <2>3
<1>10. QED
  BY <1>3, <1>6, <1>7, <1>8, <1>9 DEF OrderAgrees

\* The worker takes up the first task.
LEMMA StartKeepsOrder ==
  ASSUME IInv, OrderAgrees, WorkerStarts
  PROVE  OrderAgrees' /\ Members(unbegun) \subseteq Members(unbegun') \cup {Head(running)}
<1>1. PICK t : t = Head(running)
  OBVIOUS
<1>2. running' = running /\ when' = when /\ cur'[Worker] = t
  BY <1>1 DEF WorkerStarts, lists, props, IInv, TypeOK, LocalsOK, Threads
<1>3. unbegun' = IF t \in Members(unbegun) THEN task_queue_remove(unbegun, t) ELSE unbegun
  BY <1>1 DEF WorkerStarts, Begin
<1>4. unbegun \in Seq(Tasks)
  BY DEF IInv, TypeOK, ListsOK
<1>5. Members(unbegun') = Members(unbegun) \ {t} /\ NoDuplicates(unbegun')
  BY <1>3, <1>4, RemoveProperties DEF OrderAgrees
<1>6. \A x, y : Before(unbegun', x, y) => Before(unbegun, x, y)
  BY <1>3, <1>4, RemoveKeepsOrder DEF OrderAgrees
<1>7. \A x \in Members(unbegun') : x \in Members(running) /\ x # t
  BY <1>5 DEF OrderAgrees
<1>8. QED
  BY <1>1, <1>2, <1>5, <1>6, <1>7 DEF OrderAgrees

\* What the worker does with the task it has run leaves the others as they are.
LEMMA PutBackKeepsOrder ==
  ASSUME IInv, OrderAgrees, WorkerRequeues \/ WorkerRemoves
  PROVE  OrderAgrees'
<1>1. PICK t : t = cur[Worker]
  OBVIOUS
<1>2. WorkerHas /\ t \in Members(running) /\ t \notin Members(unbegun)
  <2>1. WorkerHas
    BY DEF WorkerRequeues, WorkerRemoves, At, WorkerHas
  <2>2. QED
    BY <1>1, <2>1, InHand DEF OrderAgrees
<1>3. running \in Seq(Tasks) /\ NoDuplicates(running) /\ when \in [Tasks -> Nat] /\ t \in Tasks
  BY <1>2, ListFacts DEF IInv, TypeOK, ListsOK, PropsOK, EveryTaskInOnePlace
<1>4. when' = when /\ unbegun' = unbegun
  BY DEF WorkerRequeues, WorkerRemoves, props, history
<1>5. PICK r : r = task_queue_remove(running, t)
  OBVIOUS
<1>6. running' \in {running, r, task_queue_put(r, t, when)}
  BY <1>1, <1>5 DEF WorkerRequeues, WorkerRemoves
<1>7. r \in Seq(Tasks) /\ Members(r) = Members(running) \ {t}
  BY <1>2, <1>3, <1>5, RemoveProperties
<1>8. Members(running) \ {t} \subseteq Members(running')
  BY <1>3, <1>6, <1>7, PutProperties
<1>9. ASSUME NEW x, NEW y, Before(running, x, y), x # t, y # t
      PROVE  Before(running', x, y)
  <2>1. Before(r, x, y)
    BY <1>2, <1>3, <1>5, <1>9, RemoveKeepsOrder
  <2>2. QED
    BY <1>3, <1>6, <1>7, <1>9, <2>1, PutKeepsOrder
<1>10. ~ WorkerHas'
  BY DEF WorkerRequeues, WorkerRemoves, Goto, WorkerHas, InHandler, IInv, TypeOK, PcOK, Threads
<1>11. ASSUME NEW x, NEW y, Before(unbegun, x, y), when[x] = when[y]
       PROVE  Before(running', x, y)
  BY <1>2, <1>9, <1>11, BeforeMembers DEF OrderAgrees
<1>12. QED
  BY <1>2, <1>4, <1>8, <1>10, <1>11 DEF OrderAgrees

\* Every step keeps the order, and takes up only the first task.
LEMMA OrderPreserved ==
  ASSUME Rescheduling = {}, "switch" \notin Ops, IInv, InMode(TRUE), OrderAgrees,
         SortedByWhen(running, when), [Next]_vars
  PROVE  /\ OrderAgrees'
         /\ Members(unbegun) \subseteq Members(unbegun') \/
              (running # <<>> /\ Members(unbegun) \subseteq Members(unbegun') \cup {Head(running)})
<1> USE DEF lists, props, history, threads
<1>0. pc \in [Threads -> MainLabels \cup WorkerLabels] /\ Main \in Threads /\ Worker \in Threads
      /\ Main # Worker /\ cur \in [Threads -> Tasks \cup {NoTask}] /\ arg \in [Threads -> Tasks \cup {NoTask}]
  BY DEF IInv, TypeOK, PcOK, LocalsOK, Threads, Main, Worker
<1>1. CASE \E th \in Threads, t \in Tasks : PushCheck(th, t)
  <2>1. PICK th \in Threads, t \in Tasks : PushCheck(th, t)
    BY <1>1
  <2>2. t \notin Members(running) /\ Members(running) \subseteq Tasks
    BY <2>1, ListFacts DEF PushCheck, IInv, EveryTaskInOnePlace
  <2>3. running' = running /\ unbegun' = unbegun /\ cur' = cur
        /\ \A x \in Tasks : x # t => when'[x] = when[x]
    BY <2>1 DEF PushCheck, IInv, TypeOK, PropsOK
  <2>4. WorkerHas' => WorkerHas
    <3>1. CASE th = Main
      BY <1>0, <2>1, <3>1 DEF PushCheck, Goto, WorkerHas, InHandler
    <3>2. CASE th = Worker
      BY <1>0, <2>1, <3>2 DEF PushCheck, Goto, WorkerHas, InHandler, Contexts, IInv, TypeOK, PcOK, WorkerLabels
    <3>3. QED
      BY <3>1, <3>2 DEF Threads
  <2>5. QED
    BY <2>2, <2>3, <2>4, OrderLeftAlone
<1>2. CASE \E th \in Threads : PushRunning(th)
  <2>1. PICK th \in Threads : PushRunning(th)
    BY <1>2
  <2>2. unbegun' = Append(unbegun, arg[th]) /\ unbegun \in Seq(Tasks) /\ arg[th] \in Tasks
    BY <2>1, InHand DEF PushRunning, At, IInv, TypeOK, ListsOK
  <2>3. Members(unbegun) \subseteq Members(unbegun')
    BY <2>2 DEF Members
  <2>4. QED
    BY <2>1, <2>3, PushKeepsOrder
<1>3. CASE \E th \in Threads : Handler(th)
  <2>1. running' = running /\ unbegun' = unbegun /\ when' = when /\ cur' = cur /\ arg' = arg
    BY <1>3 DEF Handler, HandlerYields, HandlerReschedules, HandlerReadsFlags, HandlerSetsFinished
  <2>2. WorkerHas' => WorkerHas
    BY <1>0, <1>3 DEF Handler, HandlerYields, HandlerReschedules, HandlerReadsFlags, HandlerSetsFinished,
      AfterHandler, Goto, At, WorkerHas, InHandler
  <2>3. QED
    BY <2>1, <2>2, OrderLeftAlone
<1>4. CASE WorkerStep
  <2>1. CASE WorkerRequeues \/ WorkerRemoves
    BY <2>1, PutBackKeepsOrder DEF WorkerRequeues, WorkerRemoves
  <2>2. CASE WorkerStarts
    BY <2>2, StartKeepsOrder DEF WorkerStarts
  <2>3. CASE ~ WorkerRequeues /\ ~ WorkerRemoves /\ ~ WorkerStarts
    <3>1. running' = running /\ unbegun' = unbegun /\ when' = when /\ (WorkerReadsFlags => cur' = cur)
      BY <1>4, <2>3 DEF WorkerStep, WorkerExits, WorkerSleeps, WorkerTimesOut, WorkerWakes,
        WorkerReadsFlags, WorkerPutsFinished
    <3>2. WorkerHas' => WorkerHas /\ cur' = cur
      BY <1>0, <1>4, <2>3 DEF WorkerStep, WorkerExits, WorkerSleeps, WorkerTimesOut, WorkerWakes,
        WorkerReadsFlags, WorkerPutsFinished, Goto, At, WorkerHas, InHandler
    <3>3. QED
      BY <3>1, <3>2, OrderLeftAlone
  <2>4. QED
    BY <2>1, <2>2, <2>3
<1>5. CASE SwitchStep
  BY <1>5 DEF SwitchStep, DeinitStops, DeinitJoins, TaskQueueInit, InMode, At
<1>6. CASE GatherStep
  <2>1. ~ BatchTakes /\ ~ BatchStarts /\ ~ BatchPuts /\ ~ BatchSkips /\ ~ BatchEnds
    BY DEF InMode, BatchTakes, BatchStarts, BatchPuts, BatchSkips, BatchEnds, At
  <2>2. running' = running /\ unbegun' = unbegun /\ when' = when /\ cur'[Worker] = cur[Worker]
    BY <1>0, <1>6, <2>1 DEF GatherStep, GatherLocks, GatherReports, GatherUnlocks, CollectLocks,
      Collect, CallbackReturns, CollectEnds
  <2>3. WorkerHas' => WorkerHas
    BY <1>0, <1>6, <2>1 DEF GatherStep, GatherLocks, GatherReports, GatherUnlocks, CollectLocks,
      Collect, CallbackReturns, CollectEnds, Goto, WorkerHas, InHandler
  <2>4. QED
    BY <2>2, <2>3, OrderLeftAlone
<1>7. CASE WaitStep \/ CancelStep \/ FrameLoop
  <2>1. running' = running /\ unbegun' = unbegun /\ when' = when /\ cur' = cur /\ arg' = arg
    BY <1>7 DEF WaitStep, WaitLooksAtRunning, WaitLooksAtFinished, WaitRegular, CancelStep, CancelReadsFlags,
      CancelSetsCancelled, CancelEnds, FrameLoop, Check, SetThreaded, InitTaskQueue, Wait, Reset, Cancel
  <2>2. pc'[Worker] = pc[Worker]
    BY <1>0, <1>7 DEF WaitStep, WaitLooksAtRunning, WaitLooksAtFinished, WaitRegular, CancelStep, CancelReadsFlags,
      CancelSetsCancelled, CancelEnds, FrameLoop, Check, SetThreaded, InitTaskQueue, Wait, Reset, Cancel, Goto,
      Condition, WaitReturns
  <2>3. WorkerHas' => WorkerHas
    BY <2>1, <2>2 DEF WorkerHas, InHandler
  <2>4. QED
    BY <2>1, <2>3, OrderLeftAlone
<1>8. CASE Tick \/ UNCHANGED vars
  <2>1. running' = running /\ unbegun' = unbegun /\ when' = when /\ cur' = cur /\ arg' = arg /\ pc' = pc
    BY <1>8 DEF Tick, vars
  <2>2. QED
    BY <2>1, OrderLeftAlone DEF WorkerHas, InHandler
<1>9. QED
  BY <1>1, <1>2, <1>3, <1>4, <1>5, <1>6, <1>7, <1>8 DEF Next, Push

\* No task is taken up before one that was pushed before it and is due when it is.
LEMMA TakenUpInOrder ==
  ASSUME IInv, OrderAgrees,
         Members(unbegun) \subseteq Members(unbegun') \/
           (running # <<>> /\ Members(unbegun) \subseteq Members(unbegun') \cup {Head(running)}),
         NEW j \in 1..Len(unbegun), unbegun[j] \notin Members(unbegun'), NEW i \in 1..(j - 1)
  PROVE  when[unbegun[i]] # when[unbegun[j]]
<1>1. unbegun \in Seq(Tasks) /\ running \in Seq(Tasks) /\ NoDuplicates(running)
  BY DEF IInv, TypeOK, ListsOK, EveryTaskInOnePlace
<1>2. unbegun[j] \in Members(unbegun)
  BY DEF Members
<1>3. running # <<>> /\ unbegun[j] = Head(running)
  BY <1>2
<1>4. i \in 1..Len(unbegun) /\ i < j
  BY <1>1
<1>5. Before(unbegun, unbegun[i], unbegun[j])
  BY <1>4 DEF Before
<1>6. ~ Before(running, unbegun[i], unbegun[j])
  BY <1>1, <1>3, NoneBeforeFirst
<1>7. QED
  BY <1>5, <1>6 DEF OrderAgrees

\* A worker that keeps to its mode, and whose handlers leave `when` alone, runs the tasks
\* that are due at the same time in the order in which they were pushed.
THEOREM RunsInOrder ==
  ASSUME Modes = {TRUE}, "switch" \notin Ops, Rescheduling = {}
  PROVE  Spec => FirstRunsInOrder
<1> DEFINE OInv == InMode(TRUE) /\ SortedByWhen(running, when) /\ OrderAgrees
<1>1. Init => OInv
  <2>1. Init => OrderAgrees
    BY DEF Init, OrderAgrees, NoDuplicates, Members, Before
  <2>2. Init => SortedByWhen(running, when)
    BY DEF Init, SortedByWhen
  <2>3. Init => InMode(TRUE)
    BY ModeBegins
  <2> QED BY <2>1, <2>2, <2>3
<1>2. IInv /\ OInv /\ [Next]_vars => OInv'
  BY ModeStays, SortedPreserved, OrderPreserved
<1>3. IInv /\ OInv /\ [Next]_vars =>
        [ \A j \in 1..Len(unbegun) :
            unbegun[j] \notin Members(unbegun') =>
              \A i \in 1..(j - 1) : when[unbegun[i]] # when[unbegun[j]] ]_vars
  BY OrderPreserved, TakenUpInOrder
<1> QED BY <1>1, <1>2, <1>3, Invariance, PTL DEF Spec, FirstRunsInOrder
-----------------------------------------------------------------------------
(* task_queue_wait "Block[s] until all active tasks have finished"          *)
(* (task_queue.h 649): true of the regular mode.                            *)

\* What has finished is delivered before task_queue_check or a pass of
\* task_queue_wait ends.
FinishedAgrees ==
  finished # <<>> => pc[Main] \in {"batch", "collect"} \/ MainHas

\* What has finished is delivered before the main thread leaves the pass.
LEMMA FinishedPreserved ==
  ASSUME IInv, InMode(FALSE), FinishedAgrees, [Next]_vars
  PROVE  FinishedAgrees'
<1> USE DEF lists, props, history, threads, mode, sleep, FinishedAgrees
<1>0. /\ pc \in [Threads -> MainLabels \cup WorkerLabels] /\ Main \in Threads /\ Worker \in Threads
      /\ Main # Worker /\ arg \in [Threads -> Tasks \cup {NoTask}] /\ pc[Worker] = "none"
  BY DEF IInv, TypeOK, PcOK, LocalsOK, Threads, Main, Worker, Control, InMode
<1>1. CASE \E th \in Threads, t \in Tasks : PushCheck(th, t)
  BY <1>0, <1>1 DEF PushCheck, Goto, MainHas, InHandler, Contexts, Threads
<1>2. CASE \E th \in Threads : PushRunning(th)
  <2>1. PushRunning(Main)
    BY <1>0, <1>2 DEF PushRunning, At, Threads
  <2>2. QED
    BY <1>0, <2>1 DEF PushRunning, Goto, At, MainHas, InHandler
<1>3. CASE \E th \in Threads : Handler(th)
  BY <1>0, <1>3 DEF Handler, HandlerYields, HandlerReschedules, HandlerReadsFlags, HandlerSetsFinished,
    AfterHandler, Goto, At, MainHas, InHandler, Threads
<1>4. CASE WorkerStep
  BY <1>0, <1>4 DEF WorkerStep, WorkerExits, WorkerSleeps, WorkerTimesOut, WorkerWakes, WorkerStarts,
    WorkerReadsFlags, WorkerRequeues, WorkerRemoves, WorkerPutsFinished, At, MainHas, InHandler
<1>5. CASE SwitchStep
  BY <1>5 DEF SwitchStep, DeinitStops, DeinitJoins, TaskQueueInit, InMode, At
<1>6. CASE GatherStep
  BY <1>0, <1>6 DEF GatherStep, GatherLocks, GatherReports, GatherUnlocks, CollectLocks, Collect,
    CallbackReturns, CollectEnds, BatchTakes, BatchStarts, BatchPuts, BatchSkips, BatchEnds, Goto, At,
    MainHas, InHandler
<1>7. CASE WaitStep \/ CancelStep \/ FrameLoop
  <2>1. finished' = finished /\ pc[Main] \notin {"batch", "collect"} /\ ~ MainHas
    BY <1>7 DEF WaitStep, WaitLooksAtRunning, WaitLooksAtFinished, WaitRegular, CancelStep, CancelReadsFlags,
      CancelSetsCancelled, CancelEnds, FrameLoop, Check, SetThreaded, InitTaskQueue, Wait, Reset, Cancel, At,
      MainHas, InHandler
  <2>2. QED
    BY <2>1
<1>8. CASE Tick \/ UNCHANGED vars
  BY <1>8 DEF Tick, vars, MainHas, InHandler
<1>9. QED
  BY <1>1, <1>2, <1>3, <1>4, <1>5, <1>6, <1>7, <1>8 DEF Next, Push

\* When a wait looks at tasks_running every task is there, and the first is the one that
\* is due first.
LEMMA NothingIsLeft ==
  ASSUME IInv, InMode(FALSE), FinishedAgrees, SortedByWhen(running, when),
         pc[Main] = "wait_regular", ~ FirstIsActive(running)
  PROVE  NothingActive
<1>1. ~ MainHas /\ cur[Main] = NoTask /\ batch = <<>> /\ pc[Worker] = "none"
  BY DEF MainHas, InHandler, IInv, Control, InMode
<1>2. finished = <<>>
  BY <1>1 DEF FinishedAgrees
<1>3. { t \in Tasks : life[t] = "pushed" } = Members(running)
  BY <1>1, <1>2 DEF IInv, EveryTaskInOnePlace, Held, Members
<1>4. ASSUME NEW t \in Members(running)
      PROVE  when[t] # 0
  <2>1. PICK i \in 1..Len(running) : running[i] = t
    BY DEF Members
  <2>2. running \in Seq(Tasks) /\ when \in [Tasks -> Nat]
    BY DEF IInv, TypeOK, ListsOK, PropsOK
  <2>3. running # <<>> /\ 1 \in 1..Len(running) /\ Head(running) = running[1]
    BY <2>1, <2>2
  <2>4. when[running[1]] # 0 /\ when[running[1]] \in Nat /\ when[running[i]] \in Nat
    BY <2>2, <2>3 DEF FirstIsActive
  <2>5. i = 1 \/ when[running[1]] <= when[running[i]]
    BY <2>3 DEF SortedByWhen
  <2> QED BY <2>1, <2>4, <2>5
<1> QED BY <1>3, <1>4 DEF NothingActive

\* A wait ends in one place only.
LEMMA WaitEnds ==
  ASSUME IInv, InMode(FALSE), [Next]_vars, waiting, ~waiting'
  PROVE  pc[Main] = "wait_regular"
<1>1. CASE WaitStep
  BY <1>1 DEF WaitStep, WaitLooksAtRunning, WaitLooksAtFinished, WaitRegular, At, InMode
<1>2. CASE ~ WaitStep
  BY <1>2 DEF Next, vars, Push, PushCheck, PushRunning, Handler, HandlerYields, HandlerReschedules,
    HandlerReadsFlags, HandlerSetsFinished, WorkerStep, WorkerExits, WorkerSleeps, WorkerTimesOut, WorkerWakes,
    WorkerStarts, WorkerReadsFlags, WorkerRequeues, WorkerRemoves, WorkerPutsFinished, SwitchStep, DeinitStops,
    DeinitJoins, TaskQueueInit, GatherStep, GatherLocks, GatherReports, GatherUnlocks, CollectLocks, Collect,
    CallbackReturns, CollectEnds, BatchTakes, BatchStarts, BatchPuts, BatchSkips, BatchEnds, CancelStep,
    CancelReadsFlags, CancelSetsCancelled, CancelEnds, FrameLoop, Check, SetThreaded, InitTaskQueue, Wait,
    Reset, Cancel, Tick, threads
<1> QED BY <1>1, <1>2

\* In the regular mode task_queue_wait returns when no task to be run as soon as
\* possible is left, unless its condition ends it, whatever handlers do with `when`.
THEOREM WaitReturnsDrained ==
  ASSUME Modes = {FALSE}, "switch" \notin Ops
  PROVE  Spec => WaitDrains
<1> DEFINE WInv == InMode(FALSE) /\ SortedByWhen(running, when) /\ FinishedAgrees
<1>1. Init => WInv
  <2>1. Init => SortedByWhen(running, when) /\ FinishedAgrees
    BY DEF Init, SortedByWhen, FinishedAgrees, MainHas, InHandler, Threads
  <2>2. Init => InMode(FALSE)
    BY ModeBegins
  <2> QED BY <2>1, <2>2
<1>2. IInv /\ WInv /\ [Next]_vars => WInv'
  <2>1. InMode(FALSE) => impl = "regular"
    BY DEF InMode
  <2> QED BY <2>1, ModeStays, SortedPreserved, FinishedPreserved
<1>3. IInv /\ WInv /\ [Next]_vars =>
        [ waiting /\ ~waiting' /\ ~ (FirstIsActive(running) /\ pc[Main] # "wait_finished")
            /\ ~ (FirstIsActive(finished) /\ pc[Main] = "wait_finished")
          => NothingActive ]_vars
  BY WaitEnds, NothingIsLeft
<1> QED BY <1>1, <1>2, <1>3, Invariance, PTL DEF Spec, WaitDrains

-----------------------------------------------------------------------------
(***************************************************************************)
(* The task queue of task_queue.c implements the life cycle TaskLifecycle  *)
(* promises, proved: each step of each thread moves one task from a stage  *)
(* to the next or none at all.  Beyond where every task is (IInv) and that *)
(* blocking tasks are apart (BlockingInv), this needs to know that the two *)
(* implementations never run handlers at the same time, and that FINISHED  *)
(* is set in no task that waits to be run, although a cancel may write     *)
(* back flags it has read before.                                          *)
(***************************************************************************)

(* "Only one blocking task can exist in the queue at a time" (task_queue.h)*)
(* although task_queue_push searches and inserts in two critical sections. *)

\* A step by which no task enters the queue and nobody starts to push keeps the
\* blocking tasks apart.
LEMMA NobodyEnters ==
  ASSUME BlockingInv,
         InQueue' \subseteq InQueue,
         pc'[Main] = "put" => pc[Main] = "put" /\ arg'[Main] = arg[Main],
         pc'[Worker] = "put" => pc[Worker] = "put" /\ arg'[Worker] = arg[Worker]
  PROVE  BlockingInv'
BY DEF BlockingInv

\* What InQueue is after a step of the worker, which leaves the main thread alone.
LEMMA WorkerGoesOn ==
  ASSUME IInv, NEW l \in WorkerLabels, Goto(Worker, l), cur'[Main] = cur[Main],
         UNCHANGED <<batch, arg>>
  PROVE  /\ pc'[Main] = pc[Main] /\ pc'[Worker] = l
         /\ Members(running') \subseteq Members(running) => InQueue' \subseteq InQueue
<1>1. pc'[Main] = pc[Main] /\ pc'[Worker] = l
  BY DEF Goto, IInv, TypeOK, PcOK, Threads, Main, Worker
<1>2. (InHandler(Main) \/ pc[Main] = "rebuild")' <=> (InHandler(Main) \/ pc[Main] = "rebuild")
  BY <1>1 DEF InHandler
<1>3. ASSUME Members(running') \subseteq Members(running)
      PROVE  InQueue' \subseteq InQueue
  <2>1. CASE InHandler(Main) \/ pc[Main] = "rebuild"
    BY <1>2, <1>3, <2>1 DEF InQueue
  <2>2. CASE ~ (InHandler(Main) \/ pc[Main] = "rebuild")
    BY <1>2, <1>3, <2>2 DEF InQueue
  <2> QED BY <2>1, <2>2
<1> QED BY <1>1, <1>3

\* After a step of the main thread outside of its handler nothing but the lists
\* counts.
LEMMA MainGoesOn ==
  ASSUME IInv, NEW l \in MainLabels \ {"handler", "set_flags", "put", "rebuild"},
         Goto(Main, l), UNCHANGED arg
  PROVE  /\ pc'[Worker] = pc[Worker] /\ pc'[Main] = l
         /\ InQueue' = Members(running') \cup Members(batch')
<1>1. pc'[Worker] = pc[Worker] /\ pc'[Main] = l
  BY DEF Goto, IInv, TypeOK, PcOK, Threads, Main, Worker
<1>2. ~ (InHandler(Main) \/ pc[Main] = "rebuild")'
  BY <1>1 DEF InHandler
<1> QED BY <1>1, <1>2 DEF InQueue

\* The search sees every task of InQueue whenever a blocking task may be pushed.
LEMMA PushCheckKeeps ==
  ASSUME IInv, BlockingInv, NEW th \in Threads, NEW t \in Tasks, PushCheck(th, t)
  PROVE  BlockingInv'
<1> USE DEF IInv, TypeOK, PcOK, LocalsOK
<1>1. /\ pc[th] \in Contexts /\ Pusher[t] = pc[th]
      /\ pc' = [pc EXCEPT ![th] = "put"] /\ arg' = [arg EXCEPT ![th] = t]
      /\ UNCHANGED <<running, batch, cur>>
  BY DEF PushCheck, Goto, lists
<1>2. InHandler(Main)' <=> InHandler(Main)
  BY <1>1 DEF InHandler, Contexts, Threads, Main, Worker
<1>3. (pc'[Main] # "rebuild" /\ pc[Main] # "rebuild") \/ UNCHANGED pc[Main]
  BY <1>1 DEF Contexts, Threads, Main, Worker
<1>4. InQueue' = InQueue
  BY <1>1, <1>2, <1>3 DEF InQueue, Threads, Main, Worker
<1>5. CASE th = Worker
  <2>1. Pusher[t] = "handler"
    BY <1>1, <1>5 DEF WorkerLabels, Contexts
  <2>2. t \notin Blocking
    BY <2>1, TaskQueueAssumption
  <2>3. pc'[Main] = pc[Main] /\ arg'[Main] = arg[Main] /\ arg'[Worker] = t
    BY <1>1, <1>5 DEF Threads, Main, Worker
  <2> QED BY <1>4, <2>2, <2>3 DEF BlockingInv
<1>6. CASE th = Main /\ t \in Blocking
  <2>1. pc[Main] \in {"idle", "callback"}
    BY <1>1, <1>6, TaskQueueAssumption DEF Contexts
  <2>2. batch = <<>> /\ Members(batch) = {}
    BY <2>1, ListPlaces DEF Control, InHandler
  <2>3. InQueue \cap Blocking = {}
    BY <1>6, <2>1, <2>2 DEF PushCheck, FoundBlocking, InQueue, InHandler
  <2>4. pc'[Worker] = pc[Worker] /\ arg'[Worker] = arg[Worker]
    BY <1>1, <1>6 DEF Threads, Main, Worker
  <2> QED BY <1>4, <2>3, <2>4 DEF BlockingInv
<1>7. CASE th = Main /\ t \notin Blocking
  <2>1. pc'[Worker] = pc[Worker] /\ arg'[Worker] = arg[Worker] /\ arg'[Main] = t
    BY <1>1, <1>7 DEF Threads, Main, Worker
  <2> QED BY <1>4, <1>7, <2>1 DEF BlockingInv
<1> QED BY <1>5, <1>6, <1>7 DEF Threads

\* The task that enters is the only blocking one, or it is not blocking.
LEMMA PushRunningKeepsBlocking ==
  ASSUME IInv, BlockingInv, NEW th \in Threads, PushRunning(th)
  PROVE  BlockingInv'
<1> DEFINE t == arg[th]
<1> USE DEF IInv, TypeOK, PcOK, LocalsOK
<1>1. /\ t \in Tasks /\ pc[th] = "put" /\ Pusher[t] \in Contexts
      /\ pc' = [pc EXCEPT ![th] = Pusher[t]] /\ arg' = [arg EXCEPT ![th] = NoTask]
      /\ UNCHANGED <<batch, cur>>
  BY InHand, TaskQueueAssumption DEF PushRunning, At, Goto
<1>2. Members(running') = Members(running) \cup {t}
  BY <1>1, ListPlaces DEF PushRunning
<1>3. (InHandler(Main) \/ pc[Main] = "rebuild") <=> (InHandler(Main) \/ pc[Main] = "rebuild")'
  BY <1>1 DEF InHandler, Contexts, Threads, Main, Worker
<1>4. InQueue' = InQueue \cup {t}
  BY <1>1, <1>2, <1>3 DEF InQueue
<1>5. CASE th = Main
  <2>1. /\ pc'[Main] # "put" /\ pc'[Worker] = pc[Worker] /\ arg'[Worker] = arg[Worker]
    BY <1>1, <1>5 DEF Contexts, Threads, Main, Worker
  <2>2. t \in Blocking => InQueue \cap Blocking = {}
    BY <1>1, <1>5 DEF BlockingInv
  <2> HIDE DEF t
  <2> QED BY <1>4, <2>1, <2>2 DEF BlockingInv
<1>6. CASE th = Worker
  <2>1. /\ pc'[Worker] # "put" /\ pc'[Main] = pc[Main] /\ arg'[Main] = arg[Main]
    BY <1>1, <1>6 DEF Contexts, Threads, Main, Worker
  <2>2. t \notin Blocking
    BY <1>1, <1>6 DEF BlockingInv
  <2> HIDE DEF t
  <2> QED BY <1>4, <2>1, <2>2 DEF BlockingInv
<1> QED BY <1>5, <1>6 DEF Threads

\* A task the worker moves or takes away was in tasks_running before.
LEMMA WorkerKeepsBlocking ==
  ASSUME IInv, BlockingInv, WorkerStep
  PROVE  BlockingInv'
<1> USE DEF IInv, lists, threads, At
<1>1. CASE WorkerExits
  BY <1>1, WorkerGoesOn, NobodyEnters DEF WorkerExits, WorkerLabels
<1>2. CASE WorkerSleeps
  BY <1>2, WorkerGoesOn, NobodyEnters DEF WorkerSleeps, WorkerLabels
<1>3. CASE WorkerTimesOut
  BY <1>3, NobodyEnters DEF WorkerTimesOut, InQueue, InHandler
<1>4. CASE WorkerWakes
  BY <1>4, WorkerGoesOn, NobodyEnters DEF WorkerWakes, WorkerLabels
<1>5. CASE WorkerStarts
  <2>1. cur'[Main] = cur[Main] /\ Goto(Worker, "handler") /\ UNCHANGED <<running, batch, arg>>
    BY <1>5 DEF WorkerStarts, TypeOK, LocalsOK, Threads, Main, Worker
  <2> QED BY <2>1, WorkerGoesOn, NobodyEnters DEF WorkerLabels
<1>6. CASE WorkerReadsFlags
  BY <1>6, WorkerGoesOn, NobodyEnters DEF WorkerReadsFlags, WorkerLabels
<1>7. CASE WorkerRequeues
  <2>1. Members(running') \subseteq Members(running)
    BY <1>7, InHand, ListPlaces DEF WorkerRequeues, WorkerHas
  <2>2. cur'[Main] = cur[Main] /\ Goto(Worker, "top") /\ UNCHANGED <<batch, arg>>
    BY <1>7 DEF WorkerRequeues, TypeOK, LocalsOK, Threads, Main, Worker
  <2> QED BY <2>1, <2>2, WorkerGoesOn, NobodyEnters DEF WorkerLabels
<1>8. CASE WorkerRemoves
  <2>1. Members(running') \subseteq Members(running)
    BY <1>8, InHand, ListPlaces DEF WorkerRemoves, WorkerHas
  <2>2. cur' = cur /\ Goto(Worker, "put_finished") /\ UNCHANGED <<batch, arg>>
    BY <1>8 DEF WorkerRemoves
  <2> QED BY <2>1, <2>2, WorkerGoesOn, NobodyEnters DEF WorkerLabels
<1>9. CASE WorkerPutsFinished
  <2>1. cur'[Main] = cur[Main] /\ Goto(Worker, "top") /\ UNCHANGED <<running, batch, arg>>
    BY <1>9 DEF WorkerPutsFinished, TypeOK, LocalsOK, Threads, Main, Worker
  <2> QED BY <2>1, WorkerGoesOn, NobodyEnters DEF WorkerLabels
<1> QED
  BY <1>1, <1>2, <1>3, <1>4, <1>5, <1>6, <1>7, <1>8, <1>9 DEF WorkerStep

\* Whatever the handler does, its task is among those of InQueue before and after.
LEMMA HandlerKeepsBlocking ==
  ASSUME IInv, BlockingInv, NEW th \in Threads, Handler(th)
  PROVE  BlockingInv'
<1> USE DEF IInv, TypeOK, PcOK, LocalsOK
<1>1. /\ pc[th] \in {"handler", "set_flags"}
      /\ \E l \in {"set_flags", "rebuild", "read_flags"} :
           /\ pc' = [pc EXCEPT ![th] = l]
           /\ th = Main => l # "read_flags"
      /\ UNCHANGED <<running, batch, cur, arg>>
  BY DEF Handler, HandlerYields, HandlerReschedules, HandlerReadsFlags, HandlerSetsFinished,
         AfterHandler, Goto, At, lists, threads
<1>2. (InHandler(Main) \/ pc[Main] = "rebuild") <=> (InHandler(Main) \/ pc[Main] = "rebuild")'
  BY <1>1 DEF InHandler, Threads, Main, Worker
<1>3. InQueue' = InQueue
  BY <1>1, <1>2 DEF InQueue
<1>4. /\ pc'[Main] = "put" => pc[Main] = "put"
      /\ pc'[Worker] = "put" => pc[Worker] = "put"
  BY <1>1 DEF Threads, Main, Worker
<1> QED BY <1>1, <1>3, <1>4, NobodyEnters

\* The tasks change places: from tasks_running to the batch, from there into
\* the hands of the main thread, and back into a list.
LEMMA GatherKeepsBlocking ==
  ASSUME IInv, BlockingInv, GatherStep
  PROVE  BlockingInv'
<1> USE DEF IInv, lists, threads, At
<1> DEFINE Away == MainLabels \ {"handler", "set_flags", "put", "rebuild"}
           Lists == Members(running) \cup Members(batch)
<1>0. {"scan", "collect_lock", "collect", "callback", "idle", "wait_running", "wait_regular", "batch"}
        \subseteq Away
  BY DEF MainLabels
<1>1. ASSUME NEW l \in Away, Goto(Main, l), UNCHANGED <<running, batch, arg>>
      PROVE  BlockingInv'
  <2>1. /\ pc'[Worker] = pc[Worker] /\ pc'[Main] = l /\ l # "put"
        /\ InQueue' = Lists
    BY <1>1, MainGoesOn
  <2> QED BY <1>1, <2>1, NobodyEnters DEF InQueue
<1> HIDE DEF Away
<1>2. CASE \/ GatherLocks \/ GatherUnlocks \/ CollectLocks \/ Collect
           \/ CallbackReturns \/ CollectEnds \/ BatchEnds
  BY <1>0, <1>1, <1>2 DEF GatherLocks, GatherUnlocks, CollectLocks, Collect,
       CallbackReturns, CollectEnds, BatchEnds
<1>3. CASE GatherReports
  BY <1>3, NobodyEnters DEF GatherReports, InQueue, InHandler
<1>4. CASE BatchTakes
  <2>1. /\ pc'[Worker] = pc[Worker] /\ pc'[Main] = "batch"
        /\ InQueue' = Members(running') \cup Members(batch')
    BY <1>4, <1>0, MainGoesOn DEF BatchTakes, Away
  <2>2. InQueue' \subseteq InQueue
    BY <1>4, <2>1, ListPlaces DEF BatchTakes, InQueue
  <2> QED BY <1>4, <2>1, <2>2, NobodyEnters DEF BatchTakes
<1>5. CASE BatchStarts
  <2>1. /\ pc'[Worker] = pc[Worker] /\ pc'[Main] = "handler"
        /\ cur'[Main] = Head(batch) /\ UNCHANGED <<running, arg>>
    BY <1>5 DEF BatchStarts, Goto, TypeOK, PcOK, LocalsOK, Threads, Main, Worker
  <2>2. Head(batch) \in Members(batch) /\ Members(batch') \subseteq Members(batch)
    BY <1>5, ListPlaces DEF BatchStarts
  <2>3. InQueue' = Members(running) \cup Members(batch') \cup {Head(batch)}
    BY <2>1 DEF InQueue, InHandler
  <2> QED BY <2>1, <2>2, <2>3, NobodyEnters DEF InQueue
<1>6. CASE BatchPuts
  <2>1. /\ pc'[Worker] = pc[Worker] /\ pc'[Main] = "batch"
        /\ InQueue' = Members(running') \cup Members(batch')
    BY <1>6, <1>0, MainGoesOn DEF BatchPuts, Away
  <2>2. cur[Main] \in Tasks /\ pc[Main] = "rebuild"
    BY <1>6, InHand DEF BatchPuts
  <2>3. Members(running') \subseteq Members(running) \cup {cur[Main]}
    BY <1>6, <2>2, ListPlaces DEF BatchPuts, PutBack
  <2>4. InQueue = Lists \cup {cur[Main]}
    BY <2>2 DEF InQueue
  <2> QED BY <1>6, <2>1, <2>3, <2>4, NobodyEnters DEF BatchPuts
<1>7. CASE BatchSkips
  <2> DEFINE t == Head(batch)
  <2>1. UNCHANGED <<pc, cur, arg>> /\ pc[Main] = "batch"
    BY <1>7 DEF BatchSkips
  <2>2. /\ t \in Members(batch) /\ t \in Tasks
        /\ Members(batch') = Members(batch) \ {t}
    BY <1>7, ListPlaces, ListFacts DEF BatchSkips
  <2>3. Members(running') \subseteq Members(running) \cup {t}
    BY <1>7, <2>2, ListPlaces DEF BatchSkips, PutBack
  <2>4. InQueue' = Members(running') \cup Members(batch') /\ InQueue = Lists
    BY <2>1 DEF InQueue, InHandler
  <2> QED BY <2>1, <2>2, <2>3, <2>4, NobodyEnters
<1> QED
  BY <1>2, <1>3, <1>4, <1>5, <1>6, <1>7 DEF GatherStep

\* The main thread does something that touches no list.
LEMMA MainKeepsBlocking ==
  ASSUME IInv, BlockingInv, SwitchStep \/ WaitStep \/ CancelStep \/ FrameLoop
  PROVE  BlockingInv'
<1> USE DEF IInv, lists, threads, At
<1>1. /\ UNCHANGED <<running, batch, cur, arg>>
      /\ pc[Main] \notin {"handler", "set_flags", "put", "rebuild"}
  BY DEF SwitchStep, WaitStep, CancelStep, FrameLoop, DeinitStops, DeinitJoins, TaskQueueInit,
     WaitLooksAtRunning, WaitLooksAtFinished, WaitRegular,
     CancelReadsFlags, CancelSetsCancelled, CancelEnds,
     Check, SetThreaded, InitTaskQueue, Wait, Reset, Cancel
<1>2. /\ pc'[Main] \notin {"handler", "set_flags", "put", "rebuild"}
      /\ pc'[Worker] = "put" => pc[Worker] = "put"
  <2> USE DEF Goto, TypeOK, PcOK, Threads, Main, Worker
  <2>1. CASE SwitchStep
    BY <2>1 DEF SwitchStep, DeinitStops, DeinitJoins, TaskQueueInit
  <2>2. CASE WaitStep
    BY <2>2 DEF WaitStep, WaitLooksAtRunning, WaitLooksAtFinished, WaitRegular,
         Condition, WaitReturns
  <2>3. CASE CancelStep
    BY <2>3 DEF CancelStep, CancelReadsFlags, CancelSetsCancelled, CancelEnds
  <2>4. CASE FrameLoop
    BY <2>4 DEF FrameLoop, Check, SetThreaded, InitTaskQueue, Wait, Reset, Cancel
  <2> QED BY <2>1, <2>2, <2>3, <2>4
<1>3. InQueue' = InQueue
  BY <1>1, <1>2 DEF InQueue, InHandler
<1> QED BY <1>1, <1>2, <1>3, NobodyEnters

\* The blocking tasks are kept apart by every step.
LEMMA NextBlockingInv == IInv /\ BlockingInv /\ [Next]_vars => BlockingInv'
<1> SUFFICES ASSUME IInv, BlockingInv, [Next]_vars
             PROVE  BlockingInv'
  OBVIOUS
<1>1. CASE Tick \/ UNCHANGED vars
  BY <1>1, NobodyEnters DEF Tick, vars, lists, threads, InQueue, InHandler
<1> QED
  BY <1>1, PushCheckKeeps, PushRunningKeepsBlocking, WorkerKeepsBlocking,
     HandlerKeepsBlocking, GatherKeepsBlocking, MainKeepsBlocking DEF Next, Push

\* The queue starts without a task.
LEMMA InitBlockingInv == Init => BlockingInv
<1> SUFFICES ASSUME Init
             PROVE  BlockingInv
  OBVIOUS
<1>1. running = <<>> /\ batch = <<>>
  BY DEF Init
<1>2. pc[Main] = "idle" /\ pc[Worker] \in {"top", "none"}
  BY DEF Init, Threads, Main, Worker
<1>3. InQueue = {}
  BY <1>1, <1>2 DEF InQueue, InHandler, Members
<1> QED BY <1>2, <1>3 DEF BlockingInv

\* No two blocking tasks are ever queued, in either mode, over any change of
\* mode and whatever the worker does between the search of task_queue_push and
\* the insertion, so long as handlers push none.
THEOREM BlockingTasksApart == Spec => []OneBlockingTask
<1>1. IInv /\ BlockingInv => OneBlockingTask
  <2> SUFFICES ASSUME IInv, BlockingInv,
                      NEW t \in Blocking, NEW u \in Blocking,
                      {t, u} \subseteq Members(running) \cup Members(batch)
                        \cup { cur[th] : th \in { x \in Threads : InHandler(x) } }
               PROVE  t = u
    BY DEF OneBlockingTask
  <2>1. InHandler(Worker) => cur[Worker] \in Members(running)
    BY InHand DEF WorkerHas
  <2>2. InHandler(Main) => cur[Main] \in InQueue
    BY DEF InQueue
  <2>3. {t, u} \subseteq InQueue
    BY <2>1, <2>2 DEF InQueue, Threads
  <2> QED BY <2>3 DEF BlockingInv
<1>2. IInv /\ [Next]_vars /\ BlockingInv => BlockingInv'
  BY NextBlockingInv
<1> QED BY <1>1, <1>2, InitBlockingInv, Invariance, PTL DEF Spec
-----------------------------------------------------------------------------
(* The life cycle. *)

\* Where the handler of a thread's task is running, or has run and is not yet
\* asked whether it has finished.
MainActive   == InHandler(Main) \/ pc[Main] = "rebuild"
WorkerActive == InHandler(Worker) \/ pc[Worker] = "read_flags"

\* Where a thread holds a task that has finished.
MainOver   == pc[Main] = "callback" \/ (pc[Main] = "put" /\ Pusher[arg[Main]] = "callback")
WorkerOver == pc[Worker] \in {"remove", "put_finished"}

Active(t) ==
  \/ MainActive /\ cur[Main] = t
  \/ WorkerActive /\ cur[Worker] = t
Over(t) ==
  \/ t \in Members(finished)
  \/ MainOver /\ cur[Main] = t
  \/ WorkerOver /\ cur[Worker] = t

\* The handler of t has returned and nobody has looked at the flags yet.
Returned(t) ==
  \/ pc[Main] = "rebuild" /\ cur[Main] = t
  \/ pc[Worker] = "read_flags" /\ cur[Worker] = t

\* Only the regular implementation calls handlers on the main thread.
ModeAgrees ==
  pc[Main] = "batch" \/ MainActive => impl = "regular"

\* FINISHED is found only where a handler has set it and the task is on its way
\* out; a cancel that writes it back finds it still there.
FlagAgrees(t) ==
  "FINISHED" \in flags[t] => life[t] = "freed" \/ Over(t) \/ Returned(t)
OldAgrees ==
  pc[Main] = "cancel_write" /\ "FINISHED" \in old[Main] => "FINISHED" \in flags[Head(todo)]

LInv == ModeAgrees /\ OldAgrees /\ \A t \in Tasks : FlagAgrees(t)

\* What a step that does not see t leaves of it.
Unseen(t) ==
  /\ (life'[t] = "freed") <=> (life[t] = "freed")
  /\ (life'[t] = "pushed") <=> (life[t] = "pushed")
  /\ Active(t)' <=> Active(t)
  /\ Over(t)' <=> Over(t)

\* ... and that cannot make a handler appear to have finished.
Quiet(t) ==
  /\ Unseen(t)
  /\ Returned(t) => Returned(t)'
  /\ "FINISHED" \in flags'[t] => "FINISHED" \in flags[t]

\* A step that is quiet for a task keeps its flags agreeing.
LEMMA QuietKeepsFlag ==
  ASSUME NEW t \in Tasks, FlagAgrees(t), Quiet(t)
  PROVE  FlagAgrees(t)'
BY DEF FlagAgrees, Quiet, Unseen

\* A task is in the hands of the queue where it is active or over, and never both.
InPlace ==
  \A t \in Tasks : /\ Active(t) \/ Over(t) => life[t] = "pushed"
                   /\ ~ (Active(t) /\ Over(t))

\* IInv knows each task's place.
LEMMA Places == IInv => InPlace
<1> SUFFICES ASSUME IInv, NEW t \in Tasks
             PROVE  /\ Active(t) \/ Over(t) => life[t] = "pushed"
                    /\ ~ (Active(t) /\ Over(t))
  BY DEF InPlace
<1>1. /\ cur[Main] = t => t \in Held
      /\ pc[Worker] = "put_finished" /\ cur[Worker] = t => t \in Held
  BY TaskQueueAssumption DEF Held
<1>2. WorkerActive \/ pc[Worker] = "remove" => cur[Worker] \in Members(running)
  BY DEF WorkerActive, WorkerHas, IInv, EveryTaskInOnePlace
<1>3. /\ Held \cup Members(running) \cup Members(finished)
           \subseteq { u \in Tasks : life[u] = "pushed" }
      /\ Held \cap (Members(running) \cup Members(finished)) = {}
      /\ Members(running) \cap Members(finished) = {}
      /\ pc[Worker] = "put_finished" => cur[Main] # cur[Worker]
  BY DEF IInv, EveryTaskInOnePlace
<1>4. /\ ~ (MainActive /\ MainOver)
      /\ ~ (WorkerActive /\ WorkerOver)
  <2>1. Pusher[arg[Main]] = "callback" => Pusher[arg[Main]] # "handler"
    OBVIOUS
  <2>2. QED
    BY <2>1 DEF MainActive, MainOver, WorkerActive, WorkerOver, InHandler
<1>5. Active(t) \/ Over(t) => life[t] = "pushed"
  BY <1>1, <1>2, <1>3 DEF Active, Over, WorkerOver
<1>6. ~ (Active(t) /\ Over(t))
  BY <1>1, <1>2, <1>3, <1>4 DEF Active, Over, WorkerOver
<1>7. QED
  BY <1>5, <1>6

\* The stage of a task, by where it is.
StageAt(t) ==
  /\ life[t] = "freed" => Stage(t) = "freed"
  /\ life[t] \notin {"freed", "pushed"} => Stage(t) = "new"
  /\ Active(t) => Stage(t) = "active"
  /\ Over(t) => Stage(t) = "finished"
  /\ life[t] = "pushed" /\ ~ Active(t) /\ ~ Over(t) => Stage(t) = "queued"

StageAgrees == \A t \in Tasks : StageAt(t)

\* IInv tells each task's stage from its place.
LEMMA StageIs == IInv => StageAgrees
<1> SUFFICES ASSUME IInv, NEW t \in Tasks
             PROVE  StageAt(t)
  BY DEF StageAgrees
<1> DEFINE A == \E th \in Threads :
                  cur[th] = t /\ (InHandler(th) \/ pc[th] \in {"read_flags", "rebuild"})
           O == \/ t \in Members(finished)
                \/ t = cur[Worker] /\ pc[Worker] \in {"remove", "put_finished"}
                \/ t = cur[Main] /\ ~ InHandler(Main) /\ pc[Main] # "rebuild"
<1>1. A <=> Active(t)
  <2>1. pc[Main] # "read_flags" /\ pc[Worker] # "rebuild"
    BY DEF IInv, TypeOK, PcOK, MainLabels, WorkerLabels
  <2>2. QED
    BY <2>1 DEF Active, MainActive, WorkerActive, Threads
<1>2. O <=> Over(t)
  <2>1. cur[Main] = t => MainHas
    BY TaskQueueAssumption DEF IInv, Control
  <2>2. cur[Main] = t => ((~ InHandler(Main) /\ pc[Main] # "rebuild") <=> MainOver)
    BY <2>1 DEF MainHas, MainOver, InHandler
  <2>3. QED
    BY <2>2 DEF Over, WorkerOver
<1>3. life[t] \in {"new", "pushing", "pushed", "freed"}
  BY DEF IInv, TypeOK, PropsOK
<1>4. Stage(t) = CASE life[t] \in {"new", "pushing"} -> "new"
                   [] life[t] = "freed" -> "freed"
                   [] life[t] = "pushed" /\ A -> "active"
                   [] life[t] = "pushed" /\ O -> "finished"
                   [] OTHER -> "queued"
  BY DEF Stage
<1> HIDE DEF A, O
<1>5. Active(t) \/ Over(t) => life[t] = "pushed"
  BY Places DEF InPlace
<1>6. ~ (Active(t) /\ Over(t))
  BY Places DEF InPlace
<1>7. CASE life[t] = "freed"
  BY <1>4, <1>5, <1>7, Zenon DEF StageAt
<1>8. CASE life[t] \in {"new", "pushing"}
  BY <1>4, <1>5, <1>8, Zenon DEF StageAt
<1>9. CASE life[t] = "pushed"
  BY <1>1, <1>2, <1>4, <1>6, <1>9, Zenon DEF StageAt
<1>10. QED
  BY <1>3, <1>7, <1>8, <1>9

\* What is not seen of a task does not change its stage.
LEMMA UnseenKeepsStage ==
  ASSUME IInv, IInv', NEW t \in Tasks, Unseen(t)
  PROVE  Stage(t)' = Stage(t)
<1>1. InPlace /\ InPlace'
  BY Places, PTL
<1>2. StageAgrees /\ StageAgrees'
  BY StageIs, PTL
<1>3. QED
  BY <1>1, <1>2 DEF Unseen, InPlace, StageAgrees, StageAt

\* The stages of all tasks, as TaskLifecycle has them.
stages == [t \in Tasks |-> Stage(t)]

\* A step that no task shows is a stutter of TaskLifecycle.
LEMMA AllUnseen ==
  ASSUME IInv, IInv', \A t \in Tasks : Unseen(t)
  PROVE  UNCHANGED stages
BY UnseenKeepsStage DEF stages

\* One task goes from one stage to another, and no other does.
LEMMA OneMoves ==
  ASSUME IInv, IInv', NEW t \in Tasks, \A u \in Tasks \ {t} : Unseen(u)
  PROVE  Lifecycle!Move(t, Stage(t), Stage(t)')
<1>1. stages' = [stages EXCEPT ![t] = Stage(t)']
  BY UnseenKeepsStage DEF stages
<1>2. stages[t] = Stage(t)
  BY DEF stages
<1>3. QED
  BY <1>1, <1>2 DEF stages, Lifecycle!Move

\* A step is quiet when the hands of both threads hold what they held.
LEMMA HandsKept ==
  ASSUME UNCHANGED finished,
         \A t \in Tasks : /\ life'[t] = "freed" <=> life[t] = "freed"
                          /\ life'[t] = "pushed" <=> life[t] = "pushed",
         MainActive' <=> MainActive, MainOver' <=> MainOver,
         WorkerActive' <=> WorkerActive, WorkerOver' <=> WorkerOver,
         MainActive \/ MainOver => cur'[Main] = cur[Main],
         WorkerActive \/ WorkerOver => cur'[Worker] = cur[Worker],
         pc[Main] = "rebuild" => pc'[Main] = "rebuild",
         pc[Worker] = "read_flags" => pc'[Worker] = "read_flags",
         \A t \in Tasks : "FINISHED" \in flags'[t] => "FINISHED" \in flags[t]
  PROVE  \A t \in Tasks : Quiet(t)
<1>1. \A t \in Tasks : Unseen(t)
  <2>1. \A t \in Tasks : (Active(t)' <=> Active(t)) /\ (Over(t)' <=> Over(t))
    BY DEF Active, Over
  <2>2. QED
    BY <2>1 DEF Unseen
<1>2. \A t \in Tasks : Returned(t) => Returned(t)'
  BY DEF Returned, MainActive, WorkerActive
<1>3. QED
  BY <1>1, <1>2 DEF Quiet

\* The labels at which a thread holds no task that is active or over.
Away == (MainLabels \cup WorkerLabels)
          \ {"handler", "set_flags", "put", "read_flags", "rebuild", "callback",
             "remove", "put_finished"}

\* A step of the main thread from one of them to another.
LEMMA MainAway ==
  ASSUME IInv, pc[Main] \in Away, pc'[Main] \in Away, pc'[Worker] = pc[Worker],
         UNCHANGED <<finished, life, arg>>, cur'[Worker] = cur[Worker],
         \A t \in Tasks : "FINISHED" \in flags'[t] => "FINISHED" \in flags[t]
  PROVE  \A t \in Tasks : Quiet(t)
<1>1. ~ MainActive /\ ~ MainOver /\ ~ MainActive' /\ ~ MainOver'
  BY DEF MainActive, MainOver, InHandler, Away
<1>2. (WorkerActive' <=> WorkerActive) /\ (WorkerOver' <=> WorkerOver)
  BY DEF WorkerActive, WorkerOver, InHandler
<1>3. pc[Main] # "rebuild"
  BY DEF Away
<1>4. QED
  BY <1>1, <1>2, <1>3, HandsKept

\* A step of the worker from one of them to another.
LEMMA WorkerAway ==
  ASSUME IInv, pc[Worker] \in Away, pc'[Worker] \in Away, pc'[Main] = pc[Main],
         UNCHANGED <<finished, life, arg, flags>>, cur'[Main] = cur[Main]
  PROVE  \A t \in Tasks : Quiet(t)
<1>1. ~ WorkerActive /\ ~ WorkerOver /\ ~ WorkerActive' /\ ~ WorkerOver'
  BY DEF WorkerActive, WorkerOver, InHandler, Away
<1>2. (MainActive' <=> MainActive) /\ (MainOver' <=> MainOver)
  BY DEF MainActive, MainOver, InHandler
<1>3. pc[Worker] # "read_flags"
  BY DEF Away
<1>4. QED
  BY <1>1, <1>2, <1>3, HandsKept

\* The steps that show nothing: changes of mode, waits, cancels, and the walks of
\* the lists.
LEMMA MainIsQuiet ==
  ASSUME IInv, LInv,
         SwitchStep \/ WaitStep \/ CancelStep \/ FrameLoop \/ Tick \/ UNCHANGED vars
  PROVE  (\A t \in Tasks : Quiet(t)) /\ ModeAgrees' /\ OldAgrees'
<1> USE DEF lists, props, mode, sleep, threads, history
<1>1. CASE Tick \/ UNCHANGED vars
  BY <1>1, HandsKept DEF Tick, vars, MainActive, MainOver, WorkerActive, WorkerOver,
    InHandler, LInv, ModeAgrees, OldAgrees
<1>2. CASE SwitchStep \/ WaitStep \/ FrameLoop
  <2> USE DEF Goto, At, IInv, TypeOK, PcOK, LocalsOK, Threads, Away, MainLabels, WorkerLabels
  <2>1. UNCHANGED <<finished, life, arg, flags, cur, old>>
    BY <1>2 DEF SwitchStep, WaitStep, FrameLoop, DeinitStops, DeinitJoins, TaskQueueInit,
      WaitLooksAtRunning, WaitLooksAtFinished, WaitRegular,
      Check, SetThreaded, InitTaskQueue, Wait, Reset, Cancel
  <2>2. /\ pc[Main] \in Away \ {"cancel_write", "batch"}
        /\ pc'[Main] \in Away \ {"cancel_write", "batch"}
    <3>1. CASE SwitchStep
      BY <3>1 DEF SwitchStep, DeinitStops, DeinitJoins, TaskQueueInit
    <3>2. CASE WaitStep
      BY <3>2 DEF WaitStep, WaitLooksAtRunning, WaitLooksAtFinished, WaitRegular,
        Condition, WaitReturns
    <3>3. CASE FrameLoop
      BY <3>3 DEF FrameLoop, Check, SetThreaded, InitTaskQueue, Wait, Reset, Cancel
    <3>4. QED
      BY <1>2, <3>1, <3>2, <3>3
  <2>3. ModeAgrees' /\ OldAgrees'
    BY <2>2 DEF ModeAgrees, OldAgrees, MainActive, InHandler
  <2>4. CASE TaskQueueInit
    <3>1. /\ pc[Worker] \in Away /\ pc'[Worker] \in Away
      BY <2>4 DEF TaskQueueInit, Control
    <3>2. /\ ~ MainActive /\ ~ MainOver /\ ~ MainActive' /\ ~ MainOver'
          /\ ~ WorkerActive /\ ~ WorkerOver /\ ~ WorkerActive' /\ ~ WorkerOver'
      BY <2>2, <3>1 DEF MainActive, MainOver, WorkerActive, WorkerOver, InHandler
    <3>3. \A t \in Tasks : Quiet(t)
      BY <2>1, <2>2, <3>1, <3>2, HandsKept
    <3>4. QED
      BY <2>3, <3>3
  <2>5. CASE ~ TaskQueueInit
    <3>1. pc'[Worker] = pc[Worker]
      <4>1. CASE SwitchStep
        BY <2>5, <4>1 DEF SwitchStep, DeinitStops, DeinitJoins
      <4>2. CASE WaitStep
        BY <4>2 DEF WaitStep, WaitLooksAtRunning, WaitLooksAtFinished, WaitRegular,
          Condition, WaitReturns
      <4>3. CASE FrameLoop
        BY <4>3 DEF FrameLoop, Check, SetThreaded, InitTaskQueue, Wait, Reset, Cancel
      <4>4. QED
        BY <1>2, <4>1, <4>2, <4>3
    <3>2. QED
      BY <2>1, <2>2, <2>3, <3>1, MainAway
  <2>6. QED
    BY <2>4, <2>5
<1>3. CASE CancelStep
  <2> USE DEF Goto, At, IInv, TypeOK, PcOK, PropsOK, LocalsOK, Threads, Away, MainLabels,
    WorkerLabels
  <2>1. /\ UNCHANGED <<finished, life, arg, cur>>
        /\ pc[Main] \in Away \ {"batch"} /\ pc'[Main] \in Away \ {"batch"}
        /\ pc'[Worker] = pc[Worker]
    BY <1>3 DEF CancelStep, CancelReadsFlags, CancelSetsCancelled, CancelEnds
  <2>2. \A t \in Tasks : "FINISHED" \in flags'[t] => "FINISHED" \in flags[t]
    <3>1. CASE CancelReadsFlags \/ CancelEnds
      BY <3>1, Zenon DEF CancelReadsFlags, CancelEnds
    <3>2. CASE CancelSetsCancelled
      <4>1. /\ pc[Main] = "cancel_write" /\ flags \in [Tasks -> SUBSET Flags]
            /\ flags' = [flags EXCEPT ![Head(todo)] = old[Main] \cup {"CANCELLED"}]
        BY <3>2 DEF CancelSetsCancelled
      <4>2. "FINISHED" \in old[Main] => "FINISHED" \in flags[Head(todo)]
        BY <4>1 DEF LInv, OldAgrees
      <4>3. QED
        BY <4>1, <4>2
    <3>3. QED
      BY <1>3, <3>1, <3>2 DEF CancelStep
  <2>3. ModeAgrees'
    BY <2>1 DEF ModeAgrees, MainActive, InHandler
  <2>4. OldAgrees'
    BY <1>3 DEF CancelStep, CancelReadsFlags, CancelSetsCancelled, CancelEnds, OldAgrees
  <2>5. QED
    BY <2>1, <2>2, <2>3, <2>4, MainAway
<1>4. QED
  BY <1>1, <1>2, <1>3

\* A handler goes on: its task stays active until its caller looks at the flags.
LEMMA HandlerIsQuiet ==
  ASSUME IInv, LInv, NEW th \in Threads, Handler(th)
  PROVE  (\A t \in Tasks : Unseen(t)) /\ LInv'
<1> USE DEF IInv, TypeOK, PcOK, LocalsOK, PropsOK, lists, props, mode, sleep, threads, history,
  Main, Worker
<1>1. /\ pc[th] \in {"handler", "set_flags"}
      /\ \E l \in {"set_flags", "rebuild", "read_flags"} :
           /\ pc' = [pc EXCEPT ![th] = l]
           /\ th = Main => l # "read_flags"
           /\ th = Worker => l # "rebuild"
      /\ UNCHANGED <<life, finished, cur, arg, impl, todo>>
  BY DEF Handler, HandlerYields, HandlerReschedules, HandlerReadsFlags, HandlerSetsFinished,
    AfterHandler, Goto, At
<1>2. /\ (MainActive' <=> MainActive) /\ (MainOver' <=> MainOver)
      /\ (WorkerActive' <=> WorkerActive) /\ (WorkerOver' <=> WorkerOver)
  <2>1. PICK l \in {"set_flags", "rebuild", "read_flags"} :
          /\ pc' = [pc EXCEPT ![th] = l]
          /\ th = Main => l # "read_flags"
          /\ th = Worker => l # "rebuild"
    BY <1>1
  <2>2. CASE th = Main
    BY <1>1, <2>1, <2>2 DEF MainActive, MainOver, WorkerActive, WorkerOver, InHandler, Threads
  <2>3. CASE th = Worker
    BY <1>1, <2>1, <2>3 DEF MainActive, MainOver, WorkerActive, WorkerOver, InHandler, Threads
  <2>4. QED
    BY <2>2, <2>3 DEF Threads
<1>3. \A t \in Tasks : Unseen(t)
  <2>1. \A t \in Tasks : (Active(t)' <=> Active(t)) /\ (Over(t)' <=> Over(t))
    BY <1>1, <1>2 DEF Active, Over
  <2>2. QED
    BY <1>1, <2>1 DEF Unseen
<1>4. \A t \in Tasks : Returned(t) => Returned(t)'
  BY <1>1 DEF Returned, Threads
<1>5. CASE HandlerSetsFinished(th)
  <2>1. /\ flags' = [flags EXCEPT ![cur[th]] = old[th] \cup {"FINISHED"}]
        /\ old' = [old EXCEPT ![th] = {}]
        /\ pc[th] = "set_flags"
        /\ pc' = [pc EXCEPT ![th] = IF th = Main THEN "rebuild" ELSE "read_flags"]
    BY <1>5 DEF HandlerSetsFinished, AfterHandler, Goto, At
  <2>2. \A t \in Tasks : FlagAgrees(t)'
    <3> SUFFICES ASSUME NEW t \in Tasks PROVE FlagAgrees(t)'
      OBVIOUS
    <3>1. CASE t = cur[th]
      BY <1>1, <2>1, <3>1 DEF FlagAgrees, Returned, Threads
    <3>2. CASE t # cur[th]
      BY <1>3, <1>4, <2>1, <3>2 DEF FlagAgrees, Unseen, LInv
    <3>3. QED
      BY <3>1, <3>2
  <2>3. OldAgrees'
    BY <1>1, <2>1 DEF OldAgrees, LInv, Threads
  <2>4. ModeAgrees'
    BY <1>1, <1>2 DEF ModeAgrees, LInv, Threads
  <2>5. QED
    BY <1>3, <2>2, <2>3, <2>4 DEF LInv
<1>6. CASE ~ HandlerSetsFinished(th)
  <2>1. UNCHANGED flags /\ (pc[Main] = "cancel_write" => UNCHANGED old[Main])
    BY <1>1, <1>6 DEF Handler, HandlerYields, HandlerReschedules, HandlerReadsFlags, Threads
  <2>2. \A t \in Tasks : Quiet(t)
    BY <1>3, <1>4, <2>1 DEF Quiet
  <2>3. \A t \in Tasks : FlagAgrees(t)'
    BY <2>2, QuietKeepsFlag DEF LInv
  <2>4. ModeAgrees'
    BY <1>1, <1>2 DEF ModeAgrees, LInv, Threads
  <2>5. OldAgrees'
    BY <1>1, <2>1 DEF OldAgrees, LInv, Threads
  <2>6. QED
    BY <1>3, <2>3, <2>4, <2>5 DEF LInv
<1>7. QED
  BY <1>5, <1>6

\* A task that is about to be pushed is new, until it is in the list.
LEMMA PushCheckIsQuiet ==
  ASSUME IInv, LInv, NEW th \in Threads, NEW t \in Tasks, PushCheck(th, t)
  PROVE  (\A u \in Tasks : Unseen(u)) /\ LInv'
<1> USE DEF IInv, TypeOK, PcOK, LocalsOK, PropsOK, lists, mode, sleep, history,
  Threads, Main, Worker
<1>1. /\ pc[th] \in Contexts /\ Pusher[t] = pc[th]
      /\ pc' = [pc EXCEPT ![th] = "put"] /\ arg' = [arg EXCEPT ![th] = t]
      /\ UNCHANGED <<finished, flags, cur, impl, old, todo>>
      /\ \A u \in Tasks : /\ life'[u] = "freed" <=> life[u] = "freed"
                          /\ life'[u] = "pushed" <=> life[u] = "pushed"
  BY DEF PushCheck, Goto
<1>2. /\ (MainActive' <=> MainActive) /\ (MainOver' <=> MainOver)
      /\ (WorkerActive' <=> WorkerActive) /\ (WorkerOver' <=> WorkerOver)
      /\ pc[Main] = "rebuild" => pc'[Main] = "rebuild"
      /\ pc[Worker] = "read_flags" => pc'[Worker] = "read_flags"
  BY <1>1 DEF MainActive, MainOver, WorkerActive, WorkerOver, InHandler, Contexts
<1>3. \A u \in Tasks : Quiet(u)
  BY <1>1, <1>2, HandsKept
<1>4. \A u \in Tasks : FlagAgrees(u)'
  BY <1>3, QuietKeepsFlag DEF LInv
<1>5. ModeAgrees' /\ OldAgrees'
  BY <1>1, <1>2 DEF LInv, ModeAgrees, OldAgrees, Contexts
<1>6. QED
  BY <1>3, <1>4, <1>5 DEF LInv, Quiet

\* What TaskLifecycle takes to be in the queue is there.
LEMMA QueuedIsInQueue ==
  ASSUME IInv, NEW t \in Tasks, Stage(t) \in {"queued", "active"}
  PROVE  t \in InQueue
<1>1. /\ StageAt(t) /\ (Active(t) \/ Over(t) => life[t] = "pushed")
      /\ life[t] \in {"new", "pushing", "pushed", "freed"}
  BY StageIs, Places DEF StageAgrees, InPlace, IInv, TypeOK, PropsOK
<1>2. life[t] = "pushed" /\ ~ Over(t)
  BY <1>1 DEF StageAt
<1>3. t \in Held \cup Members(running) \cup Members(batch)
  BY <1>2 DEF IInv, EveryTaskInOnePlace, Over
<1>4. CASE t \in Held
  <2>1. t = cur[Main] /\ cur[Main] # NoTask
    BY <1>2, <1>4 DEF Held, Over, WorkerOver
  <2>2. MainActive
    BY <1>2, <2>1 DEF IInv, Control, MainHas, Over, MainActive, MainOver, InHandler
  <2>3. QED
    BY <2>1, <2>2 DEF InQueue, MainActive
<1>5. QED
  BY <1>3, <1>4 DEF InQueue

\* The task enters the queue.
LEMMA PushIsShown ==
  ASSUME IInv, IInv', BlockingInv, LInv, NEW th \in Threads, PushRunning(th)
  PROVE  Lifecycle!Next /\ LInv'
<1> USE DEF IInv, TypeOK, PcOK, LocalsOK, PropsOK, lists, mode, sleep, history,
  Threads, Main, Worker
<1>0. PICK t \in Tasks : t = arg[th]
  BY InHand DEF PushRunning, At
<1>1. /\ arg[th] = t /\ pc[th] = "put" /\ Pusher[t] \in Contexts /\ life[t] = "pushing"
      /\ pc' = [pc EXCEPT ![th] = Pusher[t]] /\ arg' = [arg EXCEPT ![th] = NoTask]
      /\ th = Worker => Pusher[t] = "handler"
      /\ life' = [life EXCEPT ![t] = "pushed"]
      /\ UNCHANGED <<finished, flags, cur, impl, old, todo>>
  BY ZenonT(30), <1>0, TaskQueueAssumption DEF PushRunning, At, Goto, Control
<1>2. /\ (MainActive' <=> MainActive) /\ (MainOver' <=> MainOver)
      /\ (WorkerActive' <=> WorkerActive) /\ (WorkerOver' <=> WorkerOver)
      /\ pc[Main] = "rebuild" => pc'[Main] = "rebuild"
      /\ pc[Worker] = "read_flags" => pc'[Worker] = "read_flags"
  BY <1>1 DEF MainActive, MainOver, WorkerActive, WorkerOver, InHandler, Contexts
<1>3. \A u \in Tasks : (Active(u)' <=> Active(u)) /\ (Over(u)' <=> Over(u))
  BY <1>1, <1>2 DEF Active, Over
<1>4. \A u \in Tasks \ {t} : Unseen(u)
  BY <1>1, <1>3 DEF Unseen
<1>5. ~ Active(t) /\ ~ Over(t)
  BY <1>1, Places DEF InPlace
<1>6. Stage(t) = "new" /\ Stage(t)' = "queued"
  <2>1. StageAgrees /\ StageAgrees'
    BY StageIs, PTL
  <2>2. QED
    BY <1>1, <1>3, <1>5, <2>1 DEF StageAgrees, StageAt
<1>7. Lifecycle!Move(t, "new", "queued")
  BY <1>1, <1>4, <1>6, OneMoves
<1>8. t \in Blocking => \A u \in Blocking : ~ Lifecycle!InQueue(u)
  <2> SUFFICES ASSUME t \in Blocking, NEW u \in Blocking, Lifecycle!InQueue(u)
               PROVE  FALSE
    OBVIOUS
  <2>1. u \in Tasks /\ Stage(u) \in {"queued", "active"}
    BY TaskQueueAssumption DEF Lifecycle!InQueue
  <2>2. u \in InQueue
    BY <2>1, QueuedIsInQueue
  <2>3. th = Main
    BY <1>1 DEF BlockingInv
  <2>4. QED
    BY <1>1, <2>2, <2>3 DEF BlockingInv
<1>9. Lifecycle!Next
  BY <1>1, <1>7, <1>8 DEF Lifecycle!Next, Lifecycle!Push
<1>10. \A u \in Tasks : FlagAgrees(u)'
  <2>1. \A u \in Tasks : Returned(u) => Returned(u)'
    BY <1>1, <1>2 DEF Returned
  <2>2. "FINISHED" \notin flags[t]
    BY <1>1, <1>5 DEF LInv, FlagAgrees, Returned, Active, MainActive, WorkerActive
  <2>3. QED
    BY <1>1, <1>4, <2>1, <2>2, QuietKeepsFlag DEF LInv, Quiet, FlagAgrees
<1>11. ModeAgrees' /\ OldAgrees'
  BY <1>1, <1>2 DEF LInv, ModeAgrees, OldAgrees, Contexts
<1>12. QED
  BY <1>9, <1>10, <1>11 DEF LInv

\* In a step that moves one task the flags of all others keep agreeing.
LEMMA FlagsKept ==
  ASSUME LInv, NEW t \in Tasks, FlagAgrees(t)', \A u \in Tasks \ {t} : Quiet(u)
  PROVE  (\A u \in Tasks : FlagAgrees(u)') /\ (\A u \in Tasks \ {t} : Unseen(u))
BY QuietKeepsFlag DEF LInv, Quiet

\* The worker does not touch what the main thread goes by.
LEMMA WorkerKeepsModes ==
  ASSUME IInv, LInv, WorkerStep
  PROVE  /\ ModeAgrees' /\ OldAgrees'
         /\ UNCHANGED <<flags, life, arg>> /\ pc'[Main] = pc[Main] /\ cur'[Main] = cur[Main]
<1> USE DEF IInv, TypeOK, PcOK, LocalsOK, lists, props, mode, sleep, threads, history,
  Goto, At, Main, Worker, Threads
<1>1. /\ UNCHANGED <<flags, life, arg, impl, old, todo>>
      /\ pc'[Main] = pc[Main] /\ cur'[Main] = cur[Main]
  <2>1. CASE WorkerExits \/ WorkerSleeps \/ WorkerTimesOut \/ WorkerWakes
    BY <2>1 DEF WorkerExits, WorkerSleeps, WorkerTimesOut, WorkerWakes
  <2>2. CASE WorkerStarts
    BY <2>2 DEF WorkerStarts
  <2>3. CASE WorkerReadsFlags \/ WorkerRequeues \/ WorkerRemoves \/ WorkerPutsFinished
    BY <2>3 DEF WorkerReadsFlags, WorkerRequeues, WorkerRemoves, WorkerPutsFinished
  <2>4. QED
    BY <2>1, <2>2, <2>3 DEF WorkerStep
<1>2. QED
  BY <1>1 DEF LInv, ModeAgrees, OldAgrees, MainActive, InHandler

\* The worker starts a task, gives it back or finds that it has finished; its sleep
\* and what it does with the lists afterwards is not seen.
LEMMA WorkerIsShown ==
  ASSUME IInv, IInv', LInv, WorkerStep
  PROVE  (Lifecycle!Next \/ \A t \in Tasks : Unseen(t)) /\ LInv'
<1> USE DEF IInv, TypeOK, PcOK, LocalsOK, lists, props, mode, sleep, threads, history,
  Goto, At, Main, Worker, Threads
<1>1. /\ ModeAgrees' /\ OldAgrees'
      /\ UNCHANGED <<flags, life, arg>> /\ pc'[Main] = pc[Main] /\ cur'[Main] = cur[Main]
  BY WorkerKeepsModes
<1>2. (MainActive' <=> MainActive) /\ (MainOver' <=> MainOver)
  BY <1>1 DEF MainActive, MainOver, InHandler
<1>3. ASSUME \A t \in Tasks : Quiet(t)
      PROVE  (Lifecycle!Next \/ \A t \in Tasks : Unseen(t)) /\ LInv'
  BY <1>1, <1>3, QuietKeepsFlag DEF LInv, Quiet
<1>4. StageAgrees /\ StageAgrees' /\ InPlace
  BY StageIs, Places, PTL
<1>5. CASE WorkerExits \/ WorkerSleeps \/ WorkerTimesOut \/ WorkerWakes \/ WorkerRequeues
  <2>1. CASE WorkerTimesOut
    <3>1. UNCHANGED <<finished, cur, pc>>
      BY <2>1 DEF WorkerTimesOut
    <3>2. (WorkerActive' <=> WorkerActive) /\ (WorkerOver' <=> WorkerOver)
      BY <1>1, <3>1 DEF WorkerActive, WorkerOver, InHandler
    <3>3. QED
      BY <1>1, <1>2, <1>3, <3>1, <3>2, HandsKept
  <2>2. CASE ~ WorkerTimesOut
    <3>1. pc[Worker] \in Away /\ pc'[Worker] \in Away /\ UNCHANGED finished
      BY <1>5, <2>2 DEF WorkerExits, WorkerSleeps, WorkerWakes, WorkerRequeues,
        Away, WorkerLabels
    <3>2. QED
      BY <1>1, <1>3, <3>1, WorkerAway
  <2>3. QED
    BY <2>1, <2>2
<1>6. CASE WorkerStarts
  <2>1. /\ running # <<>> /\ pc[Worker] = "top" /\ pc'[Worker] = "handler"
        /\ UNCHANGED finished
    BY <1>6 DEF WorkerStarts
  <2>2. PICK t \in Tasks : t = Head(running) /\ t \in Members(running)
    BY <2>1, ListFacts DEF EveryTaskInOnePlace
  <2>3. cur'[Worker] = t
    BY <1>6, <2>2 DEF WorkerStarts
  <2>4. impl = "threaded" /\ ~ MainActive
    BY <2>1 DEF LInv, ModeAgrees, Control
  <2>5. /\ ~ WorkerActive /\ WorkerActive' /\ ~ WorkerOver /\ ~ WorkerOver'
    BY <2>1 DEF WorkerActive, WorkerOver, InHandler
  <2>6. \A u \in Tasks : ~ Active(u) /\ (Active(u)' <=> u = t) /\ (Over(u)' <=> Over(u))
    BY <1>1, <1>2, <2>1, <2>3, <2>4, <2>5 DEF Active, Over
  <2>7. \A u \in Tasks : Returned(u) => Returned(u)'
    BY <1>1, <2>1 DEF Returned
  <2>8. \A u \in Tasks \ {t} : Quiet(u)
    BY <1>1, <2>6, <2>7 DEF Quiet, Unseen
  <2>9. life[t] = "pushed" /\ ~ Over(t)
    <3>1. life[t] = "pushed" /\ t \notin Held /\ t \notin Members(finished)
      BY <2>2 DEF EveryTaskInOnePlace
    <3>2. QED
      BY <2>2, <2>5, <3>1, TaskQueueAssumption DEF Over, Held
  <2>10. Stage(t) = "queued" /\ Stage(t)' = "active"
    BY <1>4, <2>6, <2>9 DEF StageAgrees, StageAt
  <2>11. FlagAgrees(t)'
    BY <1>1, <2>6, <2>7, <2>9 DEF FlagAgrees, LInv
  <2>12. Lifecycle!Move(t, "queued", "active")
    BY <2>8, <2>10, <2>11, FlagsKept, OneMoves
  <2>13. \A u \in Tasks : stages[u] # "active"
    BY <1>4, <2>6, Places DEF stages, StageAgrees, StageAt, InPlace, PropsOK
  <2>14. Lifecycle!Next
    BY <2>12, <2>13 DEF Lifecycle!Next, Lifecycle!Start, stages
  <2>15. QED
    BY <1>1, <2>8, <2>11, <2>14, FlagsKept DEF LInv
<1>7. CASE WorkerReadsFlags
  <2>1. /\ pc[Worker] = "read_flags" /\ UNCHANGED <<finished, cur>>
        /\ pc'[Worker] = IF "FINISHED" \in flags[cur[Worker]] THEN "remove" ELSE "requeue"
    BY <1>7 DEF WorkerReadsFlags
  <2>2. PICK t \in Tasks : t = cur[Worker]
    BY <2>1, InHand DEF WorkerHas, EveryTaskInOnePlace
  <2>3. /\ WorkerActive /\ ~ WorkerActive' /\ ~ WorkerOver
        /\ WorkerOver' <=> "FINISHED" \in flags[t]
    BY <2>1, <2>2 DEF WorkerActive, WorkerOver, InHandler
  <2>4. Active(t) /\ ~ Over(t)
    BY <1>4, <2>2, <2>3 DEF Active, InPlace
  <2>5. /\ \A u \in Tasks \ {t} : (Active(u)' <=> Active(u)) /\ (Over(u)' <=> Over(u))
        /\ Over(t)' <=> "FINISHED" \in flags[t]
    BY <1>1, <1>2, <2>1, <2>2, <2>3, <2>4 DEF Active, Over
  <2>6. ~ Active(t)'
    <3>1. ~ (MainActive /\ cur[Main] = t)
      <4>1. MainActive => pc[Worker] = "none"
        BY DEF LInv, ModeAgrees, Control
      <4>2. QED
        BY <2>1, <4>1
    <3>2. QED
      BY <1>1, <1>2, <2>3, <3>1 DEF Active
  <2>7. \A u \in Tasks \ {t} : Returned(u) => Returned(u)'
    BY <1>1, <2>1, <2>2 DEF Returned
  <2>8. \A u \in Tasks \ {t} : Quiet(u)
    BY <1>1, <2>5, <2>7 DEF Quiet, Unseen
  <2>9. FlagAgrees(t)'
    BY <1>1, <2>5 DEF FlagAgrees
  <2>10. Stage(t) = "active" /\ Stage(t)' \in {"queued", "finished"}
    BY <1>1, <1>4, <2>4, <2>6 DEF StageAgrees, StageAt, InPlace
  <2>11. Lifecycle!Move(t, "active", Stage(t)')
    BY <2>8, <2>9, <2>10, FlagsKept, OneMoves
  <2>12. Lifecycle!Next
    BY <2>10, <2>11 DEF Lifecycle!Next, Lifecycle!Yield, Lifecycle!Finish
  <2>13. QED
    BY <1>1, <2>8, <2>9, <2>12, FlagsKept DEF LInv
<1>8. CASE WorkerRemoves
  <2>1. /\ UNCHANGED <<finished, cur>>
        /\ pc[Worker] = "remove" /\ pc'[Worker] = "put_finished"
    BY <1>8 DEF WorkerRemoves
  <2>2. /\ ~ WorkerActive /\ ~ WorkerActive' /\ WorkerOver /\ WorkerOver'
    BY <2>1 DEF WorkerActive, WorkerOver, InHandler
  <2>3. QED
    BY <1>1, <1>2, <1>3, <2>1, <2>2, HandsKept
<1>9. CASE WorkerPutsFinished
  <2>1. /\ pc[Worker] = "put_finished" /\ pc'[Worker] = "top"
        /\ finished' = task_queue_put(finished, cur[Worker], when)
    BY <1>9 DEF WorkerPutsFinished
  <2>2. cur[Worker] \in Tasks
    BY <2>1, InHand
  <2>3. Members(finished') = Members(finished) \cup {cur[Worker]}
    BY <2>1, <2>2, ListPlaces
  <2>4. /\ ~ WorkerActive /\ ~ WorkerActive' /\ WorkerOver /\ ~ WorkerOver'
    BY <2>1 DEF WorkerActive, WorkerOver, InHandler
  <2>5. \A t \in Tasks : (Active(t)' <=> Active(t)) /\ (Over(t)' <=> Over(t))
    BY <1>1, <1>2, <2>3, <2>4 DEF Active, Over
  <2>6. \A t \in Tasks : Returned(t) => Returned(t)'
    BY <1>1, <2>1 DEF Returned
  <2>7. QED
    BY <1>1, <1>3, <2>5, <2>6 DEF Quiet, Unseen
<1>10. QED
  BY <1>5, <1>6, <1>7, <1>8, <1>9 DEF WorkerStep

\* The collection of finished tasks and the batch of the regular implementation leave
\* the worker alone.
LEMMA GatherKeepsModes ==
  ASSUME IInv, LInv, GatherStep
  PROVE  /\ ModeAgrees' /\ OldAgrees'
         /\ UNCHANGED <<flags, arg>> /\ pc'[Worker] = pc[Worker] /\ cur'[Worker] = cur[Worker]
         /\ (WorkerActive' <=> WorkerActive) /\ (WorkerOver' <=> WorkerOver)
<1> USE DEF IInv, TypeOK, PcOK, LocalsOK, lists, props, mode, sleep, threads, history,
  Goto, At, Main, Worker, Threads
<1>1. /\ UNCHANGED <<flags, arg, impl>>
      /\ pc'[Worker] = pc[Worker] /\ cur'[Worker] = cur[Worker]
      /\ pc[Main] # "cancel_write" /\ pc'[Main] # "cancel_write"
      /\ pc'[Main] \in {"batch", "handler"} => impl = "regular"
      /\ pc'[Main] \notin {"rebuild", "set_flags", "put"}
  <2>1. CASE GatherLocks \/ GatherReports \/ GatherUnlocks \/ CollectLocks
    BY <2>1 DEF GatherLocks, GatherReports, GatherUnlocks, CollectLocks
  <2>2. CASE Collect
    BY <2>2 DEF Collect
  <2>3. CASE CallbackReturns
    BY <2>3 DEF CallbackReturns
  <2>4. CASE CollectEnds
    BY <2>4 DEF CollectEnds
  <2>5. CASE BatchTakes \/ BatchEnds
    BY <2>5 DEF BatchTakes, BatchEnds
  <2>6. CASE BatchStarts
    BY <2>6 DEF BatchStarts, LInv, ModeAgrees
  <2>7. CASE BatchPuts
    BY <2>7 DEF BatchPuts, LInv, ModeAgrees, MainActive
  <2>8. CASE BatchSkips
    BY <2>8 DEF BatchSkips, LInv, ModeAgrees
  <2>9. QED
    BY <2>1, <2>2, <2>3, <2>4, <2>5, <2>6, <2>7, <2>8 DEF GatherStep
<1>2. ModeAgrees' /\ OldAgrees'
  BY <1>1 DEF ModeAgrees, OldAgrees, MainActive, InHandler
<1>3. (WorkerActive' <=> WorkerActive) /\ (WorkerOver' <=> WorkerOver)
  BY <1>1 DEF WorkerActive, WorkerOver, InHandler
<1>4. QED
  BY <1>1, <1>2, <1>3

\* The main thread runs a task, puts it back or away, or frees it; that it takes all
\* of them from the list, and looks at those that are not due, is not seen.
LEMMA GatherIsShown ==
  ASSUME IInv, IInv', LInv, GatherStep
  PROVE  (Lifecycle!Next \/ \A t \in Tasks : Unseen(t)) /\ LInv'
<1> USE DEF IInv, TypeOK, PcOK, LocalsOK, lists, props, mode, sleep, threads, history,
  Goto, At, Main, Worker, Threads
<1>1. /\ ModeAgrees' /\ OldAgrees'
      /\ UNCHANGED <<flags, arg>> /\ pc'[Worker] = pc[Worker] /\ cur'[Worker] = cur[Worker]
      /\ (WorkerActive' <=> WorkerActive) /\ (WorkerOver' <=> WorkerOver)
  BY GatherKeepsModes
<1>2. ASSUME \A t \in Tasks : Quiet(t)
      PROVE  (Lifecycle!Next \/ \A t \in Tasks : Unseen(t)) /\ LInv'
  BY <1>1, <1>2, QuietKeepsFlag DEF LInv, Quiet
<1>3. StageAgrees /\ StageAgrees' /\ InPlace
  BY StageIs, Places, PTL
<1>4. CASE \/ GatherLocks \/ GatherReports \/ GatherUnlocks \/ CollectLocks \/ CollectEnds
           \/ BatchTakes \/ BatchEnds
  <2>1. pc[Main] \in Away /\ pc'[Main] \in Away /\ UNCHANGED <<finished, life>>
    BY <1>4 DEF GatherLocks, GatherReports, GatherUnlocks, CollectLocks, CollectEnds,
      BatchTakes, BatchEnds, Away, MainLabels
  <2>2. QED
    BY <1>1, <1>2, <2>1, MainAway
<1>5. CASE Collect
  <2>1. /\ pc[Main] = "collect" /\ pc'[Main] = "callback" /\ UNCHANGED life
        /\ finished # <<>> /\ finished' = Tail(finished) /\ cur'[Main] = Head(finished)
    BY <1>5 DEF Collect
  <2>2. /\ Head(finished) \in Members(finished)
        /\ Members(finished') = Members(finished) \ {Head(finished)}
    BY <2>1, ListPlaces
  <2>3. ~ MainActive /\ ~ MainActive' /\ ~ MainOver /\ MainOver'
    BY <2>1 DEF MainActive, MainOver, InHandler
  <2>4. \A t \in Tasks : (Active(t)' <=> Active(t)) /\ (Over(t)' <=> Over(t))
    BY <1>1, <2>1, <2>2, <2>3 DEF Active, Over
  <2>5. \A t \in Tasks : Returned(t) => Returned(t)'
    BY <1>1, <2>1 DEF Returned
  <2>6. QED
    BY <1>1, <1>2, <2>1, <2>4, <2>5 DEF Quiet, Unseen
<1>6. CASE CallbackReturns
  <2>1. /\ pc[Main] = "callback" /\ pc'[Main] = "collect" /\ UNCHANGED finished
        /\ life' = [life EXCEPT ![cur[Main]] = "freed"]
    BY <1>6 DEF CallbackReturns
  <2>2. PICK t \in Tasks : t = cur[Main]
    BY <2>1, InHand
  <2>3. ~ MainActive /\ ~ MainActive' /\ MainOver /\ ~ MainOver'
    BY <2>1 DEF MainActive, MainOver, InHandler
  <2>4. \A u \in Tasks \ {t} : (Active(u)' <=> Active(u)) /\ (Over(u)' <=> Over(u))
    BY <1>1, <2>1, <2>2, <2>3 DEF Active, Over
  <2>5. \A u \in Tasks : Returned(u) => Returned(u)'
    BY <1>1, <2>1 DEF Returned
  <2>6. /\ life'[t] = "freed"
        /\ \A u \in Tasks \ {t} : life'[u] = life[u]
    BY <2>1, <2>2 DEF PropsOK
  <2>7. \A u \in Tasks \ {t} : Quiet(u)
    BY <1>1, <2>4, <2>5, <2>6 DEF Quiet, Unseen
  <2>8. FlagAgrees(t)'
    BY <2>6 DEF FlagAgrees
  <2>9. Stage(t) = "finished" /\ Stage(t)' = "freed"
    BY <1>3, <2>2, <2>3, <2>6 DEF StageAgrees, StageAt, Over
  <2>10. Lifecycle!Move(t, "finished", "freed")
    BY <2>7, <2>8, <2>9, FlagsKept, OneMoves
  <2>11. Lifecycle!Next
    BY <2>10 DEF Lifecycle!Next, Lifecycle!Deliver
  <2>12. QED
    BY <1>1, <2>7, <2>8, <2>11, FlagsKept DEF LInv
<1>7. CASE BatchStarts
  <2>1. /\ pc[Main] = "batch" /\ pc'[Main] = "handler" /\ UNCHANGED <<finished, life>>
        /\ batch # <<>> /\ cur'[Main] = Head(batch)
    BY <1>7 DEF BatchStarts
  <2>2. PICK t \in Tasks : t = Head(batch) /\ t \in Members(batch)
    BY <2>1, ListFacts, ListPlaces
  <2>3. ~ MainActive /\ MainActive' /\ ~ MainOver /\ ~ MainOver'
    BY <2>1 DEF MainActive, MainOver, InHandler
  <2>4. pc[Worker] = "none" /\ ~ WorkerActive /\ ~ WorkerOver
    <3>1. pc[Worker] = "none"
      BY <2>1 DEF LInv, ModeAgrees, Control
    <3>2. QED
      BY <3>1 DEF WorkerActive, WorkerOver, InHandler
  <2>5. \A u \in Tasks : ~ Active(u) /\ (Active(u)' <=> u = t) /\ (Over(u)' <=> Over(u))
    BY <1>1, <2>1, <2>2, <2>3, <2>4 DEF Active, Over
  <2>6. \A u \in Tasks : Returned(u) => Returned(u)'
    BY <1>1, <2>1 DEF Returned
  <2>7. \A u \in Tasks \ {t} : Quiet(u)
    BY <1>1, <2>1, <2>5, <2>6 DEF Quiet, Unseen
  <2>8. life[t] = "pushed" /\ ~ Over(t)
    <3>1. life[t] = "pushed" /\ t \notin Members(finished)
      BY <2>2 DEF EveryTaskInOnePlace
    <3>2. QED
      BY <2>3, <2>4, <3>1 DEF Over
  <2>9. Stage(t) = "queued" /\ Stage(t)' = "active"
    BY <1>3, <2>5, <2>8 DEF StageAgrees, StageAt
  <2>10. FlagAgrees(t)'
    BY <1>1, <2>1, <2>5, <2>6, <2>8 DEF FlagAgrees, LInv
  <2>11. Lifecycle!Move(t, "queued", "active")
    BY <2>7, <2>9, <2>10, FlagsKept, OneMoves
  <2>12. \A u \in Tasks : stages[u] # "active"
    BY <1>3, <2>5, Places DEF stages, StageAgrees, StageAt, InPlace, PropsOK
  <2>13. Lifecycle!Next
    BY <2>11, <2>12 DEF Lifecycle!Next, Lifecycle!Start, stages
  <2>14. QED
    BY <1>1, <2>7, <2>10, <2>13, FlagsKept DEF LInv
<1>8. CASE BatchPuts
  <2>1. /\ pc[Main] = "rebuild" /\ pc'[Main] = "batch" /\ UNCHANGED life
        /\ PutBack(cur[Main])
    BY <1>8 DEF BatchPuts
  <2>2. PICK t \in Tasks : t = cur[Main]
    BY <2>1, InHand
  <2>3. Members(finished') = Members(finished) \cup (IF "FINISHED" \in flags[t] THEN {t} ELSE {})
    BY <2>1, <2>2, ListPlaces DEF PutBack
  <2>4. MainActive /\ ~ MainActive' /\ ~ MainOver /\ ~ MainOver'
    BY <2>1 DEF MainActive, MainOver, InHandler
  <2>5. pc[Worker] = "none" /\ ~ WorkerActive /\ ~ WorkerOver
    <3>1. pc[Worker] = "none"
      BY <2>4 DEF LInv, ModeAgrees, Control
    <3>2. QED
      BY <3>1 DEF WorkerActive, WorkerOver, InHandler
  <2>6. Active(t) /\ ~ Active(t)' /\ ~ Over(t)
    BY <1>1, <1>3, <2>2, <2>4, <2>5 DEF Active, InPlace
  <2>7. /\ \A u \in Tasks \ {t} : (Active(u)' <=> Active(u)) /\ (Over(u)' <=> Over(u))
        /\ Over(t)' <=> "FINISHED" \in flags[t]
    BY <1>1, <2>2, <2>3, <2>4, <2>5, <2>6 DEF Active, Over
  <2>8. \A u \in Tasks \ {t} : Returned(u) => Returned(u)'
    BY <1>1, <2>1, <2>2 DEF Returned
  <2>9. \A u \in Tasks \ {t} : Quiet(u)
    BY <1>1, <2>1, <2>7, <2>8 DEF Quiet, Unseen
  <2>10. FlagAgrees(t)'
    BY <1>1, <2>7 DEF FlagAgrees
  <2>11. Stage(t) = "active" /\ Stage(t)' \in {"queued", "finished"}
    BY <1>3, <2>1, <2>6 DEF StageAgrees, StageAt, InPlace
  <2>12. Lifecycle!Move(t, "active", Stage(t)')
    BY <2>9, <2>10, <2>11, FlagsKept, OneMoves
  <2>13. Lifecycle!Next
    BY <2>11, <2>12 DEF Lifecycle!Next, Lifecycle!Yield, Lifecycle!Finish
  <2>14. QED
    BY <1>1, <2>9, <2>10, <2>13, FlagsKept DEF LInv
<1>9. CASE BatchSkips
  <2>1. /\ pc[Main] = "batch" /\ batch # <<>> /\ UNCHANGED <<pc, cur, life>>
        /\ PutBack(Head(batch))
    BY <1>9 DEF BatchSkips
  <2>2. PICK t \in Tasks : t = Head(batch) /\ t \in Members(batch)
    BY <2>1, ListFacts, ListPlaces
  <2>3. ~ MainActive /\ ~ MainActive' /\ ~ MainOver /\ ~ MainOver'
    BY <1>1, <2>1 DEF MainActive, MainOver, InHandler
  <2>4. pc[Worker] = "none" /\ ~ WorkerActive /\ ~ WorkerOver
    <3>1. pc[Worker] = "none"
      BY <2>1 DEF LInv, ModeAgrees, Control
    <3>2. QED
      BY <3>1 DEF WorkerActive, WorkerOver, InHandler
  <2>5. "FINISHED" \notin flags[t]
    <3>1. life[t] = "pushed" /\ t \notin Members(finished)
      BY <2>2 DEF EveryTaskInOnePlace
    <3>2. ~ Over(t) /\ ~ Returned(t)
      BY <2>1, <2>3, <2>4, <3>1 DEF Over, Returned
    <3>3. QED
      BY <3>1, <3>2 DEF LInv, FlagAgrees
  <2>6. UNCHANGED finished
    BY <2>1, <2>2, <2>5 DEF PutBack
  <2>7. QED
    BY <1>1, <1>2, <2>1, <2>3, <2>6, HandsKept
<1>10. QED
  BY <1>4, <1>5, <1>6, <1>7, <1>8, <1>9 DEF GatherStep

\* Every task begins as new, with no flag set.
LEMMA InitShown == Init => Lifecycle!Init /\ LInv
<1> SUFFICES ASSUME Init
             PROVE  Lifecycle!Init /\ LInv
  OBVIOUS
<1>1. /\ pc[Main] = "idle" /\ \A t \in Tasks : life[t] = "new" /\ flags[t] = {}
  BY DEF Init, Threads, Main, Worker
<1>2. LInv
  BY <1>1 DEF LInv, ModeAgrees, OldAgrees, FlagAgrees, MainActive, InHandler
<1>3. \A t \in Tasks : Stage(t) = "new"
  BY <1>1, InitIInv, StageIs DEF StageAgrees, StageAt
<1>4. QED
  BY <1>2, <1>3 DEF Lifecycle!Init

\* Every step of the queue is one of TaskLifecycle or a stutter, and keeps LInv.
LEMMA NextShown ==
  ASSUME IInv, IInv', BlockingInv, LInv, [Next]_vars
  PROVE  [Lifecycle!Next]_stages /\ LInv'
<1>1. ASSUME (\A t \in Tasks : Quiet(t)) /\ ModeAgrees' /\ OldAgrees'
      PROVE  [Lifecycle!Next]_stages /\ LInv'
  BY <1>1, QuietKeepsFlag, AllUnseen DEF LInv, Quiet
<1>2. CASE SwitchStep \/ WaitStep \/ CancelStep \/ FrameLoop \/ Tick \/ UNCHANGED vars
  BY <1>1, <1>2, MainIsQuiet
<1>3. CASE \E th \in Threads : Handler(th)
  BY <1>3, HandlerIsQuiet, AllUnseen
<1>4. CASE \E th \in Threads, t \in Tasks : PushCheck(th, t)
  BY <1>4, PushCheckIsQuiet, AllUnseen
<1>5. CASE \E th \in Threads : PushRunning(th)
  BY <1>5, PushIsShown
<1>6. CASE WorkerStep
  BY <1>6, WorkerIsShown, AllUnseen
<1>7. CASE GatherStep
  BY <1>7, GatherIsShown, AllUnseen
<1>8. QED
  BY <1>2, <1>3, <1>4, <1>5, <1>6, <1>7 DEF Next, Push

\* task_queue.c keeps what task_queue.h promises of every task, in both modes and
\* over every change of mode: it is run by one handler call at a time and no two
\* handlers at once, delivered and freed exactly once after its handler has
\* finished, and never run again.
THEOREM Implements == Spec => ImplementsLifecycle
<1>1. IInv /\ IInv' /\ BlockingInv /\ LInv /\ [Next]_vars => [Lifecycle!Next]_stages /\ LInv'
  BY NextShown
<1>2. IInv /\ BlockingInv /\ [Next]_vars => BlockingInv'
  BY NextBlockingInv
<1>3. QED
  BY <1>1, <1>2, InitShown, InitBlockingInv, Invariance, PTL
    DEF Spec, ImplementsLifecycle, Lifecycle!Spec, stages
=============================================================================
