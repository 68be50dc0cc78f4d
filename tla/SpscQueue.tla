----------------------------- MODULE SpscQueue -----------------------------
(***************************************************************************)
(* libretro-common/queues/retro_spsc.c: the lock-free queue of bytes with  *)
(* one producer and one consumer, between audio_driver's thread and the    *)
(* callback of the sound card (audio/drivers/asio.c).                      *)
(*                                                                         *)
(* head and tail are size_t and wrap around: arithmetic is modulo Wrap.    *)
(* The bytes are copied one at a time, under no lock, between the loads    *)
(* and the store of the cursors.  An acquire load may return an older      *)
(* value than the other thread has stored, but none older than one it      *)
(* returned before: the values stored and not yet seen are in `heads` and  *)
(* `tails`, and a load takes any number of them.  All that was written     *)
(* before a value was stored is visible once it is loaded, so the buffer   *)
(* is one function as long as no byte is written and read at a time, which *)
(* is what NoRace says.                                                    *)
(***************************************************************************)
EXTENDS Integers, Sequences, SequencesExt, FiniteSets

CONSTANTS
  Bits,      \* the width of size_t
  Values,    \* what a byte may be
  Junk,      \* a byte of a buffer fresh from malloc
  Sizes,     \* the values of min_capacity
  MaxBytes   \* bound on the size of one read or write

Pow2[k \in Nat] == IF k = 0 THEN 1 ELSE 2 * Pow2[k - 1]

Wrap    == Pow2[Bits]
SizeMax == Wrap - 1

ASSUME SpscAssumption ==
  /\ Bits \in Nat /\ Bits >= 2
  /\ Junk \notin Values
  /\ Sizes \subseteq 0..SizeMax
  /\ MaxBytes \in Nat \ {0}

VARIABLES
  capacity,  \* 0 when there is no buffer
  buffer,    \* the bytes, by index
  head,      \* where the producer has got to
  tail,      \* where the consumer has got to
  heads,     \* the values of head the consumer has not seen, oldest first
  tails,     \* the values of tail the producer has not seen
  headSeen,  \* the value of head the consumer has last loaded
  tailSeen,  \* the value of tail the producer has last loaded
  src,       \* the bytes the producer is writing
  written,   \* how many of them are in the buffer
  dst,       \* the bytes the consumer has read
  wanted,    \* how many it is to read
  peeking,   \* by retro_spsc_peek
  pc,        \* where each thread is
  room,      \* what is left of the answer of retro_spsc_write_avail
  ready      \* what is left of the answer of retro_spsc_read_avail

cursors  == <<head, tail, heads, tails, headSeen, tailSeen>>
producer == <<src, written, room>>
consumer == <<dst, wanted, peeking, ready>>
vars     == <<capacity, buffer, cursors, producer, consumer, pc>>

Cursor == 0..SizeMax

TypeOK ==
  /\ capacity \in 0..(SizeMax \div 2)
  /\ buffer \in [0..(capacity - 1) -> Values \cup {Junk}]
  /\ {head, tail, headSeen, tailSeen} \subseteq Cursor
  /\ heads \in Seq(Cursor) /\ tails \in Seq(Cursor)
  /\ src \in Seq(Values) /\ written \in 0..Len(src)
  /\ dst \in Seq(Values \cup {Junk}) /\ wanted \in 0..capacity
  /\ peeking \in BOOLEAN
  /\ pc \in [{"producer", "consumer"} -> {"idle", "copy", "returned"}]
  /\ room \in 0..capacity /\ ready \in 0..capacity

Empty ==
  /\ head = 0 /\ tail = 0 /\ heads = <<>> /\ tails = <<>>
  /\ headSeen = 0 /\ tailSeen = 0

Init ==
  /\ capacity = 0 /\ buffer = <<>>
  /\ Empty
  /\ src = <<>> /\ written = 0 /\ room = 0
  /\ dst = <<>> /\ wanted = 0 /\ peeking = FALSE /\ ready = 0
  /\ pc = [th \in {"producer", "consumer"} |-> "idle"]

\* Mutant: the sum is that of numbers without a width.
PlusNoWrap(x, y) == x + y

\* The difference and the sum of two values of type size_t.
Minus(x, y) == (x - y) % Wrap
Plus(x, y)  == (x + y) % Wrap

Smaller(x, y) == IF x < y THEN x ELSE y
-----------------------------------------------------------------------------
(* retro_spsc_init, free and clear: nobody else uses the queue. *)

Quiescent == \A th \in DOMAIN pc : pc[th] = "idle"

\* Mutant: the loop goes on when it has found the power of two.
RoundUpTwice(v) ==
  LET Up[r \in Nat] == IF r <= v THEN Up[2 * r] ELSE r IN IF v = 0 THEN 0 ELSE Up[1]

\* v & (v - 1) is 0 for 0 and for the powers of two, which the loop returns too.
spsc_round_up_pow2(v) ==
  LET Up[r \in Nat] == IF r < v THEN Up[2 * r] ELSE r IN IF v = 0 THEN 0 ELSE Up[1]

\* The parameter is refused, or the buffer is allocated.
Accepted(min) ==
  /\ min # 0 /\ min <= SizeMax \div 2
  /\ spsc_round_up_pow2(min) <= SizeMax \div 2

NewCursors ==
  /\ head' = 0 /\ tail' = 0 /\ heads' = <<>> /\ tails' = <<>>
  /\ headSeen' = 0 /\ tailSeen' = 0
  /\ room' = 0 /\ ready' = 0

retro_spsc_init(min) ==
  /\ capacity = 0
  /\ Accepted(min)
  /\ capacity' = spsc_round_up_pow2(min)
  /\ buffer' = [i \in 0..(capacity' - 1) |-> Junk]
  /\ NewCursors
  /\ UNCHANGED <<src, written, dst, wanted, peeking, pc>>

retro_spsc_free ==
  /\ capacity # 0 /\ Quiescent
  /\ capacity' = 0 /\ buffer' = <<>>
  /\ room' = 0 /\ ready' = 0
  /\ UNCHANGED <<cursors, src, written, dst, wanted, peeking, pc>>

\* Mutant: only the consumer's cursor is reset.
ClearTailOnly ==
  /\ capacity # 0 /\ Quiescent
  /\ tail' = 0 /\ tails' = <<>> /\ tailSeen' = 0
  /\ room' = 0 /\ ready' = 0
  /\ UNCHANGED <<capacity, buffer, head, heads, headSeen, src, written, dst, wanted, peeking, pc>>

retro_spsc_clear ==
  /\ capacity # 0 /\ Quiescent
  /\ NewCursors
  /\ UNCHANGED <<capacity, buffer, src, written, dst, wanted, peeking, pc>>
-----------------------------------------------------------------------------
(* The cursors. *)

\* retro_atomic_load_acquire_size of the other thread's cursor.
LoadTail(n) ==
  /\ tailSeen' = IF n = 0 THEN tailSeen ELSE tails[n]
  /\ tails' = SubSeq(tails, n + 1, Len(tails))
LoadHead(n) ==
  /\ headSeen' = IF n = 0 THEN headSeen ELSE heads[n]
  /\ heads' = SubSeq(heads, n + 1, Len(heads))

\* Mutant: one byte more than there is room for.
WriteAvailOneMore(t) == capacity - Minus(head, t) + 1

\* How many bytes can be written, and how many read.
WriteAvail(t) == capacity - Minus(head, t)
ReadAvail(h)  == Minus(h, tail)

\* Mutant: the second memcpy goes on in the data, but not at the beginning.
IndexSecondAtCursor(cursor, n, i) ==
  LET idx   == cursor % capacity
      first == Smaller(capacity - idx, n)
  IN  IF i < first THEN idx + i ELSE idx + i - first

\* The index of byte i of n bytes from a cursor on: the first memcpy goes to
\* the end of the buffer, the second starts at its beginning.
Index(cursor, n, i) ==
  LET idx   == cursor % capacity
      first == Smaller(capacity - idx, n)
  IN  IF i < first THEN idx + i ELSE i - first

-----------------------------------------------------------------------------
(* The producer. *)

retro_spsc_write_avail(n) ==
  /\ capacity # 0 /\ pc["producer"] = "idle"
  /\ LoadTail(n)
  /\ room' = WriteAvail(tailSeen')
  /\ UNCHANGED <<capacity, buffer, head, tail, heads, headSeen, src, written, consumer, pc>>

\* The loads, and how much of the data there is room for.
WriteBegins(n, data) ==
  /\ capacity # 0 /\ pc["producer"] = "idle"
  /\ LoadTail(n)
  /\ src' = SubSeq(data, 1, Smaller(Len(data), WriteAvail(tailSeen')))
  /\ written' = 0
  /\ pc' = [pc EXCEPT !["producer"] = IF src' = <<>> THEN "idle" ELSE "copy"]
  /\ UNCHANGED <<capacity, buffer, head, tail, heads, headSeen, room, consumer>>

WriteCopies ==
  /\ pc["producer"] = "copy" /\ written < Len(src)
  /\ buffer' = [buffer EXCEPT ![Index(head, Len(src), written)] = src[written + 1]]
  /\ written' = written + 1
  /\ UNCHANGED <<capacity, cursors, src, room, consumer, pc>>

WriteReturns ==
  /\ pc["producer"] = "copy" /\ written = Len(src)
  /\ head' = Plus(head, Len(src))
  /\ heads' = Append(heads, head')
  /\ room' = IF Len(src) < room THEN room - Len(src) ELSE 0
  /\ src' = <<>> /\ written' = 0
  /\ pc' = [pc EXCEPT !["producer"] = "idle"]
  /\ UNCHANGED <<capacity, buffer, tail, tails, headSeen, tailSeen, consumer>>
-----------------------------------------------------------------------------
(* The consumer. *)

retro_spsc_read_avail(n) ==
  /\ capacity # 0 /\ pc["consumer"] = "idle"
  /\ LoadHead(n)
  /\ ready' = ReadAvail(headSeen')
  /\ UNCHANGED <<capacity, buffer, head, tail, tails, tailSeen, producer, dst, wanted, peeking, pc>>

\* retro_spsc_read or retro_spsc_peek: the loads.
ReadBegins(n, bytes, peek) ==
  /\ capacity # 0 /\ pc["consumer"] = "idle"
  /\ LoadHead(n)
  /\ wanted' = Smaller(bytes, ReadAvail(headSeen'))
  /\ peeking' = (peek /\ wanted' # 0)
  /\ pc' = [pc EXCEPT !["consumer"] = IF wanted' = 0 THEN "idle" ELSE "copy"]
  /\ UNCHANGED <<capacity, buffer, head, tail, tails, tailSeen, producer, dst, ready>>

ReadCopies ==
  /\ pc["consumer"] = "copy" /\ Len(dst) < wanted
  /\ dst' = Append(dst, buffer[Index(tail, wanted, Len(dst))])
  /\ UNCHANGED <<capacity, buffer, cursors, producer, wanted, peeking, ready, pc>>

\* Mutant: retro_spsc_peek moves the tail.
PeekConsumes ==
  /\ pc["consumer"] = "copy" /\ Len(dst) = wanted
  /\ tail' = Plus(tail, wanted)
  /\ tails' = Append(tails, tail')
  /\ ready' = IF peeking THEN ready ELSE IF wanted < ready THEN ready - wanted ELSE 0
  /\ pc' = [pc EXCEPT !["consumer"] = "returned"]
  /\ UNCHANGED <<capacity, buffer, head, heads, headSeen, tailSeen, producer, dst, wanted, peeking>>

ReadReturns ==
  /\ pc["consumer"] = "copy" /\ Len(dst) = wanted
  /\ IF peeking THEN UNCHANGED <<tail, tails, ready>>
     ELSE /\ tail' = Plus(tail, wanted)
          /\ tails' = Append(tails, tail')
          /\ ready' = IF wanted < ready THEN ready - wanted ELSE 0
  /\ pc' = [pc EXCEPT !["consumer"] = "returned"]
  /\ UNCHANGED <<capacity, buffer, head, heads, headSeen, tailSeen, producer, dst, wanted, peeking>>

\* The caller has used the bytes.
Consumed ==
  /\ pc["consumer"] = "returned"
  /\ dst' = <<>> /\ wanted' = 0 /\ peeking' = FALSE
  /\ pc' = [pc EXCEPT !["consumer"] = "idle"]
  /\ UNCHANGED <<capacity, buffer, cursors, producer, ready>>
-----------------------------------------------------------------------------
Lifetime == retro_spsc_free \/ retro_spsc_clear \/ \E min \in Sizes : retro_spsc_init(min)

Data == UNION { [1..n -> Values] : n \in 1..MaxBytes }

ProducerStep ==
  \/ \E n \in 0..Len(tails) :
       retro_spsc_write_avail(n) \/ \E data \in Data : WriteBegins(n, data)
  \/ WriteCopies \/ WriteReturns

ConsumerStep ==
  \/ \E n \in 0..Len(heads) :
       \/ retro_spsc_read_avail(n)
       \/ \E bytes \in 1..MaxBytes, peek \in BOOLEAN : ReadBegins(n, bytes, peek)
  \/ ReadCopies \/ ReadReturns \/ Consumed

Next == Lifetime \/ ProducerStep \/ ConsumerStep

Spec == Init /\ [][Next]_vars
-----------------------------------------------------------------------------
\* "Rounds up to the next power of 2": the buffer in use is a power of two, and
\* the smallest that holds some capacity that was asked for.  The cursors rely
\* on it: it divides Wrap, so that an index goes on where it was when a cursor
\* wraps around.
RoundsUp ==
  capacity # 0 =>
    \E k \in 0..Bits :
      /\ capacity = Pow2[k]
      /\ \E min \in Sizes : min <= capacity /\ (k > 0 => min > Pow2[k - 1])

\* "Invariant: 0 <= head - tail <= capacity", whatever each thread has seen of
\* the other's cursor and however often the cursors have wrapped around: the
\* four cursors stand in the order tailSeen, tail, headSeen, head.
CursorsInOrder ==
  capacity # 0 =>
    /\ Minus(head, tailSeen) <= capacity
    /\ Minus(tail, tailSeen) + Minus(headSeen, tail) + Minus(head, headSeen)
         = Minus(head, tailSeen)

\* The bytes of the buffer each thread may touch before its call returns.
Writing == { Index(head, Len(src), i) : i \in written..(Len(src) - 1) }
Reading == { Index(tail, wanted, i) : i \in Len(dst)..(wanted - 1) }

\* No byte is written while it may be read: the copies need no lock.
NoRace ==
  pc["producer"] = "copy" /\ pc["consumer"] = "copy" => Writing \cap Reading = {}

\* A write of no more than retro_spsc_write_avail has returned is taken as a
\* whole, and a read of no more than retro_spsc_read_avail has returned is
\* given all it asks for, whatever the other thread does in between:
\* asio_deinterleave_to_buffers reads frame by frame what it was told there is.
PromisesKept ==
  capacity # 0 =>
    /\ \A t \in {tailSeen} \cup ToSet(tails) : WriteAvail(t) >= room
    /\ \A h \in {headSeen} \cup ToSet(heads) : ReadAvail(h) >= ready

-----------------------------------------------------------------------------
(* The inductive invariant of SpscQueueProofs. *)

\* How far a cursor is from the last value of tail that the producer has seen.
Dist(x) == Minus(x, tailSeen)

\* CursorsInOrder, with the values that are under way: they come in the order in
\* which they were stored.
OrderAgrees ==
  capacity # 0 =>
    /\ Dist(tail) <= Dist(headSeen) /\ Dist(headSeen) <= Dist(head) /\ Dist(head) <= capacity
    /\ \A i \in 1..Len(tails) : Dist(tails[i]) <= Dist(tail)
    /\ \A i, j \in 1..Len(tails) : i <= j => Dist(tails[i]) <= Dist(tails[j])
    /\ \A i \in 1..Len(heads) : Dist(headSeen) <= Dist(heads[i]) /\ Dist(heads[i]) <= Dist(head)
    /\ \A i, j \in 1..Len(heads) : i <= j => Dist(heads[i]) <= Dist(heads[j])

\* What a thread is about to copy was there, or had room, when it looked, and is
\* still; and so for what it has been promised.
ThreadsAgree ==
  /\ pc["producer"] \in {"idle", "copy"}
  /\ pc["producer"] = "idle" => src = <<>> /\ written = 0
  /\ pc["producer"] = "copy" => capacity # 0 /\ src # <<>> /\ Len(src) <= WriteAvail(tailSeen)
  /\ pc["consumer"] = "idle" => dst = <<>> /\ wanted = 0 /\ ~peeking
  /\ pc["consumer"] # "idle" => capacity # 0 /\ Len(dst) <= wanted /\ wanted # 0
  /\ pc["consumer"] = "copy" => wanted <= ReadAvail(headSeen)
  /\ pc["consumer"] = "returned" => Len(dst) = wanted
  /\ capacity = 0 => room = 0 /\ ready = 0
  /\ capacity # 0 => room <= WriteAvail(tailSeen) /\ ready <= ReadAvail(headSeen)

\* What has been copied is what is in the buffer.
DataAgrees ==
  /\ pc["producer"] = "copy" =>
       \A i \in 0..(written - 1) : buffer[(head + i) % capacity] = src[i + 1]
  /\ pc["consumer"] = "copy" =>
       \A i \in 0..(Len(dst) - 1) : dst[i + 1] = buffer[(tail + i) % capacity]

IInv == TypeOK /\ RoundsUp /\ OrderAgrees /\ ThreadsAgree /\ DataAgrees
-----------------------------------------------------------------------------
\* The bytes from the tail to the head, and those the consumer has been given.
Stream ==
  [i \in 1..(IF capacity = 0 THEN 0 ELSE Minus(head, tail)) |-> buffer[(tail + (i - 1)) % capacity]]
Got == IF pc["consumer"] = "returned" THEN dst ELSE <<>>

Fifo == INSTANCE ByteFifo WITH
  Limit <- SizeMax \div 2, stream <- Stream, input <- src, got <- Got

\* What is written comes out as it went in: whole, in order, once.
ImplementsByteFifo == Fifo!Spec
=============================================================================
