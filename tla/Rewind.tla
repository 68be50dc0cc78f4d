------------------------------- MODULE Rewind -------------------------------
(***************************************************************************)
(* state_manager.c 293-544 and 652-802: the buffer rewind keeps its states *)
(* in.  The newest state is kept whole in `thisblock`; `data` is a ring of *)
(* patches, each of which leads from a state to the one before it.  A      *)
(* patch lies between the address of the next start and that of its own:   *)
(* the cell at a start holds the address of the next one, and the cell in  *)
(* front of the next one holds that of this one.                           *)
(*                                                                         *)
(* The memory is made of words; a size_t takes one cell.  The addresses    *)
(* are offsets from `data`.                                                *)
(***************************************************************************)
EXTENDS RewindPatch, SequencesExt

CONSTANTS
  Blocks,      \* the states of the core
  Capacities,  \* rewind_buffer_size
  Garbage,     \* what malloc'd memory may hold
  None

SizeT == 1

BlockSize   == Len(CHOOSE b \in Blocks : TRUE)
MaxCompSize == state_manager_raw_maxsize(BlockSize) + 2 * SizeT

\* A jump over words that are equal is no longer than UINT32_MAX words: no state
\* has 8 GB.
ASSUME RewindAssumption ==
  /\ \A b \in Blocks : b \in Seq(Word) /\ Len(b) = BlockSize
  /\ BlockSize < Base * Base
  /\ Capacities \subseteq Nat \ {0}
  /\ Garbage \subseteq Nat
  /\ None \notin Blocks

VARIABLES
  capacity,
  data,
  head,             \* where the next patch begins
  tail,             \* where the oldest one begins
  thisblock,
  thisblock_valid,  \* FALSE once it has been given back
  given             \* what the last call gave the front end

vars == <<capacity, data, head, tail, thisblock, thisblock_valid, given>>

TypeOK ==
  /\ capacity \in Capacities
  /\ data \in [0..(capacity - 1) -> Nat]
  /\ head \in 0..(capacity - 1) /\ tail \in 0..(capacity - 1)
  /\ thisblock \in Blocks
  /\ thisblock_valid \in BOOLEAN
  /\ given \in Blocks \cup {None}

\* state_manager_new, and the first push of state_manager_event_init.
Init ==
  /\ capacity \in Capacities
  /\ \E g \in Garbage : data = [i \in 0..(capacity - 1) |-> g]
  /\ head = SizeT /\ tail = SizeT
  /\ thisblock \in Blocks /\ thisblock_valid = TRUE
  /\ given = None
-----------------------------------------------------------------------------
(* state_manager_pop *)

\* The head and the block once the newest patch has been taken off.
Popped(b, h) ==
  IF h = tail THEN [head |-> h, block |-> b]
  ELSE LET start == data[h - SizeT]
       IN  [head |-> start, block |-> state_manager_raw_decompress(data, start + SizeT, b)]

\* Rewind is pressed: the block that is given back is loaded into the core.
state_manager_pop ==
  LET popped == IF thisblock_valid THEN [head |-> head, block |-> thisblock]
                ELSE Popped(thisblock, head)
  IN  /\ head' = popped.head
      /\ thisblock' = popped.block /\ given' = popped.block
      /\ thisblock_valid' = FALSE
      /\ UNCHANGED <<capacity, data, tail>>
-----------------------------------------------------------------------------
(* state_manager_push_where, the core's serialization, state_manager_push_do *)

\* A patch takes the three words of its end and a pointer at either side, or more.
MostPatches == capacity \div (3 + 2 * SizeT)

\* The room between the head and the pointer in front of the tail.
Remaining(t, h) == ((t + capacity - SizeT - h - 1) % capacity) + 1

\* Mutant: one frame is discarded, and the room is not looked at again.
DiscardOne(t, h) == IF Remaining(t, h) <= MaxCompSize THEN data[t] ELSE t

\* The tail when frames have been discarded until the longest patch has room.
Discard(t, h) ==
  After([x \in Nat |-> IF Remaining(x, h) <= MaxCompSize THEN data[x] ELSE x], t, MostPatches)

\* Mutant: only a patch that has gone over the edge makes the ring wrap.
WrapsTooLate(end) == end > capacity

\* The patch after this one could hit the edge.
Wraps(end) == end + MaxCompSize > capacity

\* Mutant: the tail stays when the head comes to the start of the buffer.
TailStays(mem, t) == t

\* The tail must not be at the start of the buffer when the head is put there.
TailMoves(mem, t) == IF t = SizeT THEN mem[t] ELSE t

state_manager_push_do(b, h, s) ==
  LET t     == Discard(tail, h)
      patch == state_manager_raw_compress(b, s)
      end   == h + SizeT + Len(patch)
      back  == IF Wraps(end) THEN 0 ELSE end
      with  == [i \in DOMAIN data |-> IF i \in (h + SizeT)..(end - 1)
                                      THEN patch[i - h - SizeT + 1] ELSE data[i]]
      moved == IF Wraps(end) THEN TailMoves(with, t) ELSE t
  IN  /\ tail' = moved
      /\ head' = back + SizeT
      /\ data' = [with EXCEPT ![back] = h, ![h] = back + SizeT]
      /\ thisblock' = s

\* Not pressed: the state that was given back last is made the newest again,
\* and the state the core is in is pushed on it.  With too small a buffer
\* nothing is.
Push(s) ==
  LET top == Popped(thisblock, head)
      b   == IF thisblock_valid THEN thisblock ELSE top.block
      h   == IF thisblock_valid THEN head ELSE top.head
  IN  /\ IF thisblock_valid \/ head # tail
         THEN IF capacity < SizeT + MaxCompSize
              THEN head' = h /\ thisblock' = b /\ UNCHANGED <<data, tail>>
              ELSE state_manager_push_do(b, h, s)
         ELSE thisblock' = s /\ UNCHANGED <<data, head, tail>>
      /\ thisblock_valid' = TRUE /\ given' = None
      /\ UNCHANGED capacity

Next == state_manager_pop \/ \E s \in Blocks : Push(s)

Spec == Init /\ [][Next]_vars
-----------------------------------------------------------------------------
\* The starts of the patches from the tail on, as the pointers lead: n steps of
\* them.
Start(n) == After(data, tail, n)

\* "The compressed data is surrounded by pointers to the other side": the
\* pointers lead from the tail to the head, and those in front of each start
\* lead back over the same patches.  "If the compressed data could potentially
\* overwrite the tail pointer, the tail retreats until it can no longer
\* collide": it never leaves the patches.
PointersAgree ==
  \E n \in 0..MostPatches :
    /\ \A i \in 0..n : Start(i) \in SizeT..(capacity - 1)
    /\ \A i \in 0..(n - 1) : data[Start(i + 1) - SizeT] = Start(i)
    /\ Start(n) = head

\* A patch is taken off, until the tail is reached.
BackTurn ==
  [s \in [head : Nat, block : Blocks, found : Seq(Blocks)] |->
     LET p == Popped(s.block, s.head)
     IN  IF s.head = tail THEN s
         ELSE [head |-> p.head, block |-> p.block, found |-> <<p.block>> \o s.found]]

\* The states the ring leads back to, newest patch last.
History ==
  After(BackTurn, [head |-> head, block |-> thisblock, found |-> <<>>], MostPatches).found
    \o (IF thisblock_valid THEN <<thisblock>> ELSE <<>>)

Stack == INSTANCE RewindStack WITH
  States <- Blocks, stack <- History, last <- thisblock

\* What is pushed is given back, newest first, until the end of what is kept,
\* whatever was discarded, overwritten and wrapped around in between.
ImplementsStack == Stack!Spec

\* A push makes the state of the core the newest, and forgets old ones only where
\* the ring may not have room for them: it keeps at least as many states as patches
\* of the greatest length fit in behind the pointer at the start.
KeepsWhatFits ==
  [][given' = None =>
       /\ Last(History') = thisblock'
       /\ Len(History') >= Min({Len(History) + 1, (capacity - SizeT) \div MaxCompSize})]_vars
=============================================================================
