---------------------------- MODULE RewindPatch ----------------------------
(***************************************************************************)
(* state_manager.c 68-272: the difference of two save states, and how it   *)
(* is applied.  A state is a sequence of words of 16 bits, a patch is a    *)
(* sequence of words too: runs <<changed, skip, old words>>, jumps         *)
(* <<0, low, high>> over long stretches that are equal, and <<0, 0, 0>> at *)
(* the end.  The builds for x86 are modelled, where words need not be      *)
(* aligned.                                                                *)
(***************************************************************************)
EXTENDS Integers, Sequences, FiniteSetsExt

CONSTANT MaxRun    \* UINT16_MAX

ASSUME MaxRunAssumption == MaxRun \in Nat /\ MaxRun >= 2

Base == MaxRun + 1
Word == 0..MaxRun

\* A block as it lies in memory: behind it words that are equal in both blocks,
\* then one that differs, and more that are equal.
Padded(block, uniq) == block \o <<0, 0, 0, uniq>> \o [i \in 1..8 |-> 0]

\* How many words from p on are equal.
find_change(a, b, p) == Min({ i \in p..Len(a) : a[i] # b[i] }) - p

\* How many words from p on are to be stored: the words are compared in pairs.
find_same(a, b, p) ==
  LET j == Min({ k \in 0..(Len(a) - p - 1) :
                   /\ k % 2 = 0
                   /\ a[p + k] = b[p + k] /\ a[p + k + 1] = b[p + k + 1] })
  IN  IF j > 0 /\ a[p + j - 1] = b[p + j - 1] THEN j - 1 ELSE j

\* The longest patch of n words.
state_manager_raw_maxsize(n) == n + 2 * ((n + MaxRun - 1) \div MaxRun) + 3

\* What n turns of a loop make of s: a turn is a function of the state it begins in.
After(Turn, s, n) ==
  LET f[i \in Nat] == IF i = 0 THEN s ELSE Turn[f[i - 1]] IN f[n]

\* Mutant: the words of the new state are stored.
StoredNew(a, b, p, n) == SubSeq(b, p, p + n - 1)

\* The words of a run.
Stored(a, b, p, n) == SubSeq(a, p, p + n - 1)

\* One turn of the loop.  At a word where both blocks are done the loop ends; a run
\* of more than MaxRun is cut.
CompressTurn(old, new) ==
  LET a == Padded(old, 0)
      b == Padded(new, 1)
  IN  [s \in [at : 1..(Len(old) + 1), patch : Seq(Word)] |->
         LET skip == find_change(a, b, s.at)
             q    == s.at + skip
             run  == Min({find_same(a, b, q), MaxRun})
             jump == Min({skip, Base * Base - 1})
         IN  IF q > Len(old) THEN s
             ELSE IF skip > MaxRun
             THEN [at |-> q, patch |-> s.patch \o <<0, jump % Base, jump \div Base>>]
             ELSE [at |-> q + run, patch |-> s.patch \o <<run, skip>> \o Stored(a, b, q, run)]]

\* The patch that turns `new` back into `old`.  Each turn goes on by a word or more.
state_manager_raw_compress(old, new) ==
  After(CompressTurn(old, new), [at |-> 1, patch |-> <<>>], Len(old)).patch \o <<0, 0, 0>>

\* One turn of the loop that applies a patch.
DecompressTurn(memory) ==
  [s \in [from : Nat, to : Nat, out : Seq(Nat)] |->
     LET changed == memory[s.from]
         to      == s.to + memory[s.from + 1]
         jump    == memory[s.from + 1] + Base * memory[s.from + 2]
     IN  IF changed # 0
         THEN [from |-> s.from + 2 + changed, to |-> to + changed,
               out  |-> [i \in DOMAIN s.out |->
                           IF i \in to..(to + changed - 1) THEN memory[s.from + 2 + i - to]
                                                           ELSE s.out[i]]]
         ELSE IF jump # 0 THEN [s EXCEPT !.from = @ + 3, !.to = @ + jump]
         ELSE s]

\* The block that the patch at address `at` of the memory makes of `block`.
state_manager_raw_decompress(memory, at, block) ==
  After(DecompressTurn(memory), [from |-> at, to |-> 1, out |-> block], Len(block)).out
-----------------------------------------------------------------------------
\* raw_decompress "takes 'patch' from a previous call to raw_compress and applies
\* it to 'data' ('src' from that call), yielding 'dst' in that call".
Undoes(old, new) ==
  LET patch == state_manager_raw_compress(old, new)
  IN  state_manager_raw_decompress([i \in 0..(Len(patch) - 1) |-> patch[i + 1]], 0, new) = old

\* raw_maxsize "returns the maximum compressed size of a savestate".
Fits(old, new) ==
  Len(state_manager_raw_compress(old, new)) <= state_manager_raw_maxsize(Len(old))
=============================================================================
