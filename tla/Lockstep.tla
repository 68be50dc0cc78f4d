------------------------------ MODULE Lockstep ------------------------------
(***************************************************************************)
(* What netplay promises its players: they play one and the same game.     *)
(* What a peer has confirmed of it only ever grows, and of two peers that  *)
(* started from the same state one has confirmed what the other has, and   *)
(* maybe more.  A peer may start anew from a later state.                  *)
(***************************************************************************)
EXTENDS Integers, SequencesExt

CONSTANTS Peers, Unsynced

VARIABLE seen   \* per peer: the state it started from, the inputs since

Init == seen \in [Peers -> {[load |-> Unsynced, inputs |-> <<>>], [load |-> 0, inputs |-> <<>>]}]

OneGame(a, b) ==
  a.load # Unsynced /\ a.load = b.load
    => IsPrefix(a.inputs, b.inputs) \/ IsPrefix(b.inputs, a.inputs)

Confirm(p) ==
  /\ \A q \in Peers : q # p => seen'[q] = seen[q] /\ OneGame(seen'[p], seen[q])
  /\ \/ seen'[p].load > seen[p].load
     \/ /\ seen'[p].load = seen[p].load
        /\ seen[p].load = Unsynced \/ IsPrefix(seen[p].inputs, seen'[p].inputs)

Next == \E p \in Peers : Confirm(p)

Spec == Init /\ [][Next]_seen
=============================================================================
