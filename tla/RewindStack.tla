---------------------------- MODULE RewindStack ----------------------------
(***************************************************************************)
(* What rewinding promises: the states are given back newest first.  A     *)
(* push may forget the oldest ones; when none is left, the one given last  *)
(* is given again.                                                         *)
(***************************************************************************)
EXTENDS Integers, Sequences, SequencesExt

CONSTANTS States, None

VARIABLES
  stack,   \* the states that can be gone back to, oldest first
  last,    \* the state the front end is at, or the newest of the stack
  given    \* the state the last call gave back, None if it was a push

vars == <<stack, last, given>>

Init == \E s \in States : stack = <<s>> /\ last = s /\ given = None

Push ==
  \E s \in States, forgotten \in 0..Len(stack) :
    /\ stack' = Append(SubSeq(stack, forgotten + 1, Len(stack)), s)
    /\ last' = s /\ given' = None

Pop ==
  /\ stack # <<>>
  /\ stack' = Front(stack)
  /\ last' = Last(stack) /\ given' = Last(stack)

PopEmpty == stack = <<>> /\ given' = last /\ UNCHANGED <<stack, last>>

Next == Push \/ Pop \/ PopEmpty

Spec == Init /\ [][Next]_vars
=============================================================================
