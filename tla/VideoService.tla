---------------------------- MODULE VideoService ----------------------------
(***************************************************************************)
(* What the threaded video driver promises its one caller: a command is    *)
(* run exactly once, by the video thread, before the call that gave it     *)
(* returns; and of the frames those that are taken are shown once each, in *)
(* the order they were made.                                               *)
(***************************************************************************)
EXTENDS Integers

CONSTANTS Commands, Free, Frames

VARIABLES
  phase,  \* of the command: "none", "asked" or "served"
  ran,    \* the last command that was run, and whether an odd number were
  slot,   \* the frame that is to be shown, 0 if none is
  shown,  \* the last frame that was
  open    \* the driver has not been freed

vars == <<phase, ran, slot, shown, open>>

Init ==
  /\ phase = "none" /\ ran = [command |-> "none", odd |-> FALSE]
  /\ slot = 0 /\ shown = 0
  /\ open = TRUE

Ask == open /\ phase = "none" /\ phase' = "asked" /\ UNCHANGED <<ran, slot, shown, open>>

Serve ==
  /\ phase = "asked" /\ phase' = "served"
  /\ \E c \in Commands : ran' = [command |-> c, odd |-> ~ran.odd]
  /\ open' = (open /\ ran'.command # Free)
  /\ UNCHANGED <<slot, shown>>

Return == phase = "served" /\ phase' = "none" /\ UNCHANGED <<ran, slot, shown, open>>

Submit ==
  /\ open /\ phase = "none" /\ slot = 0
  /\ slot' \in { f \in Frames : f > shown }
  /\ UNCHANGED <<phase, ran, shown, open>>

Show ==
  /\ open /\ slot # 0
  /\ shown' = slot /\ slot' = 0
  /\ UNCHANGED <<phase, ran, open>>

Next == Ask \/ Serve \/ Return \/ Submit \/ Show

Spec == Init /\ [][Next]_vars
=============================================================================
