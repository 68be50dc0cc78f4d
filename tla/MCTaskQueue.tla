---------------------------- MODULE MCTaskQueue ----------------------------
(* Small instances of TaskQueue for TLC. *)
EXTENDS TaskQueue

CONSTANTS a, b, c, d

\* The frame loop pushes a (a save state, say), its callback pushes b, and a
\* handler pushes c (a transfer it needs).
Pushers == [t \in Tasks |-> CASE t = a -> "idle" [] t = b -> "callback" [] OTHER -> "handler"]

\* Everything is pushed by the frame loop.
FramePushers == [t \in Tasks |-> "idle"]
=============================================================================
