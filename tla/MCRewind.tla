------------------------------ MODULE MCRewind ------------------------------
(* Small instances of Rewind. *)
EXTENDS Rewind

\* Among any two: nothing, one word, more than a run, and the end after a long
\* stretch that is equal differ.
FewBlocks == { <<0, 0, 0, 0>>, <<0, 0, 0, 1>>, <<1, 0, 1, 1>> }

TinyBlocks == { <<0>>, <<1>> }
=============================================================================
