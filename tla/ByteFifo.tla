------------------------------ MODULE ByteFifo ------------------------------
(***************************************************************************)
(* What retro_spsc.h promises of its queue: one producer and one consumer  *)
(* share a stream of bytes.  What the producer hands over appears at the   *)
(* end of the stream all at once, what a read returns leaves it at the     *)
(* front, a peek leaves it there, and there are never more than Limit      *)
(* bytes in it.  SpscQueue is checked to implement this.                   *)
(***************************************************************************)
EXTENDS Sequences, Naturals

CONSTANTS Values,  \* what a byte may be
          Limit    \* the largest capacity a queue can have

VARIABLES stream,  \* the bytes written and not yet read
          input,   \* the bytes of the write that is being made
          got      \* the bytes the last read or peek has returned

vars == <<stream, input, got>>

Init == stream = <<>> /\ input = <<>> /\ got = <<>>

\* retro_spsc_write: so many bytes as there is room for are taken ...
WriteBegins ==
  /\ input = <<>>
  /\ input' \in Seq(Values) /\ Len(input') <= Limit
  /\ UNCHANGED <<stream, got>>

\* ... and are in the stream when it returns.
WriteReturns ==
  /\ Len(stream) + Len(input) <= Limit
  /\ stream' = stream \o input
  /\ input' = <<>>
  /\ UNCHANGED got

\* retro_spsc_read and retro_spsc_peek return the first n bytes.
Read(n) ==
  /\ got = <<>>
  /\ got' = SubSeq(stream, 1, n)
  /\ stream' = SubSeq(stream, n + 1, Len(stream))
  /\ UNCHANGED input
Peek(n) ==
  /\ got = <<>>
  /\ got' = SubSeq(stream, 1, n)
  /\ UNCHANGED <<stream, input>>

\* The consumer has used them.
Use == got' = <<>> /\ UNCHANGED <<stream, input>>

\* retro_spsc_clear and retro_spsc_free, with nobody inside a call.
Clear ==
  /\ input = <<>> /\ got = <<>>
  /\ stream' = <<>>
  /\ UNCHANGED <<input, got>>

Next ==
  \/ WriteBegins \/ WriteReturns \/ Use \/ Clear
  \/ \E n \in 1..Len(stream) : Read(n) \/ Peek(n)

Spec == Init /\ [][Next]_vars
=============================================================================
