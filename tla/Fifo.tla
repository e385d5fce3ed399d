-------------------------------- MODULE Fifo --------------------------------
(***************************************************************************)
(* What the byte and block buffers of the SDK promise: a bounded queue     *)
(* that is added to at one end and taken from at the other, several        *)
(* elements at a time.                                                     *)
(***************************************************************************)
EXTENDS Naturals, Sequences

CONSTANT Cap     \* how many elements fit

VARIABLE queue

Empty == queue = <<>>

\* Some elements are added behind those that are there.
Put ==
  /\ Len(queue) < Len(queue') /\ Len(queue') <= Cap
  /\ SubSeq(queue', 1, Len(queue)) = queue

\* The first k elements are taken or dropped.
Take ==
  \E k \in 1..Len(queue) : queue' = SubSeq(queue, k + 1, Len(queue))

FifoSpec == Empty /\ [][Put \/ Take]_queue
=============================================================================
