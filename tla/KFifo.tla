-------------------------------- MODULE KFifo --------------------------------
(***************************************************************************)
(* The byte fifo of the kernel (common/k_fifo.c).  in and out are 32-bit   *)
(* counters that are never reset and wrap; only their difference and their *)
(* low bits are used.  Every call runs with interrupts disabled.           *)
(***************************************************************************)
EXTENDS Integers, Sequences

CONSTANTS
  Size,     \* fifo->size, a power of two of at least 2
  Word,     \* 2^32: a counter wraps there; a multiple of Size
  Byte      \* what bytes can say

VARIABLES in, out, free_bytes, data

vars == <<in, out, free_bytes, data>>

Slot == 0..Size - 1

\* fifo_init, which refuses a size that is no power of two.
Init ==
  /\ in = 0 /\ out = 0
  /\ free_bytes = Size
  /\ data \in [Slot -> Byte]
-----------------------------------------------------------------------------
\* Unsigned difference of two counters.
Used == (in - out) % Word

fifo_unused == Size - Used

fifo_min(x, y) == IF x > y THEN y ELSE x

\* off & mask, and the two copies: from there to the end, and from the start.
fifo_copy_in(d, src, off) ==
  LET o == off % Size
      l == fifo_min(Len(src), Size - o)
  IN [i \in Slot |->
        IF o <= i /\ i < o + l THEN src[i - o + 1]
        ELSE IF i < Len(src) - l THEN src[l + i + 1]
        ELSE d[i]]

\* What does not fit is not taken.
fifo_in(src) ==
  LET len == fifo_min(Len(src), fifo_unused)
  IN /\ data' = fifo_copy_in(data, SubSeq(src, 1, len), in)
     /\ in' = (in + len) % Word
     /\ free_bytes' = free_bytes - len
     /\ UNCHANGED out

\* The bytes a reader of len bytes gets: from out to the end, then from the
\* start.
fifo_out_peek(len) ==
  LET n == fifo_min(len, Used)
      o == out % Size
      l == fifo_min(n, Size - o)
  IN [i \in 1..n |-> IF i <= l THEN data[o + i - 1] ELSE data[i - l - 1]]

fifo_out(len) ==
  LET n == Len(fifo_out_peek(len))
  IN /\ out' = (out + n) % Word
     /\ free_bytes' = free_bytes + n
     /\ UNCHANGED <<in, data>>

\* Mutated: the free bytes are not given back.
OutAllKeeps ==
  /\ free_bytes # Size
  /\ LET n == Len(fifo_out_peek(Size - free_bytes))
     IN out' = (out + n) % Word
  /\ UNCHANGED <<in, data, free_bytes>>

\* The length comes from free_bytes here.
fifo_out_all == free_bytes # Size /\ fifo_out(Size - free_bytes)

Next ==
  \/ \E n \in 1..Size + 1 : \E src \in [1..n -> Byte] : fifo_in(src)
  \/ \E n \in 1..Size + 1 : fifo_out(n)
  \/ fifo_out_all

Spec == Init /\ [][Next]_vars
-----------------------------------------------------------------------------
\* The variables have their types.
TypeOK ==
  /\ in \in 0..Word - 1 /\ out \in 0..Word - 1
  /\ free_bytes \in 0..Size
  /\ data \in [Slot -> Byte]

\* The second account of the free space, free_bytes, never drifts from the
\* counters, across their wrap too; fifo_out_all relies on it.
FreeBytesRight == free_bytes = Size - Used /\ Used <= Size

\* Counters and free bytes agree (k_fifo.c).
FifoSound == TypeOK /\ FreeBytesRight

\* The bytes between the counters are a first-in first-out queue: nothing is
\* written over before it was read.
Contents == fifo_out_peek(Size)
Queue == INSTANCE Fifo WITH queue <- Contents, Cap <- Size
IsFifo == Queue!FifoSpec
=============================================================================
