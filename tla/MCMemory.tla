------------------------------ MODULE MCMemory ------------------------------
(***************************************************************************)
(* Model checking of the kernel's memory: the heap in one region and in    *)
(* several, the pool of equal blocks, the ring buffer and the byte fifo.   *)
(* They share nothing, so the behaviours are those of one of them, and the *)
(* variables of the others keep their initial values.                      *)
(***************************************************************************)
EXTENDS RhinoHeap

VARIABLES
  memory,     \* the one in use
  first, avail_list, blk_avail, held,
  type, buf, head, tail, freesize, ring_out, msgs,
  in, out, free_bytes, data

\* The cfg is a heap in one region; here two regions are added behind the first.
Low == <<10, 13>>
Wide == <<1, 22>>
NoMore == {}

Growing == INSTANCE RhinoHeap WITH
  FirstRegion <- Low, MoreRegions <- {<<23, 9>>, <<32, 10>>}, Sizes <- {3, 5},
  Reallocs <- FALSE

\* Five whole blocks and a rest.
Pool == INSTANCE BlkPool WITH PoolSize <- 11, BlkSize <- 2

\* Lengths of one, two and three bytes, which the end of the memory splits.
Ring == INSTANCE RingBuf WITH
  Size <- 6, BlkSize <- 2, Msg <- {"a", "b"}, MaxLen <- 4, Max1 <- 1, Max2 <- 2,
  out <- ring_out

\* Counters that wrap at a multiple of the size.
Fifo == INSTANCE KFifo WITH Size <- 4, Word <- 12, Byte <- {"x", "y"}

pool == <<first, avail_list, blk_avail, held>>
ring == <<type, buf, head, tail, freesize, ring_out, msgs>>
fifo == <<in, out, free_bytes, data>>

MemoryInit ==
  /\ memory \in {"heap", "growing heap", "pool", "ring", "fifo"}
  /\ IF memory = "growing heap" THEN Growing!Init ELSE Init
  /\ Pool!Init /\ Ring!Init /\ Fifo!Init
  /\ memory # "ring" => type = "fix"
  /\ memory # "fifo" => \A i \in DOMAIN data : data[i] = "x"

MemoryNext ==
  /\ UNCHANGED memory
  /\ \/ memory = "heap" /\ Next /\ UNCHANGED <<pool, ring, fifo>>
     \/ memory = "growing heap" /\ Growing!Next /\ UNCHANGED <<pool, ring, fifo>>
     \/ memory = "pool" /\ Pool!Next /\ UNCHANGED <<vars, ring, fifo>>
     \/ memory = "ring" /\ Ring!Next /\ UNCHANGED <<vars, pool, fifo>>
     \/ memory = "fifo" /\ Fifo!Next /\ UNCHANGED <<vars, pool, ring>>

MemorySpec == MemoryInit /\ [][MemoryNext]_<<memory, vars, pool, ring, fifo>>
-----------------------------------------------------------------------------
\* After any sequence of allocations, reallocations, frees and added regions the
\* blocks of the heap tile its regions, are joined, and are listed where the
\* search looks for them; the pool gives every whole block to one user at a time
\* (k_mm.c, k_mm_blk.c).
HeapsSound == HeapSound /\ Pool!PoolSound

\* The two accounts each buffer keeps of its free space never drift apart, across
\* the end of the memory and the wrap of the counters.
BuffersSound == Ring!RingSound /\ Fifo!FifoSound

\* Ring buffer and fifo implement a first-in first-out queue, and a pop of the ring
\* delivers the oldest message whole.
BuffersAreFifo == Ring!IsFifo /\ Ring!PopsOldest /\ Fifo!IsFifo
=============================================================================
