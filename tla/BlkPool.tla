------------------------------- MODULE BlkPool -------------------------------
(***************************************************************************)
(* The pool of equal memory blocks (core/k_mm_blk.c).  A free block keeps  *)
(* the link to the next free one in its first word, which its user         *)
(* overwrites.  Blocks are numbered; if the size of the pool is no         *)
(* multiple of that of a block, the rest is linked as a last block but not *)
(* counted.                                                                *)
(***************************************************************************)
EXTENDS Integers, FiniteSets

CONSTANTS PoolSize, BlkSize      \* in words; at least two blocks

VARIABLES
  first,       \* the first word of each block: a block, NULL, or user data
  avail_list,
  blk_avail,
  held         \* the blocks users have (observed only)

vars == <<first, avail_list, blk_avail, held>>

NULL == -1
UserData == -2

\* The block the loop of krhino_mblk_pool_init ends at: the last one that
\* starts with a word of the pool left to it.
LastBlk == (PoolSize - 1) \div BlkSize
Blk == 0..LastBlk

blk_whole == IF (LastBlk + 1) * BlkSize = PoolSize THEN LastBlk + 1 ELSE LastBlk

Init ==
  /\ first = [b \in Blk |-> IF b = LastBlk THEN NULL ELSE b + 1]
  /\ avail_list = 0
  /\ blk_avail = blk_whole
  /\ held = {}
-----------------------------------------------------------------------------
krhino_mblk_alloc ==
  /\ blk_avail > 0
  /\ avail_list' = first[avail_list]
  /\ blk_avail' = blk_avail - 1
  /\ held' = held \cup {avail_list}
  /\ UNCHANGED first

\* A user frees what it has, once.
krhino_mblk_free(b) ==
  /\ b \in held
  /\ first' = [first EXCEPT ![b] = avail_list]
  /\ avail_list' = b
  /\ blk_avail' = blk_avail + 1
  /\ held' = held \ {b}

\* A user writes to its block.
Use(b) ==
  /\ b \in held
  /\ first' = [first EXCEPT ![b] = UserData]
  /\ UNCHANGED <<avail_list, blk_avail, held>>

Next == krhino_mblk_alloc \/ \E b \in Blk : krhino_mblk_free(b) \/ Use(b)

Spec == Init /\ [][Next]_vars
-----------------------------------------------------------------------------
\* The variables have their types.
TypeOK ==
  /\ first \in [Blk -> Blk \cup {NULL, UserData}]
  /\ avail_list \in Blk \cup {NULL}
  /\ blk_avail \in 0..blk_whole
  /\ held \subseteq Blk

\* The blocks on the free list, in order: the n-th is reached by n links.
Chain[n \in 0..LastBlk] ==
  IF n = 0 THEN avail_list
  ELSE IF Chain[n - 1] \in Blk THEN first[Chain[n - 1]] ELSE NULL

\* The first blk_avail blocks of the list are whole, distinct and free: no two
\* users share a block, none gets the rest of the pool, and no link that
\* krhino_mblk_alloc follows was overwritten.
FreeListSound ==
  \A n \in 0..blk_avail - 1 :
    /\ Chain[n] \in Blk /\ (Chain[n] + 1) * BlkSize <= PoolSize
    /\ Chain[n] \notin held
    /\ \A k \in 0..n - 1 : Chain[k] # Chain[n]

\* No block is lost.
AllAccountedFor == blk_avail + Cardinality(held) = blk_whole

\* The free list and its count are sound (k_mm_blk.c).
PoolSound == TypeOK /\ FreeListSound /\ AllAccountedFor
=============================================================================
