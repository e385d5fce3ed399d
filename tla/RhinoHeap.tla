------------------------------ MODULE RhinoHeap ------------------------------
(***************************************************************************)
(* The heap of the Rhino kernel (k_mm.c): blocks with a header, free       *)
(* blocks in lists by size class, found through two levels of bitmaps, and *)
(* regions that are merged when they touch.                                *)
(*                                                                         *)
(* Memory is counted in words, the unit of MM_ALIGN_UP.  A block is named  *)
(* by the address of its header; its record holds the fields of            *)
(* k_mm_list_t, and the two low bits of size as Booleans.  A free list is  *)
(* a sequence.  The functions take and return the whole state h, as every  *)
(* call runs with interrupts off; each one is an action.  The pool of      *)
(* small blocks (BlkPool) is one more block in use here, and the requests  *)
(* it serves do not come here.  The statistics are left out.               *)
(***************************************************************************)
EXTENDS Naturals, SequencesExt, FiniteSets, TLC

CONSTANTS
  HEAD,          \* MMLIST_HEAD_SIZE
  RI,            \* sizeof(k_mm_region_info_t)
  MAX_LOG2_SLT,  \* log2 of the lists per level; also MIN_FLT_BIT, as sizes are words
  MAX_MM_BIT,
  FirstRegion,   \* <<addr, len>> for krhino_init_mm_head
  MoreRegions,   \* a set of them for krhino_add_mm_region
  Sizes,         \* what the program asks for
  Reallocs       \* it also uses k_mm_realloc

ASSUME HeapAssumption ==
  /\ HEAD \in Nat \ {0} /\ RI \in Nat \ {0} /\ MAX_LOG2_SLT \in Nat /\ MAX_MM_BIT \in Nat
  /\ Sizes \subseteq Nat \ {0} /\ Reallocs \in BOOLEAN
  /\ \A r \in MoreRegions \cup {FirstRegion} : r[2] >= RI + 3 * HEAD + 2

MIN_FLT_BIT == MAX_LOG2_SLT
MMLIST_SIZE == HEAD + 2     \* sizeof(k_mm_list_t)
MIN_LENGTH == 2             \* AOS_MM_TLF_ALLOC_MIN_LENGTH
FLT == 0..(MAX_MM_BIT - MIN_FLT_BIT)
SLT == 0..(2^MAX_LOG2_SLT - 1)
NULL == 0

VARIABLES
  h,       \* [blk, tbl, sl, fl, regions, err]
  asked    \* the blocks the program has, with the size it asked for (observed)

vars == <<h, asked>>

Next_(s, b) == b + HEAD + s.blk[b].size
Drop(f, x) == [y \in DOMAIN f \ {x} |-> f[y]]
Block(size, free, prevfree, prev) == [size |-> size, free |-> free, prevfree |-> prevfree, prev |-> prev]
-----------------------------------------------------------------------------
(***************************************************************************)
(* Size classes                                                            *)
(***************************************************************************)
\* 31 - krhino_find_first_bit
HighBit(n) == CHOOSE i \in 0..n : 2^i <= n /\ n < 2^(i + 1)

\* The list for a free block, or (get) the first list all of whose blocks are large
\* enough.
bitmap_search(size, get) ==
  IF size < 2^MIN_FLT_BIT THEN <<0, size>>
  ELSE LET s == IF get THEN size + 2^(HighBit(size) - MAX_LOG2_SLT) - 1 ELSE size
           bit == HighBit(s)
       IN <<bit - MIN_FLT_BIT + 1, (s - 2^bit) \div 2^(bit - MAX_LOG2_SLT)>>

\* bitmap_search for a block whose result is not looked at, and insert_block.
insert_block(s, b) ==
  LET i == bitmap_search(s.blk[b].size, FALSE)
  IN IF i \notin FLT \X SLT THEN [s EXCEPT !.err = TRUE]
     ELSE [s EXCEPT !.tbl[i] = << b >> \o @, !.sl[i[1]] = @ \cup {i[2]}, !.fl = @ \cup {i[1]}]

\* bitmap_search and get_block: the block leaves its list.
get_block(s, b) ==
  LET i == bitmap_search(s.blk[b].size, FALSE)
      list == SelectSeq(s.tbl[i], LAMBDA x : x # b)
      sl == IF list = << >> THEN s.sl[i[1]] \ {i[2]} ELSE s.sl[i[1]]
  IN [s EXCEPT !.tbl[i] = list, !.sl[i[1]] = sl, !.fl = IF sl = {} THEN @ \ {i[1]} ELSE @]

Least(S) == CHOOSE x \in S : \A y \in S : x <= y

\* findblk_byidx
findblk_byidx(s, i) ==
  LET here == {j \in s.sl[i[1]] : j >= i[2]}
      above == {f \in s.fl : f > i[1]}
  IN IF here # {} THEN Head(s.tbl[<<i[1], Least(here)>>])
     ELSE IF above # {} THEN Head(s.tbl[<<Least(above), Least(s.sl[Least(above)])>>])
     ELSE NULL

\* The block k_mm_alloc takes for a request, or NULL.
Find(s, size) ==
  LET i == bitmap_search(size, TRUE)
  IN IF i \notin FLT \X SLT THEN NULL ELSE findblk_byidx(s, i)
-----------------------------------------------------------------------------
(***************************************************************************)
(* k_mm_alloc and k_mm_free                                                *)
(***************************************************************************)
\* Mutated: the next block does not learn where the new free block is.
SplitNoPrev(s, b, size) ==
  LET rest == s.blk[b].size - size
      b2 == b + HEAD + size
      next == Next_(s, b)
  IN IF rest < MMLIST_SIZE THEN s
     ELSE insert_block([s EXCEPT !.blk = [(@ @@ (b2 :> Block(rest - HEAD, TRUE, FALSE, NULL)))
                                            EXCEPT ![b].size = size, ![next].prevfree = TRUE]], b2)

\* A block in use gives what it has beyond size back as a free block, if that is
\* enough for one.
Split(s, b, size) ==
  LET rest == s.blk[b].size - size
      b2 == b + HEAD + size
      next == Next_(s, b)
  IN IF rest < MMLIST_SIZE THEN s
     ELSE insert_block([s EXCEPT !.blk = [(@ @@ (b2 :> Block(rest - HEAD, TRUE, FALSE, NULL)))
                                            EXCEPT ![b].size = size,
                                                   ![next].prev = b2, ![next].prevfree = TRUE]], b2)

\* Block b, which Find has found, is taken.
Take(s, b, size) ==
  LET got == get_block(s, b)
  IN Split([got EXCEPT !.blk[b].free = FALSE, !.blk[Next_(s, b)].prevfree = FALSE], b, size)

\* A block takes in the one behind it.
Join(s, b) ==
  LET next == Next_(s, b)
  IN [s EXCEPT !.blk = [Drop(@, next) EXCEPT ![b].size = @ + s.blk[next].size + HEAD]]

k_mm_free(s, b) ==
  LET freed == [s EXCEPT !.blk[b].free = TRUE]
      next == Next_(s, b)
      behind == IF s.blk[next].free THEN Join(get_block(freed, next), b) ELSE freed
      prev == s.blk[b].prev
      first == IF s.blk[b].prevfree THEN prev ELSE b
      joined == IF s.blk[b].prevfree THEN Join(get_block(behind, prev), prev) ELSE behind
      listed == insert_block(joined, first)
      last == Next_(listed, first)
  IN [listed EXCEPT !.blk[last].prevfree = TRUE, !.blk[last].prev = first]

AtLeast(n, m) == IF n < m THEN m ELSE n

Alloc(n) ==
  LET size == AtLeast(n, MIN_LENGTH)
      b == Find(h, size)
  IN /\ b # NULL
     /\ h' = Take(h, b, size)
     /\ asked' = asked @@ (b :> n)

Free(b) ==
  /\ b \in DOMAIN asked
  /\ h' = k_mm_free(h, b)
  /\ asked' = Drop(asked, b)
-----------------------------------------------------------------------------
(***************************************************************************)
(* k_mm_realloc of a block                                                 *)
(***************************************************************************)
\* The block stays where it is: it takes in the free block behind it and is
\* split again.
InPlace(s, b, size) ==
  LET next == Next_(s, b)
      joined == IF s.blk[next].free THEN Join(get_block(s, next), b) ELSE s
      last == Next_(joined, b)
  IN Split([joined EXCEPT !.blk[last].prevfree = FALSE,
                          !.blk[last].prev = IF s.blk[next].free THEN b ELSE @], b, size)

Fits(s, b, size) ==
  LET next == Next_(s, b)
  IN \/ size <= s.blk[b].size
     \/ s.blk[next].free /\ size <= s.blk[b].size + s.blk[next].size

Realloc(b, n) ==
  /\ Reallocs /\ b \in DOMAIN asked
  /\ LET size == AtLeast(n, MMLIST_SIZE)
         new == Find(h, size)
     IN \/ /\ Fits(h, b, size)
           /\ h' = InPlace(h, b, size)
           /\ asked' = [asked EXCEPT ![b] = n]
        \/ /\ ~Fits(h, b, size) /\ new # NULL
           /\ h' = k_mm_free(Take(h, new, size), b)
           /\ asked' = Drop(asked, b) @@ (new :> n)
-----------------------------------------------------------------------------
(***************************************************************************)
(* Regions                                                                 *)
(***************************************************************************)
\* init_mm_region: the block with the region's own data, one block in use, and the
\* end.
RegionBlocks(addr, len) ==
  LET b == addr + HEAD + RI
      size == len - (RI + 3 * HEAD)
  IN (addr :> Block(RI, FALSE, FALSE, NULL)) @@ (b :> Block(size, FALSE, FALSE, NULL))
       @@ (b + HEAD + size :> Block(0, FALSE, TRUE, b))

\* The loop over the regions: a is the state of its variables, r the next region.
MergeNext(a, r) ==   \* r begins where the new region ends
  LET b1 == r.first + HEAD + RI
  IN [a EXCEPT !.s.blk = [Drop(Drop(@, a.lb0), r.first)
                            EXCEPT ![a.b0] = Block(@.size + RI + 2 * HEAD, FALSE, FALSE, @.prev),
                                   ![b1].prev = a.b0],
               !.lb0 = r.end]

MergePrev(a, r) ==   \* r ends where it begins
  LET size == a.s.blk[a.b0].size + RI + 2 * HEAD
      next == r.end + HEAD + size
  IN [a EXCEPT !.s.blk = [Drop(Drop(@, a.b0), a.ib0)
                            EXCEPT ![r.end] = Block(size, FALSE, @.prevfree, @.prev),
                                   ![next].prev = r.end],
               !.b0 = r.end, !.ib0 = r.first]

MergeStep(a, r) ==
  IF r.first = a.lb0 + HEAD THEN MergeNext(a, r)
  ELSE IF r.end + HEAD = a.ib0 THEN MergePrev(a, r)
  ELSE [a EXCEPT !.s.regions = Append(@, r)]

\* krhino_add_mm_region
AddRegion(addr, len) ==
  /\ \A b \in DOMAIN h.blk : b \notin addr..(addr + len - 1)
  /\ \A i \in DOMAIN h.regions : ~(h.regions[i].first < addr /\ addr < h.regions[i].end)
  /\ LET b0 == addr + HEAD + RI
         start == [s |-> [h EXCEPT !.blk = @ @@ RegionBlocks(addr, len), !.regions = << >>],
                   ib0 |-> addr, b0 |-> b0, lb0 |-> addr + len - HEAD]
         a == FoldLeft(MergeStep, start, h.regions)
         region == [first |-> a.ib0, end |-> a.lb0]
     IN h' = k_mm_free([a.s EXCEPT !.regions = << region >> \o @], a.b0)
  /\ UNCHANGED asked

\* krhino_init_mm_head
Init ==
  /\ LET addr == FirstRegion[1]
         len == FirstRegion[2]
         empty == [blk |-> RegionBlocks(addr, len), tbl |-> [i \in FLT \X SLT |-> << >>],
                   sl |-> [f \in FLT |-> {}], fl |-> {},
                   regions |-> << [first |-> addr, end |-> addr + len - HEAD] >>, err |-> FALSE]
     IN h = k_mm_free(empty, addr + HEAD + RI)
  /\ asked = << >>

Next ==
  \/ \E n \in Sizes : Alloc(n)
  \/ \E b \in DOMAIN asked : Free(b) \/ \E n \in Sizes : Realloc(b, n)
  \/ \E r \in MoreRegions : AddRegion(r[1], r[2])

Spec == Init /\ [][Next]_vars
-----------------------------------------------------------------------------
Regions == {h.regions[i] : i \in DOMAIN h.regions}
Ends == {r.end : r \in Regions}
FreeBlocks == {b \in DOMAIN h.blk : h.blk[b].free}

\* No block is put into a list that does not exist (bitmap_search's result is not
\* looked at by k_mm_free).
NoIndexError == ~h.err

\* The blocks tile the regions: each is followed by the next, up to the end, and
\* none overlaps another.
BlocksTile ==
  /\ \A b \in DOMAIN h.blk \ Ends : Next_(h, b) \in DOMAIN h.blk
  /\ \A b, c \in DOMAIN h.blk : b < c => Next_(h, b) <= c
  /\ \A r \in Regions : r.first \in DOMAIN h.blk /\ r.end \in DOMAIN h.blk

\* The second bit of size tells whether the block before is free, and then prev is
\* that block.
PrevBitRight ==
  \A b \in DOMAIN h.blk \ Ends :
    LET next == h.blk[Next_(h, b)]
    IN /\ next.prevfree = h.blk[b].free
       /\ h.blk[b].free => next.prev = b

\* Two free blocks never touch: what can be joined is joined.
FreeAreApart == \A b \in FreeBlocks : ~h.blk[Next_(h, b)].free

\* The free blocks are in the lists, each once, in the list of its size, and the
\* bitmaps mark the lists that are not empty.
ListsRight ==
  /\ \A i \in FLT \X SLT :
       /\ ToSet(h.tbl[i]) = {b \in FreeBlocks : bitmap_search(h.blk[b].size, FALSE) = i}
       /\ Len(h.tbl[i]) = Cardinality(ToSet(h.tbl[i]))
       /\ h.tbl[i] # << >> <=> i[2] \in h.sl[i[1]]
  /\ h.fl = {f \in FLT : h.sl[f] # {}}

\* What the program has is in use, and at least as large as it asked for.
GivenIsEnough ==
  \A b \in DOMAIN asked : b \in DOMAIN h.blk /\ ~h.blk[b].free /\ h.blk[b].size >= asked[b]

\* The search finds a block that is large enough, and finds one whenever there is a
\* free block one class larger than the request.
FindsWhatThereIs ==
  \A n \in 2..(2^(MAX_MM_BIT - 1)) :
    LET b == Find(h, n)
        slack == IF n < 2^MIN_FLT_BIT THEN 0 ELSE 2^(HighBit(n) - MAX_LOG2_SLT) - 1
    IN IF b # NULL THEN h.blk[b].free /\ h.blk[b].size >= n
       ELSE \A c \in FreeBlocks : h.blk[c].size < n + slack

\* Blocks, bits, lists and what was given out agree (k_mm.c).
HeapSound ==
  /\ NoIndexError /\ BlocksTile /\ PrevBitRight /\ FreeAreApart /\ ListsRight
  /\ GivenIsEnough /\ FindsWhatThereIs
=============================================================================
