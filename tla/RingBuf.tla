------------------------------- MODULE RingBuf -------------------------------
(***************************************************************************)
(* The ring buffer under the kernel's buffer queues (core/k_ringbuf.c),    *)
(* with blocks of a fixed size or with messages behind a length of one to  *)
(* three bytes, either of which may be split by the end of the memory.     *)
(*                                                                         *)
(* Pointers are offsets: buf is 0 and end is Size.  A cell holds           *)
(* <<"len", n, i>>, the i-th byte of the length n, or <<m, i>>, the i-th   *)
(* byte of message m.                                                      *)
(***************************************************************************)
EXTENDS Integers, Sequences

CONSTANTS
  Size,        \* bytes of memory
  BlkSize,     \* blk_size, for blocks of a fixed size; divides Size
  Msg,         \* what messages can say
  MaxLen,      \* the longest message that is sent
  Max1, Max2   \* the longest lengths of 1 and 2 bytes: 0x7f and 0x3fff

VARIABLES
  type,      \* "fix" or "dyn"
  buf,
  head, tail,
  freesize,
  out,       \* what the last pop delivered
  msgs       \* the messages inside (observed only)

vars == <<type, buf, head, tail, freesize, out, msgs>>

Nothing == <<"none", 0>>

Init ==
  /\ type \in {"fix", "dyn"}
  /\ buf = [i \in 0..Size - 1 |-> Nothing]
  /\ head = 0 /\ tail = 0
  /\ freesize = Size
  /\ out = <<>>
  /\ msgs = <<>>
-----------------------------------------------------------------------------
COMPRESS_LEN(len) == IF len <= Max1 THEN 1 ELSE IF len <= Max2 THEN 2 ELSE 3

headlen_compress(len) == [i \in 1..COMPRESS_LEN(len) |-> <<"len", len, i>>]

Bytes(m, len) == [i \in 1..len |-> <<m, i>>]

\* A pointer at the end goes back to the start when it is next used.
Wrapped(p) == IF p = Size THEN 0 ELSE p

\* memcpy of s to offset p.
Store(b, p, s) ==
  [i \in DOMAIN b |-> IF p <= i /\ i < p + Len(s) THEN s[i - p + 1] ELSE b[i]]

\* Bytes s go to tail t, in two parts if the end comes first.
Write(b, t, s) ==
  LET split == Size - t
  IN IF t >= head /\ split < Len(s) /\ split > 0
     THEN [buf |-> Store(Store(b, t, SubSeq(s, 1, split)), 0,
                         SubSeq(s, split + 1, Len(s))),
           tail |-> Len(s) - split]
     ELSE [buf |-> Store(b, t, s), tail |-> t + Len(s)]

\* Mutated: a full ring of messages is tested without their length bytes.
RoomForData(len) == freesize >= 2 /\ freesize >= len

\* The tests of ringbuf_push for messages behind a length.
Room(len) == freesize >= 2 /\ freesize >= COMPRESS_LEN(len) + len

PushDyn(m, len) ==
  /\ type = "dyn" /\ Room(len)
  /\ LET hd == Write(buf, Wrapped(tail), headlen_compress(len))
         dt == Write(hd.buf, Wrapped(hd.tail), Bytes(m, len))
     IN buf' = dt.buf /\ tail' = dt.tail
  /\ freesize' = freesize - COMPRESS_LEN(len) - len
  /\ msgs' = Append(msgs, Bytes(m, len))
  /\ UNCHANGED <<type, head, out>>

PushFix(m) ==
  /\ type = "fix" /\ freesize >= BlkSize
  /\ buf' = Store(buf, Wrapped(tail), Bytes(m, BlkSize))
  /\ tail' = Wrapped(tail) + BlkSize
  /\ freesize' = freesize - BlkSize
  /\ msgs' = Append(msgs, Bytes(m, BlkSize))
  /\ UNCHANGED <<type, head, out>>
-----------------------------------------------------------------------------
\* n bytes from offset p.
Load(p, n) == [i \in 1..n |-> buf[p + i - 1]]

\* The same in two parts if the end comes first and may be in between.
Read(p, n, may_split) ==
  LET split == Size - p
  IN IF may_split /\ split < n /\ split > 0
     THEN [data |-> Load(p, split) \o Load(0, n - split), head |-> n - split]
     ELSE [data |-> Load(p, n), head |-> p + n]

\* The data of a message is split only if it goes round the end.
DataMaySplit(h) == h > tail

Empty == freesize = Size

\* The first byte tells how many bytes the length has; the bytes of the length
\* tell how many bytes follow.
PopDyn ==
  /\ type = "dyn" /\ ~Empty
  /\ LET hl == Read(Wrapped(head), COMPRESS_LEN(buf[Wrapped(head)][2]), TRUE)
         len == hl.data[1][2]
         start == Wrapped(hl.head)
         dt == Read(start, len, DataMaySplit(start))
     IN /\ out' = dt.data
        /\ head' = dt.head
        /\ freesize' = freesize + Len(hl.data) + len
  /\ msgs' = Tail(msgs)
  /\ UNCHANGED <<type, buf, tail>>

PopFix ==
  /\ type = "fix" /\ ~Empty
  /\ out' = Load(Wrapped(head), BlkSize)
  /\ head' = Wrapped(head) + BlkSize
  /\ freesize' = freesize + BlkSize
  /\ msgs' = Tail(msgs)
  /\ UNCHANGED <<type, buf, tail>>

\* ringbuf_reset, from krhino_buf_queue_flush.
Reset ==
  /\ head' = 0 /\ tail' = 0
  /\ freesize' = Size
  /\ msgs' = <<>>
  /\ UNCHANGED <<type, buf, out>>

Next ==
  \/ \E m \in Msg : PushFix(m) \/ \E len \in 1..MaxLen : PushDyn(m, len)
  \/ PopDyn \/ PopFix
  \/ Reset

Spec == Init /\ [][Next]_vars
-----------------------------------------------------------------------------
\* The pointers stay inside the memory: no copy runs over its end.
TypeOK ==
  /\ type \in {"fix", "dyn"}
  /\ DOMAIN buf = 0..Size - 1
  /\ head \in 0..Size /\ tail \in 0..Size
  /\ freesize \in 0..Size

\* freesize, which alone tells a full ring from an empty one, agrees with the
\* pointers.
FreesizeRight ==
  (Wrapped(tail) - Wrapped(head) - (Size - freesize)) % Size = 0

\* Pointers and freesize agree and stay in range (k_ringbuf.c).
RingSound == TypeOK /\ FreesizeRight

\* The bytes inside, oldest first.
Stored ==
  [i \in 1..Size - freesize |-> buf[(Wrapped(head) + i - 1) % Size]]

\* The ring is a first-in first-out queue of bytes: a push writes over nothing
\* that was not popped.
Queue == INSTANCE Fifo WITH queue <- Stored, Cap <- Size
IsFifo == Queue!FifoSpec

\* A pop delivers the oldest message, whole and alone, however its length and
\* its data were split by the end of the memory.
PopsOldest ==
  [][PopDyn \/ PopFix => out' = Head(msgs)]_vars
=============================================================================
