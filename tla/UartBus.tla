------------------------------- MODULE UartBus -------------------------------
(***************************************************************************)
(* The receive side of the UART MAC bus (macbus/uart_bus.c): the byte      *)
(* interrupt and the frame timer on one side, the task on the other, and a *)
(* ring buffer and the position stop_pos between them.  Nothing locks.     *)
(*                                                                         *)
(* A byte is its number in the stream.  The header (magic number and       *)
(* length) is reduced to its last byte, the LenAt-th of a frame; a byte    *)
(* there that belongs to no header gives frm_len = 0.  The link has no     *)
(* flow control: Lag bounds the bytes that come while the task has work.   *)
(***************************************************************************)
EXTENDS Integers, Sequences

CONSTANTS
  QSize,      \* UART_BUS_RX_BUF_SIZE, at least 2
  LenAt,      \* where the length of a frame is known: 6 in the code
  FrameLens,  \* the lengths of the frames the host sends, at least LenAt
  FixLens,    \* the lengths the host asks for in fixed-length mode
  MaxBytes,   \* bound: bytes sent
  Lag,        \* bytes that may come while the task has work
  Gaps,       \* the host pauses in the middle of frames
  Drained     \* the host sends nothing behind a command before its answer

ASSUME UartAssumption ==
  /\ QSize \in Nat /\ QSize >= 2
  /\ LenAt \in Nat \ {0}
  /\ FrameLens \subseteq Nat /\ \A n \in FrameLens : n >= LenAt
  /\ FixLens \subseteq Nat \ {0}
  /\ MaxBytes \in Nat /\ Lag \in Nat
  /\ Gaps \in BOOLEAN /\ Drained \in BOOLEAN

VARIABLES
  rxbuff, rpos, wpos,  \* the ring buffer rb
  stop_pos,            \* where the task stops reading
  rxcount, frm_len,    \* the frame that is coming in
  timer,               \* the 5 ms timer runs
  fixlen,              \* fixed-length mode, 0 if off
  sema,                \* wake-ups of the task
  pc, count, buf,      \* the task and what it copied
  sent,                \* bytes the host sent
  frame, done,         \* the length of its frame, and how much of it is sent
  ends,                \* the bytes that end a frame (observed only)
  behind               \* bytes that came since the task had nothing to do

ring == <<rxbuff, rpos, wpos>>
task == <<pc, count, buf>>
host == <<sent, frame, done, ends, behind>>
vars == <<ring, stop_pos, rxcount, frm_len, timer, fixlen, sema, task, host>>

Slot == 0..QSize - 1

\* No fixed length goes beyond rxbuff, which uart_bus_set_fixlen does not check.
FixLensFit == \A n \in FixLens : n <= QSize

\* mac_bus_uart_attach, which cuts the saved length down to the buffer.
Init ==
  /\ rxbuff = [i \in Slot |-> 0] /\ rpos = 0 /\ wpos = 0
  /\ stop_pos = 0
  /\ rxcount = 0 /\ frm_len = 0
  /\ timer = FALSE
  /\ fixlen \in {0} \cup {IF n > QSize THEN QSize ELSE n : n \in FixLens}
  /\ sema = 0
  /\ pc = "down" /\ count = 0 /\ buf = <<>>
  /\ sent = 0 /\ frame = 0 /\ done = 0
  /\ ends = {} /\ behind = 0
-----------------------------------------------------------------------------
RB_NPOS(pos, i) == IF pos + i >= QSize THEN pos + i - QSize ELSE pos + i

\* How far stop is ahead of rpos.
Ahead(stop) == IF stop >= rpos THEN stop - rpos ELSE QSize - rpos + stop

RB_COUNT == Ahead(wpos)

\* Mutated: the ring is filled to the last place.
FullNever == FALSE

RB_FULL == RB_NPOS(wpos, 1) = rpos

\* n bytes of the ring, from the k-th that the task has not consumed.
Ring(k, n) == [i \in 1..n |-> rxbuff[RB_NPOS(RB_NPOS(rpos, k), i - 1)]]

\* The bytes that were not handed up or dropped.
Gone == IF pc = "advance" THEN count ELSE 0
Unread == Ring(Gone, RB_COUNT - Gone)
-----------------------------------------------------------------------------
Quiet == pc = "down" /\ sema = 0
MayCome(n) == sent + n <= MaxBytes /\ (Quiet \/ behind < Lag)
Come(n) ==
  /\ sent' = sent + n
  /\ behind' = IF Quiet THEN 0 ELSE behind + n

\* The host sends a byte of a frame of n bytes, the first or the next one.
SendByte(n) ==
  /\ Come(1)
  /\ IF done = 0 THEN n \in FrameLens ELSE n = frame
  /\ frame' = n
  /\ done' = (done + 1) % n
  /\ ends' = IF done' = 0 THEN ends \cup {sent'} ELSE ends

\* The end of a frame, or of what fits: the task is told where to stop.
Stop(w) ==
  /\ stop_pos' = w
  /\ rxcount' = 0 /\ frm_len' = 0
  /\ sema' = sema + 1

\* stored is RB_COUNT after the byte.
EndsFrame(cnt, flen, stored) ==
  \/ flen # 0 /\ cnt >= flen
  \/ stored >= QSize - 1

\* uart_bus_irq_hdl, with fixlen = 0.
ByteIrq ==
  /\ fixlen = 0 /\ MayCome(1)
  /\ \E n \in FrameLens \cup {frame} :
       /\ SendByte(n)
       /\ LET w == IF RB_FULL THEN wpos ELSE RB_NPOS(wpos, 1)
              stored == IF RB_FULL THEN RB_COUNT ELSE RB_COUNT + 1
              cnt == rxcount + 1
              flen == IF cnt = LenAt /\ done + 1 = LenAt THEN n ELSE frm_len
          IN /\ rxbuff' = IF RB_FULL THEN rxbuff ELSE [rxbuff EXCEPT ![wpos] = sent']
             /\ wpos' = w
             /\ IF EndsFrame(cnt, flen, stored) THEN Stop(w)
                ELSE /\ rxcount' = cnt /\ frm_len' = flen
                     /\ UNCHANGED <<stop_pos, sema>>
  /\ timer' = TRUE
  /\ UNCHANGED <<rpos, fixlen, task>>

\* Mutated: the timer drops the bytes it finds.
TimerCbDrops ==
  /\ timer /\ (done = 0 \/ Gaps)
  /\ timer' = FALSE
  /\ rxcount' = 0 /\ frm_len' = 0
  /\ UNCHANGED <<ring, stop_pos, sema, fixlen, task, host>>

\* uart_bus_timer_cb, 5 ms after the last byte.
TimerCb ==
  /\ timer /\ (done = 0 \/ Gaps)
  /\ timer' = FALSE
  /\ Stop(wpos)
  /\ UNCHANGED <<ring, fixlen, task, host>>

\* What lies behind rxbuff in struct mac_bus_uart is written over.
Overrun ==
  /\ rpos' \in Nat /\ wpos' \in Nat /\ stop_pos' \in Nat
  /\ rxcount' \in Nat /\ frm_len' \in Nat /\ fixlen' \in Nat

\* uart_bus_irq_hdl in fixed-length mode: the DMA has written the bytes to the
\* start of rxbuff, whatever was there, and they are handed up from there.
FixedIrq ==
  /\ fixlen > 0 /\ MayCome(fixlen)
  /\ Come(fixlen)
  /\ rxbuff' = [i \in Slot |-> IF i < fixlen THEN sent + i + 1 ELSE rxbuff[i]]
  /\ ends' = ends \cup {sent'}
  /\ IF fixlen <= QSize
       THEN UNCHANGED <<rpos, wpos, stop_pos, rxcount, frm_len, fixlen>>
       ELSE Overrun
  /\ UNCHANGED <<timer, sema, task, frame, done>>

\* uart_bus_set_fixlen: a command of the host, of any length and at any time; a
\* host that waits for the answer has nothing else on the way.
SetFixlen(n) ==
  /\ n # fixlen
  /\ Drained => done = 0 /\ Unread = <<>>
  /\ fixlen' = n
  /\ UNCHANGED <<ring, stop_pos, rxcount, frm_len, timer, sema, task, host>>
-----------------------------------------------------------------------------
(***************************************************************************)
(* uart_bus_task.  stop_pos is read once for the count, again after        *)
(* os_malloc, and a third time after the first part of a wrapped copy.     *)
(***************************************************************************)
TaskCount ==
  /\ pc = "down" /\ sema > 0
  /\ sema' = sema - 1
  /\ count' = Ahead(stop_pos)
  /\ pc' \in IF count' > 0 THEN {"copy", "advance"} ELSE {"down"}
  /\ UNCHANGED <<ring, stop_pos, rxcount, frm_len, timer, fixlen, buf, host>>

\* n bytes of rxbuff from place i.
Bytes(i, n) == [j \in 1..n |-> rxbuff[i + j - 1]]

TaskCopy ==
  /\ pc = "copy"
  /\ IF stop_pos > rpos
     THEN buf' = Bytes(rpos, count) /\ pc' = "advance"
     ELSE buf' = Bytes(rpos, QSize - rpos) /\ pc' = "copy2"
  /\ UNCHANGED <<ring, stop_pos, rxcount, frm_len, timer, fixlen, sema, count, host>>

TaskCopyRest ==
  /\ pc = "copy2"
  /\ buf' = buf \o Bytes(0, stop_pos)
  /\ pc' = "advance"
  /\ UNCHANGED <<ring, stop_pos, rxcount, frm_len, timer, fixlen, sema, count, host>>

\* Mutated: rpos goes on from where stop_pos is now.
AdvanceFromStop ==
  /\ pc = "advance"
  /\ rpos' = RB_NPOS(stop_pos, 1)
  /\ pc' = "down" /\ count' = 0 /\ buf' = <<>>
  /\ UNCHANGED <<rxbuff, wpos, stop_pos, rxcount, frm_len, timer, fixlen, sema, host>>

\* The frame is handed up (no memory: it is dropped), then rpos moves on.
TaskAdvance ==
  /\ pc = "advance"
  /\ rpos' = RB_NPOS(rpos, count)
  /\ pc' = "down" /\ count' = 0 /\ buf' = <<>>
  /\ UNCHANGED <<rxbuff, wpos, stop_pos, rxcount, frm_len, timer, fixlen, sema, host>>

Task == TaskCount \/ TaskCopy \/ TaskCopyRest \/ TaskAdvance

Next ==
  \/ ByteIrq \/ TimerCb \/ FixedIrq
  \/ \E n \in {0} \cup FixLens : SetFixlen(n)
  \/ Task

\* The task gets the processor and the hardware timer runs out; a host that
\* does not pause finishes its frame.
Fairness ==
  /\ WF_vars(Task) /\ WF_vars(TimerCb)
  /\ WF_vars(ByteIrq /\ done # 0)

Spec == Init /\ [][Next]_vars /\ Fairness
-----------------------------------------------------------------------------
\* Every variable has its type.
TypeOK ==
  /\ rxbuff \in [Slot -> Nat] /\ rpos \in Slot /\ wpos \in Slot
  /\ stop_pos \in Slot
  /\ rxcount \in Nat /\ frm_len \in Nat
  /\ timer \in BOOLEAN
  /\ fixlen \in Nat
  /\ sema \in Nat
  /\ pc \in {"down", "copy", "copy2", "advance"}
  /\ count \in Nat /\ buf \in Seq(Nat)
  /\ sent \in Nat /\ frame \in Nat /\ done \in Nat
  /\ ends \subseteq Nat /\ behind \in Nat

\* However stale the task's reading of stop_pos is, rpos never overtakes wpos:
\* the task consumes only bytes that came, and RB_SET never writes over one it
\* has still to read.
TaskStaysInside ==
  /\ Ahead(stop_pos) <= RB_COUNT
  /\ pc # "down" => 0 < count /\ count <= Ahead(stop_pos)

\* Bytes in the ring are never left without a wake-up to
\* come: either the task has work, or the timer still runs.
SomeoneComes ==
  rpos # wpos => sema > 0 \/ pc # "down" \/ timer

\* Nothing is lost, read twice or left behind in the ring.
RingSound == TypeOK /\ TaskStaysInside /\ SomeoneComes

\* The DMA of fixed-length mode changes bytes that wait in the ring.
Overwritten == fixlen > 0 /\ Len(Unread') = Len(Unread)

\* The ring buffer, with its unlocked positions, is a first-in first-out queue
\* of bytes.  Only a host that asks for fixed-length mode behind bytes of its own
\* has those written over (uart_bus_set_fixlen does not wait for the task).
Queue == INSTANCE Fifo WITH queue <- Unread, Cap <- QSize - 1
IsFifo ==
  /\ Queue!Empty
  /\ [][Queue!Put \/ Queue!Take \/ (~Drained /\ Overwritten)]_Unread

\* With a task that keeps up and no pauses, each frame that fits is handed up
\* by itself.
FrameByFrame ==
  pc = "advance" /\ buf # <<>> =>
    buf[1] - 1 \in ends \cup {0} /\ buf[Len(buf)] \in ends

\* With a task that keeps up, the copy is what was counted, although stop_pos is
\* read again for each part of it: it fits the memory that os_malloc gave, and
\* bus.recv gets the oldest bytes of the ring.
CopyExact == pc = "advance" /\ buf # <<>> => buf = Ring(0, count)
=============================================================================
