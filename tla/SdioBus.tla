------------------------------ MODULE SdioBus ------------------------------
(***************************************************************************)
(* The receive side of the SDIO MAC bus (sdk/lib/bus/macbus/sdio_bus.c):   *)
(* two receive buffers shared by the interrupt handler sdio_bus_irq and    *)
(* the task sdio_bus_rx_task, flow controlled by a "busy" register that    *)
(* the host polls, and the transmit path, which shares a bit-field byte    *)
(* with the handler.                                                       *)
(*                                                                         *)
(* Frames are numbered 1, 2, ... in the order the host writes them.  An    *)
(* action is what runs with interrupts off, or a stretch of task code in   *)
(* which no shared variable is touched twice.  The counters rxerr and      *)
(* txerr, which nothing reads, are left out.                               *)
(***************************************************************************)
EXTENDS Naturals

CONSTANTS
  MaxFrames,        \* bound: frames the host writes
  MaxIdle,          \* bound: semaphore tokens in flight from BUFFER_IDLE
  HostHonoursBusy,  \* the host writes only while it reads busy = 0
  HostResets        \* the host may reset the SDIO function

ASSUME ConstantsAssumption ==
  /\ MaxFrames \in Nat
  /\ MaxIdle \in Nat
  /\ HostHonoursBusy \in BOOLEAN
  /\ HostResets \in BOOLEAN

VARIABLES
  cur_id,   \* the buffer the hardware receives into
  rx_cnt,   \* rx_cnt[id] = 1: buffer id holds a frame that was not handed up
  rx_buf,   \* the frame whose bytes are in the buffer (0: none yet)
  ready,    \* the host has sent something since the last write error
  pending,  \* the driver's copy of the busy register
  busy,     \* SDIO user register 1, which the host polls
  dma,      \* the buffer sdio_slave_read armed, or NoBuf
  irq,      \* an SDIO_SLAVE_IRQ_RX is latched and its handler has not run
  reset,    \* an SDIO_SLAVE_IRQ_RESET is latched and its handler has not run
  rxsema,   \* tokens of the semaphore the receive task sleeps on
  pc,       \* where the receive task is
  id1,      \* local of the receive task
  id2,      \* local of the receive task
  wr,       \* the transmitting task: "idle", or the pending bit it loaded
  sent,     \* frames the host has written
  recvd     \* the frame the upper layer accepted last

vars == <<cur_id, rx_cnt, rx_buf, ready, pending, busy, dma, irq, reset,
          rxsema, pc, id1, id2, wr, sent, recvd>>

Buf == {0, 1}
NoBuf == 2                      \* 0xff in the code
Other(id) == 1 - id             \* !id in the code

Host == <<sent, recvd>>
Task == <<pc, id1, id2>>

TypeOK ==
  /\ cur_id \in Buf
  /\ rx_cnt \in [Buf -> {0, 1}]
  /\ rx_buf \in [Buf -> Nat]
  /\ ready \in {0, 1}
  /\ pending \in {0, 1}
  /\ busy \in {0, 1}
  /\ dma \in Buf \cup {NoBuf}
  /\ irq \in BOOLEAN
  /\ reset \in BOOLEAN
  /\ rxsema \in Nat
  /\ pc \in {"down", "snapshot", "recv1", "done1", "recv2", "done2", "reopen"}
  /\ id1 \in Buf \cup {NoBuf}
  /\ id2 \in Buf \cup {NoBuf}
  /\ wr \in {"idle", "load0", "load1"}
  /\ sent \in Nat
  /\ recvd \in Nat

\* mac_bus_sdio_attach: zeroed state, the first buffer armed, the task started.
Init ==
  /\ cur_id = 0
  /\ rx_cnt = [id \in Buf |-> 0]
  /\ rx_buf = [id \in Buf |-> 0]
  /\ ready = 0
  /\ pending = 0
  /\ busy = 0
  /\ dma = 0
  /\ irq = FALSE
  /\ reset = FALSE
  /\ rxsema = 0
  /\ pc = "down"
  /\ id1 = NoBuf
  /\ id2 = NoBuf
  /\ wr = "idle"
  /\ sent = 0
  /\ recvd = 0
-----------------------------------------------------------------------------
(***************************************************************************)
(* The host and the SDIO hardware.                                         *)
(***************************************************************************)

\* The host's next frame lands in the armed buffer and latches the interrupt.
HostSend ==
  /\ dma # NoBuf
  /\ sent < MaxFrames
  /\ HostHonoursBusy => busy = 0
  /\ rx_buf' = [rx_buf EXCEPT ![dma] = sent + 1]
  /\ sent' = sent + 1
  /\ dma' = NoBuf
  /\ irq' = TRUE
  /\ UNCHANGED <<cur_id, rx_cnt, ready, pending, busy, reset, rxsema, Task, wr,
                 recvd>>

\* The host resets the SDIO function: the user register is cleared, the armed
\* transfer is gone, and the interrupt is latched behind a frame that came before.
HostReset ==
  /\ HostResets
  /\ busy' = 0
  /\ dma' = NoBuf
  /\ reset' = TRUE
  /\ UNCHANGED <<cur_id, rx_cnt, rx_buf, ready, pending, irq, rxsema, Task, wr,
                 Host>>
-----------------------------------------------------------------------------
(***************************************************************************)
(* sdio_bus_irq.                                                           *)
(***************************************************************************)

\* Mutated: the other buffer is always taken.
AlwaysFree(cnt) == TRUE

\* sdio_bus_update_rxbuff: go to the other buffer if it is free.
OtherIsFree(cnt) == cnt[Other(cur_id)] = 0

IrqRx ==
  LET cnt == [rx_cnt EXCEPT ![cur_id] = 1]
      b   == IF OtherIsFree(cnt) THEN 0 ELSE 1
  IN
  /\ irq
  /\ irq' = FALSE
  /\ ready' = 1
  /\ rx_cnt' = cnt
  /\ cur_id' = IF OtherIsFree(cnt) THEN Other(cur_id) ELSE cur_id
  /\ pending' = b
  /\ busy' = b
  /\ dma' = cur_id'
  /\ rxsema' = rxsema + 1
  /\ UNCHANGED <<rx_buf, reset, Task, wr, Host>>

RestoresBusy(b) ==
  /\ reset
  /\ ~irq
  /\ reset' = FALSE
  /\ busy' = b
  /\ dma' = cur_id
  /\ UNCHANGED <<cur_id, rx_cnt, rx_buf, ready, pending, irq, rxsema, Task, wr,
                 Host>>

\* Mutated: the buffer is armed and the register left as the reset cleared it.
ResetOpens == RestoresBusy(0)

\* After a reset: the register is restored and the current buffer armed again.
IrqReset == RestoresBusy(pending)
-----------------------------------------------------------------------------
(***************************************************************************)
(* sdio_bus_rx_task.                                                       *)
(***************************************************************************)

TaskDown ==
  /\ pc = "down"
  /\ rxsema > 0
  /\ rxsema' = rxsema - 1
  /\ pc' = "snapshot"
  /\ UNCHANGED <<cur_id, rx_cnt, rx_buf, ready, pending, busy, dma, irq, reset,
                 id1, id2, wr, Host>>

Snapshot(first, second) ==
  /\ pc = "snapshot"
  /\ id1' = IF rx_cnt[first] = 0 THEN NoBuf ELSE first
  /\ id2' = IF rx_cnt[second] = 0 THEN NoBuf ELSE second
  /\ pc' = "recv1"
  /\ UNCHANGED <<cur_id, rx_cnt, rx_buf, ready, pending, busy, dma, irq, reset,
                 rxsema, wr, Host>>

\* Mutated: the buffers are looked at by number.
SnapshotByNumber == Snapshot(0, 1)

\* The task looks at both buffers once, with interrupts off.
TaskSnapshot == Snapshot(Other(cur_id), cur_id)

\* sdio_bus_proc_rxbuff(id): bus.recv takes the frame, now or with an error
\* code other than -ENOMEM, and the buffer is free only once it has returned...
RecvTakes(from, id, to) ==
  /\ pc = from
  /\ id # NoBuf
  /\ recvd' = rx_buf[id]
  /\ pc' = to
  /\ UNCHANGED <<cur_id, rx_cnt, rx_buf, ready, pending, busy, dma, irq, reset,
                 rxsema, id1, id2, wr, sent>>

\* ... when rx_cnt is cleared, a step the handler may precede.
RecvDone(from, id, to) ==
  /\ pc = from
  /\ rx_cnt' = [rx_cnt EXCEPT ![id] = 0]
  /\ pc' = to
  /\ UNCHANGED <<cur_id, rx_buf, ready, pending, busy, dma, irq, reset, rxsema,
                 id1, id2, wr, Host>>

\* bus.recv has no memory, or the buffer was empty at the snapshot.
RecvSkips(from, to) ==
  /\ pc = from
  /\ pc' = to
  /\ UNCHANGED <<cur_id, rx_cnt, rx_buf, ready, pending, busy, dma, irq, reset,
                 rxsema, id1, id2, wr, Host>>

Recv1Takes == RecvTakes("recv1", id1, "done1")
Recv1Done == RecvDone("done1", id1, "recv2")
Recv1Empty == id1 = NoBuf /\ RecvSkips("recv1", "recv2")
Recv1NoMem == id1 # NoBuf /\ RecvSkips("recv1", "down")      \* continue
Recv2Takes == RecvTakes("recv2", id2, "done2")
Recv2Done == RecvDone("done2", id2, "reopen")
Recv2Empty == id2 = NoBuf /\ RecvSkips("recv2", "reopen")
Recv2NoMem == id2 # NoBuf /\ RecvSkips("recv2", "reopen")    \* result ignored

\* With interrupts off: a blocked host is let in again if a buffer is free.
ReopenIf(free) ==
  /\ pc = "reopen"
  /\ pc' = "down"
  /\ IF pending = 1 /\ free
       THEN /\ cur_id' = Other(cur_id)
            /\ dma' = cur_id'
            /\ pending' = 0
            /\ busy' = 0
       ELSE UNCHANGED <<cur_id, dma, pending, busy>>
  /\ UNCHANGED <<rx_cnt, rx_buf, ready, irq, reset, rxsema, id1, id2, wr, Host>>

\* Mutated: whether the other buffer was emptied is not checked.
ReopenAlways == ReopenIf(TRUE)

\* Mutated: a blocked host is left to the handler.
ReopenNever == ReopenIf(FALSE)

TaskReopen == ReopenIf(OtherIsFree(rx_cnt))

\* sdio_bus_ioctl(MACBUS_IOCTL_BUFFER_IDLE), called when memory is free again.
IdleWakes(cond) ==
  /\ cond
  /\ rxsema < MaxIdle
  /\ rxsema' = rxsema + 1
  /\ UNCHANGED <<cur_id, rx_cnt, rx_buf, ready, pending, busy, dma, irq, reset,
                 Task, wr, Host>>

BufferIdle == IdleWakes(pending = 1)
-----------------------------------------------------------------------------
(***************************************************************************)
(* sdio_bus_write and sdio_bus_write_scatter.  "ready" and "pending" are   *)
(* bits of one byte, so the assignment ready = 0 in a task is a load, a    *)
(* mask and a store of both bits, with interrupts on.                      *)
(***************************************************************************)

\* The transfer failed: the byte is loaded.
WriteErrLoad ==
  /\ wr = "idle"
  /\ ready = 1
  /\ wr' = IF pending = 1 THEN "load1" ELSE "load0"
  /\ UNCHANGED <<cur_id, rx_cnt, rx_buf, ready, pending, busy, dma, irq, reset,
                 rxsema, Task, Host>>

\* The byte is stored back with ready cleared and pending as it was loaded.
WriteErrStore ==
  /\ wr # "idle"
  /\ wr' = "idle"
  /\ ready' = 0
  /\ pending' = IF wr = "load1" THEN 1 ELSE 0
  /\ UNCHANGED <<cur_id, rx_cnt, rx_buf, busy, dma, irq, reset, rxsema, Task, Host>>
-----------------------------------------------------------------------------
RxTask ==
  \/ TaskDown \/ TaskSnapshot
  \/ Recv1Takes \/ Recv1Done \/ Recv1Empty \/ Recv1NoMem
  \/ Recv2Takes \/ Recv2Done \/ Recv2Empty \/ Recv2NoMem
  \/ TaskReopen

Next ==
  \/ HostSend
  \/ HostReset
  \/ IrqRx
  \/ IrqReset
  \/ RxTask
  \/ BufferIdle

\* The same while sdio_slave_write also reports errors.
NextWriteErrs == Next \/ WriteErrLoad \/ WriteErrStore

Spec == Init /\ [][Next]_vars

\* Interrupts are served and the receive task, of high priority, is scheduled;
\* memory is freed infinitely often and each time the layer above reports it.
Fairness ==
  /\ WF_vars(IrqRx) /\ WF_vars(IrqReset)
  /\ WF_vars(RxTask)
  /\ SF_vars(Recv1Takes)
  /\ WF_vars(BufferIdle)

FairSpec == Spec /\ Fairness
-----------------------------------------------------------------------------
(***************************************************************************)
(* Properties.                                                             *)
(***************************************************************************)

\* The host is admitted (busy = 0, a buffer armed) only into a buffer whose
\* frame was handed up: the handler and the task together never open the door
\* on a frame that sdio_bus_proc_rxbuff has still to process.
CreditSafe == busy = 0 /\ dma # NoBuf => rx_cnt[dma] = 0

\* Every frame the host wrote and bus.recv did not take yet is intact in one
\* of the two buffers, and is counted in rx_cnt or about to be by the handler.
NoFrameLost ==
  \A n \in (recvd + 1)..sent :
    \E id \in Buf : rx_buf[id] = n /\ (rx_cnt[id] = 1 \/ irq)

\* The buffers are handed up in the order the host filled them, none twice and
\* none skipped, whichever way the handler interleaves with the task's stale
\* copies id1 and id2.
InOrder == [][recvd' = recvd + 1]_recvd

\* A host that was told to wait is let in again.
BusyReleased == busy = 1 ~> busy = 0
=============================================================================
