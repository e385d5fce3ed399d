--------------------------- MODULE SdioBusProofs ---------------------------
(***************************************************************************)
(* Proofs about SdioBus for a host that honours the busy register and a    *)
(* transmit path that reports no error, for any number of frames, resets   *)
(* and BUFFER_IDLE notifications.                                          *)
(***************************************************************************)
EXTENDS SdioBus, TLAPS

\* Frames the handler has recorded in rx_cnt.
Recorded == IF irq THEN sent - 1 ELSE sent

\* The driver's copy of the register agrees with the register, and the current
\* buffer is armed, except while a reset waits for its handler: then nothing may
\* be armed, and a register that was cleared invites nobody.  A latched frame
\* lies in the current buffer.
RegisterInv ==
  /\ wr = "idle"
  /\ ~reset => busy = pending
  /\ dma # NoBuf => dma = cur_id /\ busy = pending
  /\ irq => dma = NoBuf /\ pending = 0 /\ sent > 0 /\ rx_buf[cur_id] = sent
  /\ ~irq /\ ~reset => dma = cur_id

\* Which buffers hold a frame, by what the host was told and by how far the
\* task has come.
BufferInv ==
  /\ pending = 0 => rx_cnt[cur_id] = 0
  /\ pending = 1 /\ rx_cnt[cur_id] = 0 => pc = "reopen" /\ rx_cnt[Other(cur_id)] = 0
  /\ pending = 1 /\ rx_cnt[Other(cur_id)] = 0 => pc \in {"recv2", "done2", "reopen"}

\* What the task's stale copies still tell about the buffers.
TaskInv ==
  /\ pc = "recv1" /\ id1 # NoBuf => id1 = Other(cur_id) /\ rx_cnt[id1] = 1
  /\ pc = "recv1" /\ id1 = NoBuf => id2 = NoBuf
  /\ pc = "done1" => id1 = Other(cur_id) /\ rx_cnt[id1] = 1
  /\ pc \in {"recv1", "done1", "recv2", "done2"} /\ id2 # NoBuf =>
       id2 = cur_id /\ rx_cnt[id2] = 1 /\ pending = 1
  /\ pc \in {"recv2", "done2"} /\ id2 # NoBuf => rx_cnt[Other(cur_id)] = 0
  /\ pc = "done2" => id2 # NoBuf

\* The buffers hold exactly the frames after recvd, the older one in the
\* buffer that is not current.  At done1 and done2 one buffer holds a frame
\* already taken.
OldFrame == rx_cnt[Other(cur_id)] = 1 /\ pc # "done1"
NewFrame == rx_cnt[cur_id] = 1 /\ pc # "done2"
OrderInv ==
  /\ Recorded = recvd + (IF OldFrame THEN 1 ELSE 0) + (IF NewFrame THEN 1 ELSE 0)
  /\ OldFrame => rx_buf[Other(cur_id)] = recvd + 1
  /\ NewFrame => rx_buf[cur_id] = Recorded

SdioInv == TypeOK /\ RegisterInv /\ BufferInv /\ TaskInv /\ OrderInv
-----------------------------------------------------------------------------
\* The state mac_bus_sdio_attach leaves satisfies the inductive invariant.
LEMMA InitInv == Init => SdioInv
<1> SUFFICES ASSUME Init PROVE SdioInv
  OBVIOUS
<1> USE DEF Init, Buf, NoBuf, Other
<1>1. TypeOK
  BY DEF TypeOK
<1>2. RegisterInv
  BY DEF RegisterInv
<1>3. BufferInv
  BY DEF BufferInv
<1>4. TaskInv
  BY DEF TaskInv
<1>5. OrderInv
  BY DEF OrderInv, Recorded, OldFrame, NewFrame
<1>6. QED
  BY <1>1, <1>2, <1>3, <1>4, <1>5 DEF SdioInv

\* Every step of the host, the handler and the task preserves the invariant.
LEMMA NextInv ==
  ASSUME HostHonoursBusy, SdioInv, [Next]_vars
  PROVE  SdioInv'
<1> USE ConstantsAssumption DEF SdioInv, TypeOK, RegisterInv, BufferInv,
        TaskInv, OrderInv, Recorded, OldFrame, NewFrame, Buf, NoBuf, Other, Host, Task
<1>1. CASE HostSend
  BY <1>1 DEF HostSend
<1>2. CASE IrqRx
  <2>1. pending = 0 /\ rx_cnt[cur_id] = 0 /\ sent > 0 /\ rx_buf[cur_id] = sent
    BY <1>2 DEF IrqRx
  <2>2. /\ irq /\ irq' = FALSE /\ dma' = cur_id' /\ ready' = 1
        /\ rx_cnt' = [rx_cnt EXCEPT ![cur_id] = 1]
        /\ rxsema' = rxsema + 1
        /\ UNCHANGED <<rx_buf, reset, pc, id1, id2, wr, sent, recvd>>
    BY <1>2 DEF IrqRx
  <2>3. \/ /\ rx_cnt[Other(cur_id)] = 0
           /\ cur_id' = Other(cur_id) /\ pending' = 0 /\ busy' = 0
        \/ /\ rx_cnt[Other(cur_id)] = 1
           /\ cur_id' = cur_id /\ pending' = 1 /\ busy' = 1
    <3>1. rx_cnt[Other(cur_id)] \in {0, 1}
      OBVIOUS
    <3>2. OtherIsFree([rx_cnt EXCEPT ![cur_id] = 1]) <=> rx_cnt[Other(cur_id)] = 0
      BY DEF OtherIsFree
    <3>3. CASE rx_cnt[Other(cur_id)] = 0
      BY <1>2, <3>2, <3>3 DEF IrqRx
    <3>4. CASE rx_cnt[Other(cur_id)] = 1
      BY <1>2, <3>2, <3>4 DEF IrqRx
    <3>5. QED
      BY <3>1, <3>3, <3>4
  <2>4. TypeOK'
    <3>1. irq' \in BOOLEAN
      BY <2>2
    <3>2. cur_id' \in Buf /\ pending' \in {0, 1} /\ busy' \in {0, 1}
      BY <2>3
    <3>3. rxsema' \in Nat /\ dma' \in Buf \cup {NoBuf}
      BY <2>2, <3>2
    <3>4. rx_cnt' \in [Buf -> {0, 1}]
      BY <2>2
    <3>5. QED
      BY <2>2, <3>1, <3>2, <3>3, <3>4
  <2>5. RegisterInv'
    BY <2>1, <2>2, <2>3
  <2>6. BufferInv'
    BY <2>1, <2>2, <2>3
  <2>7. TaskInv'
    BY <2>1, <2>2, <2>3
  <2>8. OrderInv'
    BY <2>1, <2>2, <2>3
  <2>9. QED
    BY <2>4, <2>5, <2>6, <2>7, <2>8
<1>3. CASE IrqReset
  <2>1. /\ reset' = FALSE /\ busy' = pending /\ dma' = cur_id /\ ~irq
        /\ UNCHANGED <<cur_id, rx_cnt, rx_buf, ready, pending, irq, rxsema, pc,
                       id1, id2, wr, sent, recvd>>
    BY <1>3 DEF IrqReset, RestoresBusy
  <2>2. TypeOK'
    BY <2>1
  <2>3. QED
    BY <2>1, <2>2
<1>4. CASE TaskDown
  BY <1>4 DEF TaskDown
<1>5. CASE TaskSnapshot
  BY <1>5 DEF TaskSnapshot, Snapshot
<1>6. CASE Recv1Takes
  BY <1>6 DEF Recv1Takes, RecvTakes
<1>7. CASE Recv1Done
  BY <1>7 DEF Recv1Done, RecvDone
<1>8. CASE Recv1Empty
  BY <1>8 DEF Recv1Empty, RecvSkips
<1>9. CASE Recv1NoMem
  BY <1>9 DEF Recv1NoMem, RecvSkips
<1>10. CASE Recv2Takes
  BY <1>10 DEF Recv2Takes, RecvTakes
<1>11. CASE Recv2Done
  BY <1>11 DEF Recv2Done, RecvDone
<1>12. CASE Recv2Empty
  BY <1>12 DEF Recv2Empty, RecvSkips
<1>13. CASE Recv2NoMem
  BY <1>13 DEF Recv2NoMem, RecvSkips
<1>14. CASE TaskReopen
  BY <1>14 DEF TaskReopen, ReopenIf, OtherIsFree
<1>15. CASE BufferIdle
  BY <1>15 DEF BufferIdle, IdleWakes
<1>16. CASE UNCHANGED vars
  BY <1>16 DEF vars
<1>17. CASE HostReset
  <2>1. /\ reset' = TRUE /\ busy' = 0 /\ dma' = NoBuf
        /\ UNCHANGED <<cur_id, rx_cnt, rx_buf, ready, pending, irq, rxsema, pc,
                       id1, id2, wr, sent, recvd>>
    BY <1>17 DEF HostReset
  <2>2. TypeOK'
    BY <2>1
  <2>3. QED
    BY <2>1, <2>2
<1>18. QED
  BY <1>17, <1>1, <1>2, <1>3, <1>4, <1>5, <1>6, <1>7, <1>8, <1>9, <1>10, <1>11, <1>12, <1>13, <1>14, <1>15, <1>16 DEF Next, RxTask
-----------------------------------------------------------------------------
\* The inductive invariant holds in every reachable state.
LEMMA Invariance ==
  ASSUME HostHonoursBusy
  PROVE  Spec => []SdioInv
<1>1. Init => SdioInv
  BY InitInv
<1>2. SdioInv /\ [Next]_vars => SdioInv'
  BY NextInv
<1>3. QED
  BY <1>1, <1>2, PTL DEF Spec

\* sdio_bus.c keeps its variables in their types, whatever the host sends.
THEOREM TypeCorrect ==
  ASSUME HostHonoursBusy
  PROVE  Spec => []TypeOK
<1>1. SdioInv => TypeOK
  BY DEF SdioInv
<1>2. QED
  BY <1>1, Invariance, PTL

\* The busy register never admits the host into a buffer that still holds a
\* frame (sdio_bus_irq, sdio_bus_rx_task).
THEOREM CreditIsSafe ==
  ASSUME HostHonoursBusy
  PROVE  Spec => []CreditSafe
<1>1. SdioInv => CreditSafe
  BY DEF SdioInv, TypeOK, RegisterInv, BufferInv, CreditSafe, Buf, NoBuf
<1>2. QED
  BY <1>1, Invariance, PTL

\* No frame a host that honours busy wrote is overwritten before bus.recv
\* took it.
THEOREM NoLoss ==
  ASSUME HostHonoursBusy
  PROVE  Spec => []NoFrameLost
<1>1. SdioInv => NoFrameLost
  <2> SUFFICES ASSUME SdioInv, NEW n \in (recvd + 1)..sent
               PROVE  \E id \in Buf : rx_buf[id] = n /\ (rx_cnt[id] = 1 \/ irq)
    BY DEF NoFrameLost
  <2> USE DEF SdioInv, TypeOK, RegisterInv, OrderInv, Recorded, OldFrame,
          NewFrame, Buf, NoBuf, Other
  <2>1. CASE irq /\ n = sent
    BY <2>1
  <2>2. CASE OldFrame /\ n = recvd + 1
    BY <2>2
  <2>3. CASE NewFrame /\ n = Recorded
    BY <2>3
  <2>4. QED
    BY <2>1, <2>2, <2>3
<1>2. QED
  BY <1>1, Invariance, PTL

\* The task hands the frames up in the host's order, none twice, none skipped.
THEOREM OrderPreserved ==
  ASSUME HostHonoursBusy
  PROVE  Spec => InOrder
<1>1. SdioInv /\ [Next]_vars => [recvd' = recvd + 1]_recvd
  <2> SUFFICES ASSUME SdioInv, [Next]_vars, recvd' # recvd
               PROVE  recvd' = recvd + 1
    OBVIOUS
  <2> USE DEF SdioInv, TypeOK, RegisterInv, BufferInv, TaskInv, OrderInv,
          Recorded, OldFrame, NewFrame, Buf, NoBuf, Other
  <2>1. CASE Recv1Takes
    BY <2>1 DEF Recv1Takes, RecvTakes
  <2>2. CASE Recv2Takes
    BY <2>2 DEF Recv2Takes, RecvTakes
  <2>3. ASSUME ~Recv1Takes, ~Recv2Takes
        PROVE  recvd' = recvd
    BY <2>3 DEF Next, RxTask, vars, HostSend, HostReset, IrqRx, IrqReset, RestoresBusy, TaskDown,
         TaskSnapshot, Snapshot, Recv1Done, Recv1Empty, Recv1NoMem, Recv2Done, Recv2Empty,
         Recv2NoMem, RecvDone, RecvSkips, TaskReopen, ReopenIf, BufferIdle, IdleWakes, Host
  <2>4. QED
    BY <2>1, <2>2, <2>3
<1>2. QED
  BY <1>1, Invariance, PTL DEF Spec, InOrder
=============================================================================
