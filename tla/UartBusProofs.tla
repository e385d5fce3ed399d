--------------------------- MODULE UartBusProofs ---------------------------
(***************************************************************************)
(* Proofs about UartBus for a ring of any size, any frames and any         *)
(* interleaving of the byte interrupt, the frame timer and the task, as    *)
(* long as no fixed length exceeds the receive buffer.                     *)
(***************************************************************************)
EXTENDS UartBus, SequenceTheorems, TLAPS

\* A byte the task was not told of is covered by the timer; a place to stop
\* that the task has not reached by a token, and so is one that was moved
\* after the task had read it.
WakeInv ==
  /\ stop_pos # wpos => timer
  /\ pc = "down" /\ stop_pos # rpos => sema > 0
  /\ pc # "down" /\ count # Ahead(stop_pos) => sema > 0

\* The DMA of fixed-length mode stays in rxbuff, and if the host waits for the
\* answer of its command it writes only over bytes that were handed up.
FixedInv ==
  /\ fixlen <= QSize
  /\ Drained /\ fixlen > 0 => RB_COUNT = Gone

\* The host is in the middle of a frame only if that frame has a length.
HostInv == done # 0 => frame > 0

UartInv == TypeOK /\ TaskStaysInside /\ WakeInv /\ FixedInv /\ HostInv
-----------------------------------------------------------------------------
\* Positions: RB_NPOS stays in the ring, and Ahead is its inverse.
LEMMA Positions ==
  ASSUME rpos \in Slot
  PROVE  /\ \A p \in Slot, i \in 0..QSize : RB_NPOS(p, i) \in Slot
         /\ \A s \in Slot : /\ Ahead(s) \in 0..QSize - 1
                            /\ RB_NPOS(rpos, Ahead(s)) = s
                            /\ Ahead(s) = 0 <=> s = rpos
         /\ \A i \in 0..QSize - 1 : Ahead(RB_NPOS(rpos, i)) = i
BY UartAssumption DEF Slot, RB_NPOS, Ahead

\* Counting on along the ring in two parts or in one.
LEMMA NposAdds ==
  ASSUME NEW p \in Slot, NEW i \in Nat, NEW j \in Nat, i + j <= QSize
  PROVE  RB_NPOS(RB_NPOS(p, i), j) = RB_NPOS(p, i + j)
BY UartAssumption DEF Slot, RB_NPOS

\* One more byte: unless the ring is full the distance to wpos grows by one.
LEMMA OneMore ==
  ASSUME rpos \in Slot, wpos \in Slot
  PROVE  /\ RB_FULL <=> RB_COUNT = QSize - 1
         /\ ~RB_FULL => /\ RB_NPOS(wpos, 1) \in Slot
                        /\ Ahead(RB_NPOS(wpos, 1)) = RB_COUNT + 1
BY UartAssumption DEF Slot, RB_NPOS, Ahead, RB_FULL, RB_COUNT

\* mac_bus_uart_attach leaves a state that satisfies the invariant.
LEMMA InitInv ==
  ASSUME FixLensFit
  PROVE  Init => UartInv
<1> SUFFICES ASSUME Init PROVE UartInv
  OBVIOUS
<1> USE UartAssumption
<1>0. fixlen \in Nat /\ fixlen <= QSize
  BY DEF Init, FixLensFit
<1>1. TypeOK
  <2>1. rxbuff \in [Slot -> Nat] /\ 0 \in Slot
    BY DEF Init, Slot
  <2>2. buf \in Seq(Nat) /\ ends \subseteq Nat
    BY DEF Init
  <2>3. rpos = 0 /\ wpos = 0 /\ stop_pos = 0 /\ rxcount = 0 /\ frm_len = 0 /\ sema = 0
        /\ pc = "down" /\ count = 0 /\ sent = 0 /\ frame = 0 /\ done = 0 /\ behind = 0
        /\ timer = FALSE
    BY DEF Init
  <2>4. QED
    BY <1>0, <2>1, <2>2, <2>3 DEF TypeOK
<1>2. TaskStaysInside /\ WakeInv /\ FixedInv /\ HostInv
  BY <1>0 DEF Init, TaskStaysInside, WakeInv, FixedInv, HostInv, Ahead, RB_COUNT, Gone
<1>3. QED
  BY <1>1, <1>2 DEF UartInv
-----------------------------------------------------------------------------
\* The byte interrupt moves wpos forward or, in a full ring, not at all, and
\* stop_pos only to wpos.
LEMMA ByteIrqInv ==
  ASSUME UartInv, ByteIrq
  PROVE  UartInv'
<1> USE UartAssumption DEF UartInv
<1>1. PICK n \in FrameLens \cup {frame} :
        /\ SendByte(n)
        /\ LET w == IF RB_FULL THEN wpos ELSE RB_NPOS(wpos, 1)
               stored == IF RB_FULL THEN RB_COUNT ELSE RB_COUNT + 1
               cnt == rxcount + 1
               flen == IF cnt = LenAt /\ done + 1 = LenAt THEN n ELSE frm_len
           IN /\ rxbuff' = IF RB_FULL THEN rxbuff ELSE [rxbuff EXCEPT ![wpos] = sent']
              /\ wpos' = w
              /\ IF EndsFrame(cnt, flen, stored) THEN Stop(w)
                 ELSE /\ rxcount' = cnt /\ frm_len' = flen
                      /\ UNCHANGED <<stop_pos, sema>>
  BY DEF ByteIrq
<1>2. /\ timer' = TRUE /\ fixlen = 0
      /\ UNCHANGED <<rpos, fixlen, pc, count, buf>>
  BY DEF ByteIrq, task
<1>3. n \in Nat /\ n > 0
  <2>1. CASE n \in FrameLens
    BY <2>1
  <2>2. CASE n \notin FrameLens
    BY <1>1, <2>2 DEF SendByte, TypeOK, HostInv
  <2>3. QED
    BY <2>1, <2>2
<1>4. /\ wpos' = IF RB_FULL THEN wpos ELSE RB_NPOS(wpos, 1)
      /\ rxbuff' = IF RB_FULL THEN rxbuff ELSE [rxbuff EXCEPT ![wpos] = sent']
      /\ \/ /\ stop_pos' = wpos' /\ sema' = sema + 1
            /\ rxcount' = 0 /\ frm_len' = 0
         \/ /\ UNCHANGED <<stop_pos, sema>>
            /\ rxcount' = rxcount + 1 /\ frm_len' \in {n, frm_len}
  BY <1>1 DEF Stop
<1>5. sent' = sent + 1 /\ frame' = n /\ done' = (done + 1) % n
      /\ ends' \in {ends, ends \cup {sent'}} /\ behind' \in {0, behind + 1}
  BY <1>1 DEF SendByte, Come
<1>6. wpos' \in Slot /\ RB_COUNT' \in {RB_COUNT, RB_COUNT + 1} /\ RB_COUNT' = Ahead(wpos')
  BY <1>2, <1>4, OneMore DEF TypeOK, RB_COUNT, Ahead
<1>7. Ahead(stop_pos)' = Ahead(stop_pos')
  BY <1>2 DEF Ahead
<1>8. TypeOK'
  <2>1. done' \in Nat /\ sent' \in Nat /\ frame' \in Nat
    BY <1>3, <1>5 DEF TypeOK
  <2>2. rxbuff' \in [Slot -> Nat]
    BY <1>4, <2>1 DEF TypeOK
  <2>3. stop_pos' \in Slot /\ sema' \in Nat /\ rxcount' \in Nat /\ frm_len' \in Nat
    BY <1>3, <1>4, <1>6 DEF TypeOK
  <2>4. ends' \subseteq Nat /\ behind' \in Nat
    BY <1>5, <2>1 DEF TypeOK
  <2>5. QED
    BY <1>2, <1>6, <2>1, <2>2, <2>3, <2>4 DEF TypeOK
<1>9. TaskStaysInside'
  <2>1. Ahead(stop_pos) \in Nat /\ RB_COUNT \in Nat
    BY Positions DEF TypeOK, RB_COUNT
  <2>2. Ahead(stop_pos)' \in {Ahead(stop_pos), RB_COUNT'}
    BY <1>2, <1>4, <1>6, <1>7
  <2>3. QED
    BY <1>2, <1>6, <2>1, <2>2 DEF TaskStaysInside, TypeOK
<1>10. WakeInv'
  BY <1>2, <1>4, <1>6, <1>7 DEF WakeInv, TypeOK
<1>11. FixedInv' /\ HostInv'
  BY <1>2, <1>3, <1>5 DEF FixedInv, HostInv, TypeOK
<1>12. QED
  BY <1>8, <1>9, <1>10, <1>11

\* The frame timer moves stop_pos to wpos and wakes the task.
LEMMA TimerCbInv ==
  ASSUME UartInv, TimerCb
  PROVE  UartInv'
<1> USE UartAssumption DEF UartInv, TimerCb, Stop, ring, host, task
<1>1. RB_COUNT' = RB_COUNT /\ Ahead(stop_pos)' = RB_COUNT
  BY DEF RB_COUNT, Ahead
<1>2. TypeOK'
  <2>1. sema' = sema + 1 /\ stop_pos' = wpos /\ rxcount' = 0 /\ frm_len' = 0
    OBVIOUS
  <2>2. sema' \in Nat /\ stop_pos' \in Slot /\ rxcount' \in Nat /\ frm_len' \in Nat
    BY <2>1 DEF TypeOK
  <2>3. timer' \in BOOLEAN
    BY Zenon DEF TypeOK
  <2>4. QED
    BY <2>2, <2>3 DEF TypeOK
<1>3. TaskStaysInside'
  <2>1. Ahead(stop_pos) \in Nat /\ RB_COUNT \in Nat
    BY Positions DEF TypeOK, RB_COUNT
  <2>2. QED
    BY <1>1, <2>1 DEF TaskStaysInside, TypeOK
<1>4. WakeInv' /\ FixedInv' /\ HostInv'
  BY <1>1 DEF WakeInv, FixedInv, HostInv, TypeOK, Gone
<1>5. QED
  BY <1>2, <1>3, <1>4

\* Fixed-length mode leaves the positions alone.
LEMMA FixedInvariant ==
  ASSUME FixLensFit, UartInv,
         FixedIrq \/ \E n \in {0} \cup FixLens : SetFixlen(n)
  PROVE  UartInv'
<1> USE UartAssumption DEF UartInv, ring, host, task
<1>1. /\ UNCHANGED <<rpos, wpos, stop_pos, timer, sema, pc, count>>
      /\ Drained /\ fixlen' > 0 => fixlen > 0 \/ Unread = <<>>
      /\ fixlen' \in Nat /\ fixlen' <= QSize
  BY DEF FixedIrq, SetFixlen, FixedInv, FixLensFit, TypeOK
<1>2. RB_COUNT' = RB_COUNT /\ Gone' = Gone /\ Ahead(stop_pos)' = Ahead(stop_pos)
  BY <1>1 DEF RB_COUNT, Ahead, Gone
<1>3. RB_COUNT \in Nat /\ Gone \in Nat /\ Gone <= RB_COUNT
  BY Positions DEF RB_COUNT, Gone, TypeOK, TaskStaysInside
<1>4. Unread = <<>> => RB_COUNT = Gone
  <2>1. DOMAIN Unread = 1..(RB_COUNT - Gone)
    BY DEF Unread, Ring
  <2>2. QED
    BY <1>3, <2>1
<1>5. TypeOK'
  <2>1. CASE FixedIrq
    BY <2>1 DEF FixedIrq, FixedInv, Come, TypeOK, Slot
  <2>2. CASE \E n \in {0} \cup FixLens : SetFixlen(n)
    BY <2>2 DEF SetFixlen, TypeOK
  <2>3. QED
    BY <2>1, <2>2
<1>6. TaskStaysInside' /\ WakeInv'
  BY <1>1, <1>2 DEF TaskStaysInside, WakeInv
<1>7. FixedInv'
  BY <1>1, <1>2, <1>4 DEF FixedInv
<1>8. HostInv'
  BY DEF HostInv, FixedIrq, SetFixlen
<1>9. QED
  BY <1>5, <1>6, <1>7, <1>8

\* The task consumes what it counted, whatever has become of stop_pos.
LEMMA TaskStepInv ==
  ASSUME UartInv, Task
  PROVE  UartInv'
<1> USE UartAssumption DEF UartInv, ring, host, task
<1>0. HostInv'
  BY DEF Task, TaskCount, TaskCopy, TaskCopyRest, TaskAdvance, HostInv
<1>1. CASE TaskCount
  <2> USE <1>1 DEF TaskCount
  <2>1. Ahead(stop_pos)' = Ahead(stop_pos) /\ RB_COUNT' = RB_COUNT
    BY DEF Ahead, RB_COUNT
  <2>2. Ahead(stop_pos) \in Nat /\ RB_COUNT \in Nat
    BY Positions DEF TypeOK, RB_COUNT
  <2>3. TypeOK'
    BY <2>2 DEF TypeOK
  <2>4. TaskStaysInside'
    BY <2>1, <2>2 DEF TaskStaysInside, TypeOK
  <2>5. WakeInv'
    <3>1. Ahead(stop_pos) = 0 <=> stop_pos = rpos
      BY Positions DEF TypeOK
    <3>2. pc' # "down" => count' = Ahead(stop_pos)'
      BY <2>1
    <3>3. pc' = "down" => stop_pos' = rpos'
      BY <2>2, <3>1
    <3>4. QED
      BY <3>2, <3>3 DEF WakeInv
  <2>6. FixedInv'
    BY <2>1, <2>2 DEF FixedInv, Gone, TaskStaysInside, TypeOK
  <2>7. QED
    BY <1>0, <2>3, <2>4, <2>5, <2>6
<1>2. CASE TaskCopy \/ TaskCopyRest
  <2>1. /\ UNCHANGED <<rxbuff, rpos, wpos, stop_pos, rxcount, frm_len, timer, fixlen, sema, count>>
        /\ UNCHANGED <<sent, frame, done, ends, behind>>
        /\ pc # "down" /\ pc # "advance" /\ pc' \in {"copy2", "advance"}
    BY <1>2 DEF TaskCopy, TaskCopyRest
  <2>2. Ahead(stop_pos)' = Ahead(stop_pos) /\ RB_COUNT' = RB_COUNT
    BY <2>1 DEF Ahead, RB_COUNT
  <2>3. buf' \in Seq(Nat)
    <3>1. \A i \in Slot, n \in Nat : i + n <= QSize => Bytes(i, n) \in Seq(Nat)
      <4> SUFFICES ASSUME NEW i \in Slot, NEW n \in Nat, i + n <= QSize
                   PROVE  Bytes(i, n) \in Seq(Nat)
        OBVIOUS
      <4>1. \A j \in 1..n : rxbuff[i + j - 1] \in Nat
        BY DEF TypeOK, Slot
      <4>2. QED
        BY <4>1, IsASeq DEF Bytes
    <3>2. CASE TaskCopy /\ stop_pos > rpos
      <4>1. rpos + count <= QSize /\ count \in Nat /\ rpos \in Slot
        BY <3>2, <2>1 DEF TypeOK, TaskStaysInside, Ahead, Slot
      <4>2. QED
        BY <3>1, <3>2, <4>1 DEF TaskCopy
    <3>3. CASE TaskCopy /\ ~(stop_pos > rpos)
      <4>1. QSize - rpos \in Nat /\ rpos + (QSize - rpos) <= QSize /\ rpos \in Slot
        BY DEF TypeOK, Slot
      <4>2. QED
        BY <3>1, <3>3, <4>1 DEF TaskCopy
    <3>4. CASE TaskCopyRest
      <4>1. stop_pos \in Nat /\ 0 + stop_pos <= QSize /\ 0 \in Slot
        BY DEF TypeOK, Slot
      <4>2. Bytes(0, stop_pos) \in Seq(Nat) /\ buf \in Seq(Nat)
        BY <3>1, <4>1 DEF TypeOK
      <4>3. QED
        BY <3>4, <4>2, ConcatProperties DEF TaskCopyRest
    <3>5. QED
      BY <1>2, <3>2, <3>3, <3>4
  <2>4. TypeOK'
    BY <2>1, <2>3 DEF TypeOK
  <2>5. TaskStaysInside' /\ WakeInv'
    BY <2>1, <2>2 DEF TaskStaysInside, WakeInv
  <2>6. FixedInv'
    <3>1. Ahead(stop_pos) \in Nat /\ RB_COUNT \in Nat /\ count \in Nat
      BY Positions DEF TypeOK, RB_COUNT
    <3>2. RB_COUNT # 0 /\ Gone = 0
      BY <2>1, <3>1 DEF TaskStaysInside, Gone
    <3>3. QED
      BY <2>1, <3>2 DEF FixedInv, TypeOK
  <2>7. QED
    BY <1>0, <2>4, <2>5, <2>6
<1>3. CASE TaskAdvance
  <2> USE <1>3 DEF TaskAdvance
  <2>1. /\ count \in 1..QSize - 1
        /\ Ahead(stop_pos) \in count..QSize - 1 /\ RB_COUNT \in Ahead(stop_pos)..QSize - 1
    BY Positions DEF TypeOK, TaskStaysInside, RB_COUNT
  <2>2. rpos' \in Slot
    BY <2>1, Positions DEF TypeOK
  <2>3. Ahead(stop_pos)' = Ahead(stop_pos) - count /\ RB_COUNT' = RB_COUNT - count
    BY <2>1, <2>2 DEF Ahead, RB_COUNT, RB_NPOS, TypeOK, Slot
  <2>4. stop_pos' = rpos' <=> Ahead(stop_pos) = count
    <3>1. stop_pos' \in 0..QSize - 1 /\ rpos' \in 0..QSize - 1
      BY <2>2 DEF TypeOK, Slot
    <3>2. stop_pos' = rpos' <=> Ahead(stop_pos)' = 0
      BY <3>1 DEF Ahead
    <3>3. QED
      BY <2>1, <2>3, <3>2
  <2>5. TypeOK'
    BY <2>2 DEF TypeOK
  <2>6. TaskStaysInside' /\ WakeInv'
    BY <2>1, <2>3, <2>4 DEF TaskStaysInside, WakeInv
  <2>7. FixedInv'
    BY <2>1, <2>3 DEF FixedInv, Gone
  <2>8. QED
    BY <1>0, <2>5, <2>6, <2>7
<1>4. QED
  BY <1>1, <1>2, <1>3 DEF Task
-----------------------------------------------------------------------------
\* Every step, or a stuttering step, preserves the invariant.
LEMMA NextInv ==
  ASSUME FixLensFit
  PROVE  UartInv /\ [Next]_vars => UartInv'
<1> SUFFICES ASSUME UartInv, [Next]_vars PROVE UartInv'
  OBVIOUS
<1>1. CASE ByteIrq
  BY <1>1, ByteIrqInv
<1>2. CASE TimerCb
  BY <1>2, TimerCbInv
<1>3. CASE FixedIrq \/ \E n \in {0} \cup FixLens : SetFixlen(n)
  BY <1>3, FixedInvariant
<1>4. CASE Task
  BY <1>4, TaskStepInv
<1>5. CASE UNCHANGED vars
  BY <1>5 DEF vars, ring, host, task, UartInv, TypeOK, TaskStaysInside, WakeInv,
              FixedInv, HostInv, Ahead, RB_COUNT, Gone
<1>6. QED
  BY <1>1, <1>2, <1>3, <1>4, <1>5 DEF Next

\* The inductive invariant holds throughout.
THEOREM Invariance ==
  ASSUME FixLensFit
  PROVE  Spec => []UartInv
BY InitInv, NextInv, PTL DEF Spec

\* For a ring of any size: however the byte interrupt and the timer move stop_pos
\* between its three readings in uart_bus_task, and whenever uart_bus_set_fixlen
\* is called, rpos never overtakes wpos, RB_SET never writes over a byte still to
\* be read, and bytes in the ring have a wake-up or the timer to come.  The fixed
\* lengths have to fit the buffer, which only mac_bus_uart_attach sees to.
THEOREM RingIsSound ==
  ASSUME FixLensFit
  PROVE  Spec => []RingSound
<1>1. UartInv => RingSound
  <2> SUFFICES ASSUME UartInv PROVE SomeoneComes
    BY DEF UartInv, RingSound
  <2>1. QED
    BY DEF UartInv, WakeInv, SomeoneComes, TypeOK
<1>2. QED
  BY <1>1, Invariance, PTL
-----------------------------------------------------------------------------
(***************************************************************************)
(* A task that keeps up: no byte comes while it has work, so stop_pos does *)
(* not move between its readings.                                          *)
(***************************************************************************)
CopyInv ==
  /\ ~Quiet => stop_pos = wpos
  /\ pc # "down" => count = Ahead(stop_pos)
  /\ pc \in {"down", "copy"} => buf = <<>>
  /\ pc = "copy2" => buf = Bytes(rpos, QSize - rpos) /\ stop_pos < rpos
  /\ CopyExact

\* A copy of bytes that lie side by side in rxbuff.
LEMMA BytesSeq ==
  ASSUME TypeOK, NEW i \in Slot, NEW n \in Nat, i + n <= QSize
  PROVE  Bytes(i, n) \in Seq(Nat) /\ Len(Bytes(i, n)) = n
<1> USE UartAssumption
<1>1. \A j \in 1..n : rxbuff[i + j - 1] \in Nat
  BY DEF TypeOK, Slot
<1>2. Bytes(i, n) \in Seq(Nat)
  BY <1>1, IsASeq DEF Bytes
<1>3. QED
  BY <1>2 DEF Bytes

\* The two parts of a wrapped copy are the bytes that were counted.
LEMMA TwoParts ==
  ASSUME TypeOK, stop_pos < rpos
  PROVE  Bytes(rpos, QSize - rpos) \o Bytes(0, stop_pos) = Ring(0, Ahead(stop_pos))
<1> DEFINE a == Bytes(rpos, QSize - rpos)
           b == Bytes(0, stop_pos)
           r == Ring(0, Ahead(stop_pos))
           n == QSize - rpos
<1> USE UartAssumption
<1>1. /\ rpos \in Nat /\ stop_pos \in Nat /\ rpos < QSize /\ n \in Nat
      /\ rxbuff \in [Slot -> Nat] /\ Ahead(stop_pos) = n + stop_pos
  BY DEF TypeOK, Slot, Ahead
<1>2. a = [j \in 1..n |-> rxbuff[rpos + j - 1]] /\ b = [j \in 1..stop_pos |-> rxbuff[0 + j - 1]]
  BY DEF Bytes
<1>3. r = [i \in 1..(n + stop_pos) |-> rxbuff[RB_NPOS(RB_NPOS(rpos, 0), i - 1)]]
  BY <1>1 DEF Ring
<1>4. /\ \A i \in 1..n : RB_NPOS(RB_NPOS(rpos, 0), i - 1) = rpos + i - 1 /\ rpos + i - 1 \in Slot
      /\ \A i \in (n + 1)..(n + stop_pos) :
           RB_NPOS(RB_NPOS(rpos, 0), i - 1) = 0 + (i - n) - 1 /\ 0 + (i - n) - 1 \in Slot
      /\ \A i \in 1..stop_pos : 0 + i - 1 \in Slot
  BY <1>1 DEF RB_NPOS, Slot
<1>5. \A i \in 1..(n + stop_pos) : rxbuff[RB_NPOS(RB_NPOS(rpos, 0), i - 1)] \in Nat
  BY <1>1, <1>4
<1>6. a \in Seq(Nat) /\ Len(a) = n
  <2>1. rpos \in Slot /\ n \in Nat /\ rpos + n <= QSize
    BY <1>1 DEF Slot
  <2> HIDE DEF n
  <2>2. Bytes(rpos, n) \in Seq(Nat) /\ Len(Bytes(rpos, n)) = n
    BY <2>1, BytesSeq
  <2>3. QED
    BY <2>2 DEF n
<1>7. b \in Seq(Nat) /\ Len(b) = stop_pos
  <2>1. 0 \in Slot /\ stop_pos \in Nat /\ 0 + stop_pos <= QSize
    BY <1>1 DEF Slot
  <2>2. QED
    BY <2>1, BytesSeq
<1>8. r \in Seq(Nat) /\ Len(r) = n + stop_pos
  <2> DEFINE m == n + stop_pos
             f(i) == rxbuff[RB_NPOS(RB_NPOS(rpos, 0), i - 1)]
  <2>1. m \in Nat /\ r = [i \in 1..m |-> f(i)] /\ \A i \in 1..m : f(i) \in Nat
    BY <1>1, <1>3, <1>5
  <2> HIDE DEF m, f, r
  <2>2. r \in Seq(Nat)
    BY <2>1, IsASeq
  <2>3. Len(r) = m
    BY <2>1, <2>2
  <2>4. QED
    BY <2>2, <2>3 DEF m
<1> HIDE DEF a, b, r
<1>9. /\ a \o b \in Seq(Nat) /\ Len(a \o b) = n + stop_pos
      /\ \A i \in 1..(n + stop_pos) : (a \o b)[i] = IF i <= n THEN a[i] ELSE b[i - n]
  BY <1>1, <1>6, <1>7, ConcatProperties
<1>10. \A i \in 1..(n + stop_pos) : (a \o b)[i] = r[i]
  <2> SUFFICES ASSUME NEW i \in 1..(n + stop_pos) PROVE (a \o b)[i] = r[i]
    OBVIOUS
  <2>1. CASE i <= n
    <3>1. i \in 1..n
      BY <1>1, <2>1
    <3>2. QED
      BY <1>2, <1>3, <1>4, <1>9, <2>1, <3>1
  <2>2. CASE ~(i <= n)
    <3>1. i \in (n + 1)..(n + stop_pos) /\ i - n \in 1..stop_pos
      BY <1>1, <2>2
    <3>2. QED
      BY <1>2, <1>3, <1>4, <1>9, <2>2, <3>1
  <2>3. QED
    BY <2>1, <2>2
<1>11. a \o b = r
  BY <1>8, <1>9, <1>10, SeqEqual
<1>12. QED
  BY <1>11 DEF a, b, r

\* Every step of a bus whose task keeps up preserves CopyInv.
LEMMA CopyStep ==
  ASSUME FixLensFit, Lag = 0, UartInv, CopyInv, [Next]_vars
  PROVE  CopyInv'
<1> USE UartAssumption DEF ring, host, task
<1>1. CASE ByteIrq \/ FixedIrq
  <2>1. Quiet
    BY <1>1 DEF ByteIrq, FixedIrq, MayCome, UartInv, TypeOK
  <2>2. pc' = "down" /\ buf' = buf /\ (sema' # 0 => stop_pos' = wpos')
    BY <1>1, <2>1 DEF ByteIrq, FixedIrq, Stop, Quiet, UartInv, FixedInv
  <2>3. QED
    BY <2>1, <2>2 DEF CopyInv, CopyExact, Quiet
<1>2. CASE TimerCb
  <2>1. /\ UNCHANGED <<rxbuff, rpos, wpos, pc, count, buf>> /\ stop_pos' = wpos
        /\ pc # "down" => stop_pos' = stop_pos
    BY <1>2 DEF TimerCb, Stop, CopyInv, Quiet
  <2>2. Ring(0, count)' = Ring(0, count)
    BY <2>1 DEF Ring, RB_NPOS
  <2>3. pc # "down" => Ahead(stop_pos)' = Ahead(stop_pos)
    BY <2>1 DEF Ahead
  <2>4. Bytes(rpos, QSize - rpos)' = Bytes(rpos, QSize - rpos)
    BY <2>1 DEF Bytes
  <2>5. QED
    BY <2>1, <2>2, <2>3, <2>4 DEF CopyInv, CopyExact
<1>3. CASE (\E n \in {0} \cup FixLens : SetFixlen(n)) \/ UNCHANGED vars
  <2>1. UNCHANGED <<rxbuff, rpos, wpos, stop_pos, sema, pc, count, buf>>
    BY <1>3 DEF SetFixlen, vars
  <2>2. Ring(0, count)' = Ring(0, count) /\ Ahead(stop_pos)' = Ahead(stop_pos)
        /\ Bytes(rpos, QSize - rpos)' = Bytes(rpos, QSize - rpos)
    BY <2>1 DEF Ring, RB_NPOS, Ahead, Bytes
  <2>3. QED
    BY <2>1, <2>2 DEF CopyInv, CopyExact, Quiet
<1>4. CASE TaskCount
  <2>1. UNCHANGED <<rpos, wpos, stop_pos, buf>> /\ stop_pos = wpos /\ buf = <<>>
        /\ pc' \in {"down", "copy", "advance"} /\ count' = Ahead(stop_pos)
    BY <1>4 DEF TaskCount, CopyInv, Quiet, UartInv, TypeOK
  <2>2. Ahead(stop_pos)' = Ahead(stop_pos)
    BY <2>1 DEF Ahead
  <2>3. QED
    BY <2>1, <2>2 DEF CopyInv, CopyExact
<1>5. CASE TaskCopy
  <2>1. UNCHANGED <<rxbuff, rpos, wpos, stop_pos, count>> /\ stop_pos = wpos
        /\ pc = "copy" /\ count = Ahead(stop_pos) /\ count > 0
    BY <1>5 DEF TaskCopy, CopyInv, Quiet, UartInv, TaskStaysInside
  <2>2. Ahead(stop_pos)' = Ahead(stop_pos) /\ Ring(0, count)' = Ring(0, count)
        /\ Bytes(rpos, QSize - rpos)' = Bytes(rpos, QSize - rpos)
    BY <2>1 DEF Ahead, Ring, RB_NPOS, Bytes
  <2>3. rpos \in 0..QSize - 1 /\ stop_pos \in 0..QSize - 1
    BY DEF UartInv, TypeOK, Slot
  <2>4. CASE stop_pos > rpos
    <3>1. count = stop_pos - rpos
      BY <2>1, <2>3, <2>4 DEF Ahead
    <3>2. \A i \in 1..count : RB_NPOS(RB_NPOS(rpos, 0), i - 1) = rpos + i - 1
      BY <2>3, <3>1 DEF RB_NPOS
    <3>3. Bytes(rpos, count) = Ring(0, count)
      BY <3>2 DEF Bytes, Ring
    <3>4. pc' = "advance" /\ buf' = Bytes(rpos, count)
      BY <1>5, <2>4 DEF TaskCopy
    <3>5. QED
      BY <2>1, <2>2, <3>3, <3>4 DEF CopyInv, CopyExact
  <2>5. CASE ~(stop_pos > rpos)
    <3>1. stop_pos < rpos
      BY <2>1, <2>3, <2>5 DEF Ahead
    <3>2. pc' = "copy2" /\ buf' = Bytes(rpos, QSize - rpos)
      BY <1>5, <2>5 DEF TaskCopy
    <3>3. QED
      BY <2>1, <2>2, <3>1, <3>2 DEF CopyInv, CopyExact
  <2>6. QED
    BY <2>4, <2>5
<1>6. CASE TaskCopyRest
  <2>1. UNCHANGED <<rxbuff, rpos, wpos, stop_pos, count>> /\ stop_pos = wpos
        /\ pc' = "advance" /\ buf' = Bytes(rpos, QSize - rpos) \o Bytes(0, stop_pos)
        /\ count = Ahead(stop_pos) /\ stop_pos < rpos
    BY <1>6 DEF TaskCopyRest, CopyInv, Quiet
  <2>2. buf' = Ring(0, count)
    BY <2>1, TwoParts DEF UartInv
  <2>3. Ahead(stop_pos)' = Ahead(stop_pos) /\ Ring(0, count)' = Ring(0, count)
    BY <2>1 DEF Ahead, Ring, RB_NPOS
  <2>4. QED
    BY <2>1, <2>2, <2>3 DEF CopyInv, CopyExact
<1>7. CASE TaskAdvance
  <2>1. UNCHANGED <<wpos, stop_pos>> /\ stop_pos = wpos /\ pc' = "down" /\ buf' = <<>>
    BY <1>7 DEF TaskAdvance, CopyInv, Quiet
  <2>2. QED
    BY <2>1 DEF CopyInv, CopyExact
<1>8. QED
  BY <1>1, <1>2, <1>3, <1>4, <1>5, <1>6, <1>7 DEF Next, Task

\* If no byte comes while the task has work, the copy uart_bus_task makes is as
\* long as the memory it got and holds the oldest bytes of the ring.  With bytes
\* that do come, stop_pos may move on and the copy be longer than its memory.
THEOREM CopyIsExact ==
  ASSUME FixLensFit, Lag = 0
  PROVE  Spec => []CopyExact
<1>1. Init => CopyInv
  BY DEF Init, CopyInv, CopyExact, Quiet
<1>2. UartInv /\ CopyInv /\ [Next]_vars => CopyInv'
  BY CopyStep
<1>3. CopyInv => CopyExact
  BY DEF CopyInv
<1>4. QED
  BY <1>1, <1>2, <1>3, Invariance, PTL DEF Spec
-----------------------------------------------------------------------------
(***************************************************************************)
(* The refinement: what was not handed up is a first-in first-out queue.   *)
(***************************************************************************)
Left == RB_COUNT - Gone

UnreadIs ==
  /\ Left \in 0..QSize - 1 /\ Gone \in 0..RB_COUNT /\ RB_COUNT \in 0..QSize - 1
  /\ Unread \in Seq(Nat) /\ Len(Unread) = Left
  /\ \A i \in 1..Left : Unread[i] = rxbuff[RB_NPOS(rpos, Gone + i - 1)]

\* Unread, place by place.
LEMMA UnreadShape == UartInv => UnreadIs
<1> SUFFICES ASSUME UartInv PROVE UnreadIs
  OBVIOUS
<1> USE UartAssumption
<1>1. rpos \in Slot /\ wpos \in Slot /\ stop_pos \in Slot /\ rxbuff \in [Slot -> Nat]
  BY DEF UartInv, TypeOK
<1>2. RB_COUNT \in 0..QSize - 1 /\ Ahead(stop_pos) \in 0..QSize - 1
  BY <1>1, Positions DEF RB_COUNT
<1>3. Gone \in 0..RB_COUNT
  BY <1>2 DEF Gone, UartInv, TypeOK, TaskStaysInside
<1>4. Left \in 0..QSize - 1
  BY <1>2, <1>3 DEF Left
<1>5. \A i \in 1..Left : /\ RB_NPOS(RB_NPOS(rpos, Gone), i - 1) = RB_NPOS(rpos, Gone + i - 1)
                        /\ RB_NPOS(rpos, Gone + i - 1) \in Slot
  <2> SUFFICES ASSUME NEW i \in 1..Left
               PROVE  /\ RB_NPOS(RB_NPOS(rpos, Gone), i - 1) = RB_NPOS(rpos, Gone + i - 1)
                      /\ RB_NPOS(rpos, Gone + i - 1) \in Slot
    OBVIOUS
  <2>1. Gone \in Nat /\ i - 1 \in Nat /\ Gone + (i - 1) <= QSize
    BY <1>2, <1>3, <1>4 DEF Left
  <2>2. RB_NPOS(RB_NPOS(rpos, Gone), i - 1) = RB_NPOS(rpos, Gone + (i - 1))
    BY <1>1, <2>1, NposAdds
  <2>3. Gone + (i - 1) = Gone + i - 1
    BY <2>1
  <2>4. RB_NPOS(rpos, Gone + (i - 1)) \in Slot
    BY <1>1, <2>1, Positions
  <2>5. QED
    BY <2>2, <2>3, <2>4
<1>6. Unread = [i \in 1..Left |-> rxbuff[RB_NPOS(RB_NPOS(rpos, Gone), i - 1)]]
  BY DEF Unread, Ring, Left
<1>7. \A i \in 1..Left : rxbuff[RB_NPOS(RB_NPOS(rpos, Gone), i - 1)] \in Nat
  BY <1>1, <1>5
<1>8. Unread \in Seq(Nat)
  BY <1>4, <1>6, <1>7, IsASeq
<1>9. Len(Unread) = Left
  BY <1>4, <1>6, <1>8
<1>10. \A i \in 1..Left : Unread[i] = rxbuff[RB_NPOS(rpos, Gone + i - 1)]
  BY <1>5, <1>6
<1>11. QED
  BY <1>2, <1>3, <1>4, <1>8, <1>9, <1>10 DEF UnreadIs

\* The same places hold the same bytes: a stuttering step of the queue.
LEMMA Stutters ==
  ASSUME UnreadIs, UnreadIs', Left' = Left,
         \A i \in 1..Left : rxbuff'[RB_NPOS(rpos, Gone + i - 1)'] = rxbuff[RB_NPOS(rpos, Gone + i - 1)]
  PROVE  Unread' = Unread
<1>1. Unread \in Seq(Nat) /\ Unread' \in Seq(Nat) /\ Len(Unread') = Len(Unread)
  BY DEF UnreadIs
<1>2. \A i \in 1..Len(Unread) : Unread'[i] = Unread[i]
  BY DEF UnreadIs
<1>3. QED
  BY <1>1, <1>2, SeqEqual

\* k bytes fewer, and the others k places further on: Take.
LEMMA Takes ==
  ASSUME UnreadIs, UnreadIs', NEW k \in 1..Left, Left' = Left - k,
         \A i \in 1..(Left - k) :
           rxbuff'[RB_NPOS(rpos, Gone + i - 1)'] = rxbuff[RB_NPOS(rpos, Gone + (k + i) - 1)]
  PROVE  Queue!Take
<1> DEFINE t == SubSeq(Unread, k + 1, Len(Unread))
<1>1. Unread \in Seq(Nat) /\ Unread' \in Seq(Nat) /\ Left \in Nat
      /\ Len(Unread) = Left /\ Len(Unread') = Left - k
  BY DEF UnreadIs
<1>2. \A i \in k + 1..Left : Unread[i] \in Nat
  BY <1>1, ElementOfSeq
<1>3. /\ t \in Seq(Nat) /\ Len(t) = Left - k
      /\ \A i \in 1..(Left - k) : t[i] = Unread[k + i]
  <2>1. k + 1 \in Int /\ Left \in Int
    BY <1>1
  <2>2. /\ t \in Seq(Nat)
        /\ Len(t) = IF k + 1 <= Left THEN Left - (k + 1) + 1 ELSE 0
        /\ \A i \in 1..Left - (k + 1) + 1 : t[i] = Unread[(k + 1) + i - 1]
    BY <1>1, <1>2, <2>1, SubSeqProperties
  <2>3. QED
    BY <1>1, <2>2
<1>4. \A i \in 1..(Left - k) : Unread'[i] = Unread[k + i]
  <2> SUFFICES ASSUME NEW i \in 1..(Left - k) PROVE Unread'[i] = Unread[k + i]
    OBVIOUS
  <2>1. k + i \in 1..Left
    BY <1>1
  <2>2. Unread[k + i] = rxbuff[RB_NPOS(rpos, Gone + (k + i) - 1)]
    BY <2>1 DEF UnreadIs
  <2>3. Unread'[i] = rxbuff'[RB_NPOS(rpos, Gone + i - 1)']
    BY DEF UnreadIs
  <2>4. QED
    BY <2>2, <2>3
<1>5. Unread' = t
  <2> HIDE DEF t
  <2> QED
    BY <1>1, <1>3, <1>4, SeqEqual
<1>6. QED
  BY <1>1, <1>5 DEF Queue!Take

\* A byte that fits is put behind the others; one that does not is dropped.
LEMMA ByteIrqPuts ==
  ASSUME UartInv, UnreadIs, UnreadIs', ByteIrq
  PROVE  Queue!Put \/ UNCHANGED Unread
<1> USE UartAssumption
<1>1. /\ wpos' = IF RB_FULL THEN wpos ELSE RB_NPOS(wpos, 1)
      /\ rxbuff' = IF RB_FULL THEN rxbuff ELSE [rxbuff EXCEPT ![wpos] = sent']
      /\ UNCHANGED <<rpos, pc, count>>
  BY DEF ByteIrq, task
<1>2. rpos \in Slot /\ wpos \in Slot /\ rxbuff \in [Slot -> Nat]
  BY DEF UartInv, TypeOK
<1>3. Gone' = Gone
  BY <1>1 DEF Gone
<1>4. \A i : RB_NPOS(rpos, Gone + i - 1)' = RB_NPOS(rpos, Gone + i - 1)
  BY <1>1, <1>3 DEF RB_NPOS
<1>5. CASE RB_FULL
  <2>1. Left' = Left
    BY <1>1, <1>3, <1>5 DEF Left, RB_COUNT, Ahead
  <2>2. QED
    BY <1>1, <1>4, <1>5, <2>1, Stutters
<1>6. CASE ~RB_FULL
  <2>1. Left' = Left + 1
    <3>1. RB_COUNT' = RB_COUNT + 1
      BY <1>1, <1>2, <1>6, OneMore DEF RB_COUNT, Ahead
    <3>2. QED
      BY <1>3, <3>1 DEF Left, UnreadIs
  <2>2. \A i \in 1..Left : RB_NPOS(rpos, Gone + i - 1) \in Slot /\ RB_NPOS(rpos, Gone + i - 1) # wpos
    <3> SUFFICES ASSUME NEW i \in 1..Left
                 PROVE  RB_NPOS(rpos, Gone + i - 1) \in Slot /\ RB_NPOS(rpos, Gone + i - 1) # wpos
      OBVIOUS
    <3>1. Gone + i - 1 \in 0..QSize - 1 /\ Gone + i - 1 < RB_COUNT /\ RB_COUNT \in Nat
      BY DEF UnreadIs, Left
    <3>2. Ahead(RB_NPOS(rpos, Gone + i - 1)) = Gone + i - 1
      BY <1>2, <3>1, Positions
    <3>3. Ahead(wpos) = RB_COUNT
      BY DEF RB_COUNT
    <3>4. RB_NPOS(rpos, Gone + i - 1) # wpos
      BY <3>1, <3>2, <3>3
    <3>5. QED
      BY <1>2, <3>1, <3>4, Positions
  <2>3. \A i \in 1..Left : Unread'[i] = Unread[i]
    <3> SUFFICES ASSUME NEW i \in 1..Left PROVE Unread'[i] = Unread[i]
      OBVIOUS
    <3>1. i \in 1..Left'
      BY <2>1 DEF UnreadIs
    <3>2. Unread'[i] = rxbuff'[RB_NPOS(rpos, Gone + i - 1)']
      BY <3>1 DEF UnreadIs
    <3>3. rxbuff'[RB_NPOS(rpos, Gone + i - 1)] = rxbuff[RB_NPOS(rpos, Gone + i - 1)]
      BY <1>1, <1>2, <1>6, <2>2
    <3>4. QED
      BY <1>4, <3>2, <3>3 DEF UnreadIs
  <2> DEFINE t == SubSeq(Unread', 1, Len(Unread))
  <2>4. /\ Unread \in Seq(Nat) /\ Unread' \in Seq(Nat) /\ Left \in Nat
        /\ Len(Unread) = Left /\ Len(Unread') = Left + 1 /\ Left + 1 <= QSize - 1
    BY <2>1 DEF UnreadIs
  <2>5. t = Unread
    <3>1. \A i \in 1..Left : Unread'[i] \in Nat
      BY <2>4, ElementOfSeq
    <3>2. /\ t \in Seq(Nat)
          /\ Len(t) = IF 1 <= Left THEN Left - 1 + 1 ELSE 0
          /\ \A i \in 1..Left - 1 + 1 : t[i] = Unread'[1 + i - 1]
      BY <2>4, <3>1, SubSeqProperties
    <3> HIDE DEF t
    <3>3. Len(t) = Left /\ \A i \in 1..Left : t[i] = Unread[i]
      BY <2>3, <2>4, <3>2
    <3>4. QED
      BY <2>4, <3>2, <3>3, SeqEqual
  <2>6. QED
    BY <2>4, <2>5 DEF Queue!Put
<1>7. QED
  BY <1>5, <1>6

\* The task takes what it counted when it has copied or dropped it; moving
\* rpos on afterwards changes nothing for the queue.
LEMMA TaskTakes ==
  ASSUME UartInv, UnreadIs, UnreadIs', Task
  PROVE  Queue!Take \/ UNCHANGED Unread
<1> USE UartAssumption DEF ring
<1>1. rpos \in Slot /\ wpos \in Slot /\ stop_pos \in Slot /\ rxbuff \in [Slot -> Nat]
      /\ count \in Nat
  BY DEF UartInv, TypeOK
<1>2. Ahead(stop_pos) \in 0..RB_COUNT /\ RB_COUNT \in 0..QSize - 1
      /\ (pc # "down" => count \in 1..Ahead(stop_pos))
  BY <1>1, Positions DEF UartInv, TaskStaysInside, RB_COUNT
<1>3. CASE TaskAdvance
  <2>1. rxbuff' = rxbuff /\ rpos' = RB_NPOS(rpos, count) /\ Gone' = 0 /\ Gone = count
        /\ wpos' = wpos /\ count \in 1..QSize - 1 /\ count <= RB_COUNT
    BY <1>2, <1>3 DEF TaskAdvance, Gone
  <2>2. RB_COUNT' = RB_COUNT - count
    BY <1>1, <1>2, <2>1 DEF Ahead, RB_COUNT, RB_NPOS, Slot
  <2>3. Left' = Left
    BY <1>2, <2>1, <2>2 DEF Left
  <2>4. \A i \in 1..Left : RB_NPOS(rpos, Gone + i - 1)' = RB_NPOS(rpos, Gone + i - 1)
    <3> SUFFICES ASSUME NEW i \in 1..Left
                 PROVE  RB_NPOS(rpos, Gone + i - 1)' = RB_NPOS(rpos, Gone + i - 1)
      OBVIOUS
    <3>1. i - 1 \in Nat /\ count + (i - 1) <= QSize /\ count + (i - 1) = Gone + i - 1
          /\ 0 + i - 1 = i - 1
      BY <1>2, <2>1 DEF Left
    <3>2. RB_NPOS(RB_NPOS(rpos, count), i - 1) = RB_NPOS(rpos, count + (i - 1))
      BY <1>1, <3>1, NposAdds
    <3>3. RB_NPOS(rpos, Gone + i - 1)' = RB_NPOS(RB_NPOS(rpos, count), i - 1)
      BY <2>1, <3>1 DEF RB_NPOS
    <3>4. QED
      BY <3>1, <3>2, <3>3
  <2>5. QED
    BY <2>1, <2>3, <2>4, Stutters
<1>4. CASE ~TaskAdvance
  <2>1. UNCHANGED <<rxbuff, rpos, wpos>> /\ pc # "advance"
        /\ count' \in {count, Ahead(stop_pos)}
        /\ (pc' # "advance" \/ count' \in 1..RB_COUNT)
    BY <1>1, <1>2, <1>4 DEF Task, TaskCount, TaskCopy, TaskCopyRest
  <2>2. Gone = 0 /\ RB_COUNT' = RB_COUNT
    BY <2>1 DEF Gone, RB_COUNT, Ahead
  <2>3. CASE pc' # "advance"
    <3>1. Gone' = 0
      BY <2>3 DEF Gone
    <3>2. Left' = Left
      BY <2>2, <3>1 DEF Left
    <3>3. \A i : RB_NPOS(rpos, Gone + i - 1)' = RB_NPOS(rpos, Gone + i - 1)
      BY <2>1, <2>2, <3>1 DEF RB_NPOS
    <3>4. QED
      BY <2>1, <3>2, <3>3, Stutters
  <2>4. CASE pc' = "advance"
    <3>1. Gone' = count' /\ count' \in 1..Left
      BY <1>2, <2>1, <2>2, <2>4 DEF Gone, Left
    <3>2. Left' = Left - count'
      BY <1>2, <2>2, <3>1 DEF Left
    <3>3. \A i \in 1..(Left - count') :
            RB_NPOS(rpos, Gone + i - 1)' = RB_NPOS(rpos, Gone + (count' + i) - 1)
      BY <1>2, <2>1, <2>2, <3>1 DEF RB_NPOS, UnreadIs
    <3>4. QED
      BY <2>1, <3>1, <3>2, <3>3, Takes
  <2>5. QED
    BY <2>3, <2>4
<1>5. QED
  BY <1>3, <1>4

\* Each step of the bus is a step of the queue, or leaves it as it is.
LEMMA StepRefines ==
  ASSUME UartInv, UnreadIs, UnreadIs', [Next]_vars
  PROVE  [Queue!Put \/ Queue!Take \/ (~Drained /\ Overwritten)]_Unread
<1> USE DEF ring
<1>1. CASE ByteIrq
  BY <1>1, ByteIrqPuts
<1>2. CASE Task
  BY <1>2, TaskTakes
<1>3. CASE FixedIrq
  <2>1. fixlen > 0 /\ UNCHANGED <<rpos, wpos, pc, count>>
    BY <1>3, UartAssumption DEF FixedIrq, UartInv, FixedInv, task
  <2>2. Left' = Left
    BY <2>1 DEF Left, RB_COUNT, Ahead, Gone
  <2>3. CASE Drained
    <3>1. Left = 0
      BY <2>1, <2>3 DEF UartInv, FixedInv, Left, UnreadIs
    <3>2. QED
      BY <2>2, <3>1, Stutters
  <2>4. CASE ~Drained
    BY <2>1, <2>2, <2>4 DEF Overwritten, UnreadIs
  <2>5. QED
    BY <2>3, <2>4
<1>4. CASE TimerCb \/ (\E n \in {0} \cup FixLens : SetFixlen(n)) \/ UNCHANGED vars
  <2>1. UNCHANGED <<rxbuff, rpos, wpos, pc, count>>
    BY <1>4 DEF TimerCb, SetFixlen, vars, task
  <2>2. QED
    BY <2>1 DEF Unread, Ring, RB_COUNT, Ahead, Gone, RB_NPOS
<1>5. QED
  BY <1>1, <1>2, <1>3, <1>4 DEF Next

\* With its unlocked positions, and with stop_pos read three times, the ring
\* buffer is a first-in first-out queue of bytes: bytes leave it in the order
\* they came, once each, for every ring, frame and interleaving.  Only a host
\* that sends uart_bus_set_fixlen's command amid other bytes may have bytes in
\* the ring written over by the DMA, and then none is added, lost or moved.
THEOREM RingIsFifo ==
  ASSUME FixLensFit
  PROVE  Spec => IsFifo
<1>1. Init => Queue!Empty
  <2> SUFFICES ASSUME Init PROVE Unread = <<>>
    BY DEF Queue!Empty
  <2>1. UnreadIs
    BY InitInv, UnreadShape
  <2>3. rpos = 0 /\ wpos = 0 /\ pc = "down"
    BY DEF Init
  <2>4. Left = 0
    BY <2>3 DEF Left, RB_COUNT, Ahead, Gone
  <2>2. QED
    BY <2>1, <2>4, EmptySeq DEF UnreadIs
<1>2. UartInv /\ UnreadIs /\ UnreadIs' /\ [Next]_vars =>
        [Queue!Put \/ Queue!Take \/ (~Drained /\ Overwritten)]_Unread
  BY StepRefines
<1>3. Spec => [](UartInv /\ UnreadIs)
  BY Invariance, UnreadShape, PTL
<1>4. QED
  BY <1>1, <1>2, <1>3, PTL DEF Spec, IsFifo
=============================================================================
