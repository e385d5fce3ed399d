------------------------------- MODULE UsbBus -------------------------------
(***************************************************************************)
(* The USB MAC bus (lib/bus/macbus/usb_bus.c).  There is one receive       *)
(* buffer.  The endpoint owns it while a read is queued; the interrupt     *)
(* hands a frame up, and if the upper layer has no memory the frame stays, *)
(* pending, until the upper layer reports free buffers (the ioctl) or a    *)
(* work item that runs every 50 ms tries again.  After 100 ticks a frame   *)
(* the upper layer still has no memory for is dropped.                     *)
(*                                                                         *)
(* Frames are numbered in the order the host sends them.  The device and   *)
(* the upper layer are external.                                           *)
(***************************************************************************)
EXTENDS Integers, Sequences, FiniteSets

CONSTANTS
  MaxFrame,   \* bound: frames the host sends
  Resets      \* the host may reset the bus again

VARIABLES
  armed,      \* a read is queued: the endpoint owns rxbuff
  rxbuff,     \* the frame in it
  rxcount,    \* 0, or 1 for the length of a frame
  pending,
  late,       \* 100 ticks have passed since pd_tick
  ready,
  pc,         \* of the two callers of usb_bus_proc_pending_data
  drop,       \* their local variable
  sent,       \* frames the host has sent
  out         \* frames handed up (observed only)

vars == <<armed, rxbuff, rxcount, pending, late, ready, pc, drop, sent, out>>

Caller == {"ioctl", "pdwork"}

\* What bus.recv returns.
Result == {"ok", "ENOMEM", "error"}

\* mac_bus_usb_attach; the host's first reset queues the first read.
Init ==
  /\ armed = TRUE /\ rxbuff = 0 /\ rxcount = 0
  /\ pending = 0 /\ late = FALSE /\ ready = FALSE
  /\ pc = [c \in Caller |-> "out"] /\ drop = [c \in Caller |-> FALSE]
  /\ sent = 0 /\ out = <<>>

Give(f, result) == out' = IF result = "ok" THEN Append(out, f) ELSE out
-----------------------------------------------------------------------------
(***************************************************************************)
(* usb_bus_irq                                                             *)
(***************************************************************************)
\* Mutated: the next read is queued although the frame is still pending.
RxIrqRearms(result) ==
  /\ armed /\ sent < MaxFrame
  /\ sent' = sent + 1
  /\ rxbuff' = sent + 1
  /\ ready' = TRUE
  /\ Give(sent + 1, result)
  /\ pending' = IF result = "ENOMEM" THEN 1 ELSE 0
  /\ late' = FALSE
  /\ rxcount' = IF result = "ENOMEM" THEN 1 ELSE 0
  /\ UNCHANGED <<armed, pc, drop>>

\* USB_EP_RX_IRQ.  A frame that is too long is dropped like an error.
RxIrq(result) ==
  /\ armed /\ sent < MaxFrame
  /\ sent' = sent + 1
  /\ rxbuff' = sent + 1
  /\ ready' = TRUE
  /\ Give(sent + 1, result)
  /\ IF result = "ENOMEM"
     THEN pending' = 1 /\ late' = FALSE /\ armed' = FALSE /\ rxcount' = 1
     ELSE pending' = 0 /\ armed' = TRUE /\ rxcount' = 0 /\ UNCHANGED late
  /\ UNCHANGED <<pc, drop>>

\* USB_DEV_RESET_IRQ
ResetIrq ==
  /\ Resets
  /\ pending' = 0
  /\ armed' = TRUE
  /\ UNCHANGED <<rxbuff, rxcount, late, ready, pc, drop, sent, out>>
-----------------------------------------------------------------------------
(***************************************************************************)
(* usb_bus_proc_pending_data                                               *)
(***************************************************************************)
\* atomic_dec2_return
ProcTake(c) ==
  /\ pc[c] = "out" /\ pending > 0
  /\ pending' = pending - 1
  /\ drop' = [drop EXCEPT ![c] = late]
  /\ pc' = [pc EXCEPT ![c] = "recv"]
  /\ UNCHANGED <<armed, rxbuff, rxcount, late, ready, sent, out>>

\* bus.recv and what follows from its result.
ProcRecv(c, result) ==
  /\ pc[c] = "recv"
  /\ Give(rxbuff, result)
  /\ IF ~drop[c] /\ result = "ENOMEM"
     THEN pending' = 1 /\ pc' = [pc EXCEPT ![c] = "out"]
     ELSE pc' = [pc EXCEPT ![c] = "read"] /\ UNCHANGED pending
  /\ UNCHANGED <<armed, rxbuff, rxcount, late, ready, drop, sent>>

\* rxcount = 0 and usb_device_wifi_read.
ProcRead(c) ==
  /\ pc[c] = "read"
  /\ rxcount' = 0
  /\ armed' = TRUE
  /\ pc' = [pc EXCEPT ![c] = "out"]
  /\ drop' = [drop EXCEPT ![c] = FALSE]
  /\ UNCHANGED <<rxbuff, pending, late, ready, sent, out>>

Proc(c) == ProcTake(c) \/ (\E result \in Result : ProcRecv(c, result)) \/ ProcRead(c)

\* Time passes: TIME_AFTER(os_jiffies(), pd_tick + 100).
Clock ==
  /\ ~late
  /\ late' = TRUE
  /\ UNCHANGED <<armed, rxbuff, rxcount, pending, ready, pc, drop, sent, out>>
-----------------------------------------------------------------------------
\* usb_bus_write and usb_bus_write_scatter: a failed write closes the way to
\* the host until something comes from it.
WriteErr ==
  /\ ready
  /\ ready' = FALSE
  /\ UNCHANGED <<armed, rxbuff, rxcount, pending, late, pc, drop, sent, out>>

Next ==
  \/ \E result \in Result : RxIrq(result)
  \/ ResetIrq
  \/ \E c \in Caller : Proc(c)
  \/ Clock
  \/ WriteErr

\* The work item runs every 50 ms and time goes on; the ioctl may never come,
\* but a call that has begun goes on.
Fairness ==
  /\ WF_vars(Proc("pdwork"))
  /\ WF_vars(pc["ioctl"] # "out" /\ Proc("ioctl"))
  /\ WF_vars(Clock)

Spec == Init /\ [][Next]_vars /\ Fairness
-----------------------------------------------------------------------------
\* Every variable has its type.
TypeOK ==
  /\ armed \in BOOLEAN /\ rxbuff \in 0..MaxFrame /\ rxcount \in 0..1
  /\ pending \in 0..1 /\ late \in BOOLEAN /\ ready \in BOOLEAN
  /\ pc \in [Caller -> {"out", "recv", "read"}] /\ drop \in [Caller -> BOOLEAN]
  /\ sent \in 0..MaxFrame /\ out \in Seq(1..MaxFrame)

\* The one buffer has one owner: the endpoint, or the frame that waits in it,
\* or one caller that hands the frame up.
OneOwner ==
  (IF armed THEN 1 ELSE 0) + pending + Cardinality({c \in Caller : pc[c] # "out"}) = 1

\* A frame that waits has its length.
WaitsWithLength ==
  pending = 1 \/ (\E c \in Caller : pc[c] = "recv") => rxcount = 1

\* Frames are handed up in the order they came and none twice.
HandedOnce == \A i, j \in DOMAIN out : i < j => out[i] < out[j]

\* A frame in the buffer has one owner and a length, and goes up once.
BufferSound == TypeOK /\ OneOwner /\ WaitsWithLength /\ HandedOnce

\* Reception always goes on, even if the upper layer never has memory again.
GoesOn == []<>armed
=============================================================================
