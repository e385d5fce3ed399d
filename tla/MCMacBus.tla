----------------------------- MODULE MCMacBus -----------------------------
(***************************************************************************)
(* mac_bus_attach (macbus.c) attaches one bus, by its type: the behaviours *)
(* are those of the UART, the SDIO or the USB bus, each under two hosts    *)
(* (MCSdioBus has the SDIO host that honours busy).  The buses share       *)
(* nothing, so the variables of the others keep their initial values.      *)
(***************************************************************************)
EXTENDS UartBus

VARIABLES
  bus,         \* what mac_bus_attach was asked for, and the host behind it
  cur_id, rx_cnt, rx_buf, sdio_ready, sdio_pending, busy, dma, irq, reset,
  rxsema, sdio_pc, id1, id2, wr, sdio_sent, recvd,
  armed, usb_buff, usb_count, usb_pending, late, usb_ready, usb_pc, drop,
  usb_sent, out

\* The constants of the cfg are a host that sends whatever and whenever it likes,
\* frames that do not fit and commands amid other bytes included; this one waits
\* for the task and for the answers.
Paced == INSTANCE UartBus WITH
  FrameLens <- {2, 3}, MaxBytes <- 12, Lag <- 0, Gaps <- FALSE, Drained <- TRUE

\* A host that does not wait while busy is set, and one that waits but whose
\* reads fail: sdio_slave_write reports errors.
Greedy == INSTANCE SdioBus WITH
  MaxFrames <- 5, MaxIdle <- 3, HostHonoursBusy <- FALSE, HostResets <- TRUE,
  ready <- sdio_ready, pending <- sdio_pending, pc <- sdio_pc, sent <- sdio_sent

WriteErrs == INSTANCE SdioBus WITH
  MaxFrames <- 5, MaxIdle <- 3, HostHonoursBusy <- TRUE, HostResets <- FALSE,
  ready <- sdio_ready, pending <- sdio_pending, pc <- sdio_pc, sent <- sdio_sent

\* A host that resets the bus once, and one that does so again and again.
Usb == INSTANCE UsbBus WITH
  MaxFrame <- 5, Resets <- FALSE, rxbuff <- usb_buff, rxcount <- usb_count,
  pending <- usb_pending, ready <- usb_ready, pc <- usb_pc, sent <- usb_sent

UsbReset == INSTANCE UsbBus WITH
  MaxFrame <- 4, Resets <- TRUE, rxbuff <- usb_buff, rxcount <- usb_count,
  pending <- usb_pending, ready <- usb_ready, pc <- usb_pc, sent <- usb_sent

sdio == <<cur_id, rx_cnt, rx_buf, sdio_ready, sdio_pending, busy, dma, irq, reset,
          rxsema, sdio_pc, id1, id2, wr, sdio_sent, recvd>>
usb == <<armed, usb_buff, usb_count, usb_pending, late, usb_ready, usb_pc, drop,
         usb_sent, out>>
allvars == <<bus, vars, sdio, usb>>

BusInit ==
  /\ bus \in {"sdio greedy", "sdio write errors", "uart", "uart paced", "usb", "usb reset"}
  /\ Init /\ Greedy!Init /\ Usb!Init
  /\ bus \notin {"uart", "uart paced"} => fixlen = 0

BusNext ==
  /\ UNCHANGED bus
  /\ \/ bus = "uart" /\ Next /\ UNCHANGED <<sdio, usb>>
     \/ bus = "uart paced" /\ Paced!Next /\ UNCHANGED <<sdio, usb>>
     \/ bus = "sdio greedy" /\ Greedy!Next /\ UNCHANGED <<vars, usb>>
     \/ bus = "sdio write errors" /\ WriteErrs!NextWriteErrs /\ UNCHANGED <<vars, usb>>
     \/ bus = "usb" /\ Usb!Next /\ UNCHANGED <<vars, sdio>>
     \/ bus = "usb reset" /\ UsbReset!Next /\ UNCHANGED <<vars, sdio>>

\* The fairness of UartBus and UsbBus, for the bus in use.
OnUart == bus = "uart"
OnUsb == bus \in {"usb", "usb reset"}

BusSpec ==
  /\ BusInit /\ [][BusNext]_allvars
  /\ WF_vars(OnUart /\ Task) /\ WF_vars(OnUart /\ TimerCb)
  /\ WF_vars(OnUart /\ ByteIrq /\ done # 0)
  /\ WF_usb(OnUsb /\ Usb!Proc("pdwork"))
  /\ WF_usb(OnUsb /\ usb_pc["ioctl"] # "out" /\ Usb!Proc("ioctl"))
  /\ WF_usb(OnUsb /\ Usb!Clock)
-----------------------------------------------------------------------------
\* Frames are kept apart: the busy register invites the host only into a buffer
\* that was handed up, although an earlier frame came uninvited, the host reset the
\* bus or a transfer to it failed (sdio_bus.c), and a UART task that keeps up hands
\* up frame by frame, each as long as it was counted (uart_bus.c).
FramesApart ==
  /\ bus \in {"sdio greedy", "sdio write errors"} => Greedy!CreditSafe
  /\ bus = "uart paced" => Paced!FrameByFrame /\ Paced!CopyExact

\* The one buffer of the USB bus has one owner, and a frame in it goes up once
\* (usb_bus.c), as long as the host does not reset the bus again.
UsbSound == (bus = "usb" => Usb!BufferSound) /\ (bus = "usb reset" => UsbReset!TypeOK)


\* No bus stands still: every byte leaves the ring of the UART bus (a cut-off
\* frame by the timer, an oversized one by the full ring), and the USB bus goes
\* on receiving, after any reset and without memory above.
BusesGoOn ==
  /\ OnUart /\ rpos # wpos ~> rpos = wpos
  /\ OnUsb => Usb!GoesOn
=============================================================================
