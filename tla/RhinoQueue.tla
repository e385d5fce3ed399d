----------------------------- MODULE RhinoQueue -----------------------------
(***************************************************************************)
(* The message queues of the Rhino kernel: the queue of pointers           *)
(* (core/k_queue.c, Kind = "ptr") and the queue of buffers                 *)
(* (core/k_buf_queue.c, Kind = "buf") with the message queue the CSI       *)
(* adapter builds on it (adapter/csi_rhino.c, Kind = "csi").  A message    *)
(* goes to a waiting receiver if there is one and into the ring otherwise. *)
(*                                                                         *)
(* The ring buffer is RingBuf, which is shown to be a first-in first-out   *)
(* queue of messages: here it is a sequence.  Messages are numbered in the *)
(* order they are sent.  Sending is one critical section, so the sender,   *)
(* a task or an interrupt, needs no state; which ready task runs, and when *)
(* a timeout ends, are left open.                                          *)
(***************************************************************************)
EXTENDS Integers, Sequences, SequencesExt, FiniteSetsExt

CONSTANTS
  Kind,       \* "ptr", "buf" or "csi"
  Task,       \* the receivers
  Prio,       \* their priorities, 1 the highest
  Count,      \* messages the queue is made for
  MsgSize,    \* max_msg_size
  Lens,       \* lengths of messages that are sent
  MaxMsg      \* bound: messages that are accepted

VARIABLES
  alive,      \* obj_type
  ring,       \* the messages in the ring
  cur_num,
  blk_list,   \* the tasks that wait
  pc,         \* per task: "run", "pend" or "woken"
  timed,      \* per task: its wait has a timeout
  blk_state,  \* per task: why its wait ended
  msg,        \* per task: what is in its buffer
  n,          \* messages accepted so far
  out,        \* messages handed out, in this order (observed only)
  lost        \* messages flushed or deleted with the queue (observed only)

vars == <<alive, ring, cur_num, blk_list, pc, timed, blk_state, msg, n,
          out, lost>>
task == <<blk_list, pc, timed, blk_state, msg>>
log == <<n, out, lost>>

None == 0

\* The memory of the ring, in bytes or in pointers.
Size ==
  CASE Kind = "ptr" -> Count
    [] Kind = "buf" -> (MsgSize + 1) * Count
    [] Kind = "csi" -> MsgSize * (Count + 1)

Init ==
  /\ alive = TRUE /\ ring = <<>> /\ cur_num = 0
  /\ blk_list = <<>>
  /\ pc = [t \in Task |-> "run"] /\ timed = [t \in Task |-> FALSE]
  /\ blk_state = [t \in Task |-> "FINISH"] /\ msg = [t \in Task |-> None]
  /\ n = 0 /\ out = <<>> /\ lost = {}
-----------------------------------------------------------------------------
\* A message in the ring of buffers has its length, one byte here, before it.
Bytes(len) == IF Kind = "ptr" THEN 1 ELSE len + 1

Used == FoldLeft(LAMBDA sum, m : sum + Bytes(m.len), 0, ring)

\* cur_num >= size, or ringbuf_is_full.
Room(len) ==
  IF Kind = "ptr" THEN cur_num < Count ELSE Used + Bytes(len) <= Size

\* A waiter gets the message and leaves the list and the tick list.
Give(W, m) ==
  /\ msg' = [t \in Task |-> IF t \in W THEN m ELSE msg[t]]
  /\ pc' = [t \in Task |-> IF t \in W THEN "woken" ELSE pc[t]]
  /\ blk_state' = [t \in Task |-> IF t \in W THEN "FINISH" ELSE blk_state[t]]
  /\ blk_list' = SelectSeq(blk_list, LAMBDA t : t \notin W)
  /\ UNCHANGED timed

\* Mutated: the message is put into the ring whoever waits.
SendPushAlways(len) ==
  /\ alive /\ n < MaxMsg /\ Room(len)
  /\ n' = n + 1
  /\ ring' = Append(ring, [id |-> n + 1, len |-> len])
  /\ cur_num' = cur_num + 1
  /\ UNCHANGED <<alive, task, out, lost>>

\* No receiver waits: the message goes to the end of the ring, also if
\* csi_kernel_msgq_put was told to put it to the front.  Without room the call
\* returns, csi_kernel_msgq_put whatever its timeout, and nothing has changed.
SendPush(len) ==
  /\ alive /\ n < MaxMsg /\ blk_list = <<>> /\ Room(len)
  /\ n' = n + 1
  /\ ring' = Append(ring, [id |-> n + 1, len |-> len])
  /\ cur_num' = cur_num + 1
  /\ UNCHANGED <<alive, task, out, lost>>

\* The first waiter gets the message; krhino_queue_all_send gives it to all.
SendGive(all) ==
  /\ alive /\ n < MaxMsg /\ blk_list # <<>>
  /\ all => Kind = "ptr"
  /\ n' = n + 1
  /\ Give(IF all THEN ToSet(blk_list) ELSE {Head(blk_list)}, n + 1)
  /\ out' = Append(out, n + 1)
  /\ UNCHANGED <<alive, ring, cur_num, lost>>
-----------------------------------------------------------------------------
\* There are messages: krhino_queue_recv tests cur_num, krhino_buf_queue_recv
\* the ring.
RecvNow(t) ==
  /\ pc[t] = "run" /\ alive
  /\ IF Kind = "ptr" THEN cur_num > 0 ELSE ring # <<>>
  /\ out' = Append(out, Head(ring).id)
  /\ ring' = Tail(ring)
  /\ cur_num' = cur_num - 1
  /\ UNCHANGED <<alive, task, n, lost>>

\* The list with t before the first task of a lower priority.
pend_list_add(t) ==
  LET i == SelectInSeq(blk_list, LAMBDA u : Prio[u] > Prio[t])
  IN IF i = 0 THEN Append(blk_list, t) ELSE InsertAt(blk_list, i, t)

\* There are none, and the call may wait (else it returns with no message).
RecvWait(t, timeout) ==
  /\ pc[t] = "run" /\ alive
  /\ IF Kind = "ptr" THEN cur_num = 0 ELSE ring = <<>>
  /\ blk_list' = pend_list_add(t)
  /\ pc' = [pc EXCEPT ![t] = "pend"]
  /\ timed' = [timed EXCEPT ![t] = timeout]
  /\ UNCHANGED <<alive, ring, cur_num, blk_state, msg, log>>

\* Mutated: tick_list_update does nothing for a pending task.
ExpireNever(t) == FALSE /\ UNCHANGED vars

\* tick_list_update: the time is over.
Expire(t) ==
  /\ pc[t] = "pend" /\ timed[t]
  /\ pc' = [pc EXCEPT ![t] = "woken"]
  /\ blk_state' = [blk_state EXCEPT ![t] = "TIMEOUT"]
  /\ blk_list' = SelectSeq(blk_list, LAMBDA u : u # t)
  /\ UNCHANGED <<alive, ring, cur_num, timed, msg, log>>

\* The receiver runs again and returns: with the message after BLK_FINISH,
\* with none otherwise.
RecvEnd(t) ==
  /\ pc[t] = "woken"
  /\ pc' = [pc EXCEPT ![t] = "run"]
  /\ timed' = [timed EXCEPT ![t] = FALSE]
  /\ blk_state' = [blk_state EXCEPT ![t] = "FINISH"]
  /\ msg' = [msg EXCEPT ![t] = None]
  /\ UNCHANGED <<alive, ring, cur_num, blk_list, log>>
-----------------------------------------------------------------------------
InRing == {ring[i].id : i \in DOMAIN ring}

\* krhino_queue_flush, krhino_buf_queue_flush.
Flush ==
  /\ alive /\ ring # <<>>
  /\ ring' = <<>> /\ cur_num' = 0
  /\ lost' = lost \cup InRing
  /\ UNCHANGED <<alive, task, n, out>>

\* krhino_queue_del, krhino_buf_queue_del and the dyn forms.
Del ==
  /\ alive
  /\ alive' = FALSE /\ ring' = <<>>
  /\ lost' = lost \cup InRing
  /\ pc' = [t \in Task |-> IF pc[t] = "pend" THEN "woken" ELSE pc[t]]
  /\ blk_state' = [t \in Task |-> IF pc[t] = "pend" THEN "DEL" ELSE blk_state[t]]
  /\ blk_list' = <<>>
  /\ UNCHANGED <<cur_num, timed, msg, n, out>>

\* The queue is made anew.
New ==
  /\ ~alive
  /\ alive' = TRUE /\ cur_num' = 0
  /\ UNCHANGED <<ring, task, log>>

Next ==
  \/ \E len \in Lens : SendPush(len)
  \/ \E all \in BOOLEAN : SendGive(all)
  \/ \E t \in Task :
       \/ RecvNow(t) \/ Expire(t) \/ RecvEnd(t)
       \/ \E timeout \in BOOLEAN : RecvWait(t, timeout)
  \/ Flush \/ Del \/ New

\* Time goes on, and a task that is ready gets the processor.
Spec ==
  /\ Init /\ [][Next]_vars
  /\ \A t \in Task : WF_vars(Expire(t)) /\ WF_vars(RecvEnd(t))
-----------------------------------------------------------------------------
\* TypeOK: cur_num counts the ring while the queue lives, and the ring stays
\* inside its memory.
TypeOK ==
  /\ alive \in BOOLEAN
  /\ alive => cur_num = Len(ring)
  /\ Used <= Size
  /\ pc \in [Task -> {"run", "pend", "woken"}]
  /\ timed \in [Task -> BOOLEAN]
  /\ blk_state \in [Task -> {"FINISH", "TIMEOUT", "DEL"}]
  /\ msg \in [Task -> 0..MaxMsg]
  /\ n \in 0..MaxMsg /\ lost \subseteq 1..n

\* Nobody waits beside a message: the tests for waiters and for messages never
\* miss each other, whatever comes between a receiver's wake-up and its return.
NoneWaitsBesideMessage == blk_list # <<>> => alive /\ ring = <<>>

\* The tasks on the list are exactly those that wait, so no message is copied
\* into the buffer of a receive that has ended.
ListedWait ==
  /\ IsInjective(blk_list)
  /\ ToSet(blk_list) = {t \in Task : pc[t] = "pend"}

\* A message never goes past a waiting receiver of a higher priority, however
\* the receivers came and timed out.
ServedByPriority ==
  [][\A t, u \in Task :
       /\ pc[t] = "pend" /\ msg'[t] # msg[t]
       /\ pc[u] = "pend" /\ pc'[u] = "pend"
       => Prio[t] <= Prio[u]]_vars

\* Every message that was accepted is handed out once, in the order the
\* messages were accepted, or is still in the ring, or was flushed.
InOrderOnce ==
  LET given == out \o [i \in DOMAIN ring |-> ring[i].id]
  IN /\ \A i, j \in DOMAIN given : i < j => given[i] < given[j]
     /\ ToSet(given) \cup lost = 1..n
     /\ ToSet(given) \cap lost = {}

\* The queue and its list of receivers are consistent, and no message is lost,
\* repeated or overtaken (k_queue.c, k_buf_queue.c).
QueueSound == TypeOK /\ NoneWaitsBesideMessage /\ ListedWait /\ InOrderOnce

\* A receive with a timeout comes to an end.
TimedReceiveEnds ==
  \A t \in Task : pc[t] = "pend" /\ timed[t] ~> pc[t] = "run"
=============================================================================
