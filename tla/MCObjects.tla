----------------------------- MODULE MCObjects ------------------------------
(***************************************************************************)
(* Model checking of the kernel objects that tasks wait at: event flags,   *)
(* queues and work queues.  An object's state is its own, so the           *)
(* behaviours are those of one of them, and the variables of the others    *)
(* keep their initial values.                                              *)
(***************************************************************************)
EXTENDS RhinoEvent, TLC

VARIABLES
  object,     \* the object in use
  queue_alive, ring, cur_num, blk_list, queue_pc, timed, queue_blk_state, msg, n, out,
  lost,
  work_list, sem, work_current, worker, work_exit, wq, timer, work_pc, runs

\* No set of flags.
NotWritten == {"unwritten"}

\* Three receivers, one of them of a higher priority.
Receiver == {"hi", "lo1", "lo2"}
ReceiverPrio == "hi" :> 1 @@ "lo1" :> 2 @@ "lo2" :> 2

PtrQueue == INSTANCE RhinoQueue WITH
  Kind <- "ptr", Task <- Receiver, Prio <- ReceiverPrio,
  Count <- 2, MsgSize <- 1, Lens <- {1}, MaxMsg <- 4,
  alive <- queue_alive, pc <- queue_pc, blk_state <- queue_blk_state

BufQueue == INSTANCE RhinoQueue WITH
  Kind <- "buf", Task <- Receiver, Prio <- ReceiverPrio,
  Count <- 2, MsgSize <- 2, Lens <- {1, 2}, MaxMsg <- 3,
  alive <- queue_alive, pc <- queue_pc, blk_state <- queue_blk_state

CsiQueue == INSTANCE RhinoQueue WITH
  Kind <- "csi", Task <- Receiver, Prio <- ReceiverPrio,
  Count <- 2, MsgSize <- 2, Lens <- {2}, MaxMsg <- 3,
  alive <- queue_alive, pc <- queue_pc, blk_state <- queue_blk_state

\* Works that stay on one queue, and works that are run on both.
Settled == INSTANCE WorkQueue WITH
  WQ <- {"q1", "q2"}, Work <- {"w1", "w2", "w3"}, Task <- {"a", "b"},
  Timer <- "timer", None <- "none", Delayed <- {"w2"}, Deletes <- TRUE, MaxRun <- 4,
  Home <- "w1" :> {"q1"} @@ "w2" :> {"q1"} @@ "w3" :> {"q2"}, pc <- work_pc

Roaming == INSTANCE WorkQueue WITH
  WQ <- {"q1", "q2"}, Work <- {"w1", "w2", "w3"}, Task <- {"a", "b"},
  Timer <- "timer", None <- "none", Delayed <- {"w2"}, Deletes <- FALSE, MaxRun <- 4,
  Home <- "w1" :> {"q1", "q2"} @@ "w2" :> {"q1", "q2"} @@ "w3" :> {}, pc <- work_pc

queue == <<queue_alive, ring, cur_num, blk_list, queue_pc, timed, queue_blk_state, msg,
           n, out, lost>>
work == <<work_list, sem, work_current, worker, work_exit, wq, timer, work_pc, runs>>

ObjectsInit ==
  /\ object \in {"event", "ptr", "buf", "csi", "settled", "roaming"}
  /\ Init /\ PtrQueue!Init /\ Settled!Init

ObjectsNext ==
  /\ UNCHANGED object
  /\ \/ object = "event" /\ Next /\ UNCHANGED <<queue, work>>
     \/ object = "ptr" /\ PtrQueue!Next /\ UNCHANGED <<vars, work>>
     \/ object = "buf" /\ BufQueue!Next /\ UNCHANGED <<vars, work>>
     \/ object = "csi" /\ CsiQueue!Next /\ UNCHANGED <<vars, work>>
     \/ object = "settled" /\ Settled!Next /\ UNCHANGED <<vars, queue>>
     \/ object = "roaming" /\ Roaming!Next /\ UNCHANGED <<vars, queue>>

OnQueue == object \in {"ptr", "buf", "csi"}
OnWork == object \in {"settled", "roaming"}

\* The fairness of RhinoEvent, RhinoQueue and WorkQueue, for the one in use.
ObjectsSpec ==
  /\ ObjectsInit /\ [][ObjectsNext]_<<object, vars, queue, work>>
  /\ \A t \in Task : /\ WF_vars(object = "event" /\ Expire(t))
                     /\ WF_vars(object = "event" /\ WaitEnd(t))
                     /\ WF_vars(object = "event" /\ SetEnd(t))
  /\ \A t \in Receiver : /\ WF_queue(OnQueue /\ PtrQueue!Expire(t))
                         /\ WF_queue(OnQueue /\ PtrQueue!RecvEnd(t))
  /\ \A q \in {"q1", "q2"} : WF_work(OnWork /\ Settled!Worker(q))
  /\ \A c \in {"a", "b", "timer"} : WF_work(OnWork /\ Settled!Give(c))
-----------------------------------------------------------------------------
\* Each kind of queue is consistent, and keeps its messages in order, each for
\* one receiver (k_queue.c, k_buf_queue.c, csi_rhino.c).
QueuesSound ==
  /\ object = "ptr" => PtrQueue!QueueSound
  /\ object = "buf" => BufQueue!QueueSound
  /\ object = "csi" => CsiQueue!QueueSound

\* A work is listed once with one token; works that stay on one queue run in one
\* worker at a time, and a deleted queue leaves nothing (k_workqueue.c).
WorksSound ==
  /\ object = "settled" => Settled!QueuesSound /\ Settled!OneRun /\ Settled!DeletedIsIdle
  /\ object = "roaming" => Roaming!QueuesSound

\* A message goes past no receiver of a higher priority (k_queue.c); a wait with
\* a timeout ends, at an event and at a queue; and what krhino_work_run has
\* accepted is run (k_workqueue.c).
ObjectsServe ==
  /\ PtrQueue!ServedByPriority
  /\ TimedWaitEnds /\ PtrQueue!TimedReceiveEnds
  /\ Settled!AcceptedRuns
=============================================================================
