------------------------------ MODULE WorkQueue ------------------------------
(***************************************************************************)
(* Work queues of the Rhino kernel (k_workqueue.c).  A queue is a list of  *)
(* works, a semaphore with one token per listed work, and a worker task.   *)
(* A work without a delay is listed by krhino_work_run; one with a delay   *)
(* when its timer runs out.                                                *)
(*                                                                         *)
(* The list is changed with interrupts off; the token is given after that, *)
(* and the worker takes the token before it looks at the list.  Semaphores *)
(* and timers are RhinoKernel's and RhinoTimer's; here a timer is set,     *)
(* stopped and runs out in one step each.                                  *)
(***************************************************************************)
EXTENDS Integers, Sequences, FiniteSets

CONSTANTS
  WQ, Work,
  Task,       \* tasks that call the interface
  Timer,      \* the timer task
  None,
  Delayed,    \* works with dly > 0
  Home,       \* Home[w]: the queues work w is run on
  Deletes,    \* queues may be deleted
  MaxRun      \* bound: calls of krhino_work_run

Caller == Task \cup {Timer}

VARIABLES
  work_list, sem, work_current, \* of each queue
  worker,      \* "take", "fetch", "run", or "gone" when the queue is deleted
  work_exit, wq, timer, \* of each work; timer: the queue it is set for, or None
  pc,          \* of each caller: [at, q, w]
  runs

vars == <<work_list, sem, work_current, worker, work_exit, wq, timer, pc, runs>>

Out == [at |-> "out", q |-> None, w |-> None]

\* workqueue_init and krhino_work_init
Init ==
  /\ work_list = [q \in WQ |-> << >>] /\ sem = [q \in WQ |-> 0]
  /\ work_current = [q \in WQ |-> None] /\ worker = [q \in WQ |-> "take"]
  /\ work_exit = [w \in Work |-> 0] /\ wq = [w \in Work |-> None]
  /\ timer = [w \in Work |-> None] /\ pc = [c \in Caller |-> Out]
  /\ runs = 0

Goto(c, at, q, w) == pc' = [pc EXCEPT ![c] = [at |-> at, q |-> q, w |-> w]]
Listed(w) == {q \in WQ : \E i \in DOMAIN work_list[q] : work_list[q][i] = w}
Without(list, w) == SelectSeq(list, LAMBDA x : x # w)
-----------------------------------------------------------------------------
(***************************************************************************)
(* worker_task                                                             *)
(***************************************************************************)
Take(q) ==
  /\ worker[q] = "take" /\ sem[q] > 0
  /\ sem' = [sem EXCEPT ![q] = @ - 1]
  /\ worker' = [worker EXCEPT ![q] = "fetch"]
  /\ UNCHANGED <<work_list, work_current, work_exit, wq, timer, pc, runs>>

Fetch(q) ==
  /\ worker[q] = "fetch" /\ work_list[q] # << >>
  /\ work_list' = [work_list EXCEPT ![q] = Tail(@)]
  /\ work_current' = [work_current EXCEPT ![q] = Head(work_list[q])]
  /\ work_exit' = [work_exit EXCEPT ![Head(work_list[q])] = 0]
  /\ worker' = [worker EXCEPT ![q] = "run"]
  /\ UNCHANGED <<sem, wq, timer, pc, runs>>

\* The handler has returned.
Ran(q) ==
  /\ worker[q] = "run"
  /\ work_current' = [work_current EXCEPT ![q] = None]
  /\ worker' = [worker EXCEPT ![q] = "take"]
  /\ UNCHANGED <<work_list, sem, work_exit, wq, timer, pc, runs>>
-----------------------------------------------------------------------------
(***************************************************************************)
(* krhino_work_run and work_timer_cb                                       *)
(***************************************************************************)
\* Mutated: no look whether the work runs.
ListRunning(c, q, w) ==
  IF work_exit[w] = 1
  THEN UNCHANGED <<work_list, work_exit, wq, pc>>
  ELSE /\ work_list' = [p \in WQ |-> IF p = q THEN Append(Without(work_list[p], w), w)
                                              ELSE Without(work_list[p], w)]
       /\ work_exit' = [work_exit EXCEPT ![w] = 1]
       /\ wq' = [wq EXCEPT ![w] = q]
       /\ Goto(c, "give", q, w)

\* A work that runs on this queue or is listed somewhere is refused.
List(c, q, w) ==
  IF work_current[q] = w \/ work_exit[w] = 1
  THEN UNCHANGED <<work_list, work_exit, wq, pc>>
  ELSE /\ work_list' = [p \in WQ |-> IF p = q THEN Append(Without(work_list[p], w), w)
                                              ELSE Without(work_list[p], w)]
       /\ work_exit' = [work_exit EXCEPT ![w] = 1]
       /\ wq' = [wq EXCEPT ![w] = q]
       /\ Goto(c, "give", q, w)

\* The program runs nothing on a queue it is deleting.
Usable(q) ==
  worker[q] # "gone" /\ \A c \in Task : pc[c].at = "del" => pc[c].q # q

\* krhino_work_run (krhino_work_sched on the default queue)
WorkRun(c, q, w) ==
  /\ pc[c].at = "out" /\ q \in Home[w] /\ Usable(q) /\ runs < MaxRun
  /\ runs' = runs + 1
  /\ IF w \in Delayed
     THEN timer' = [timer EXCEPT ![w] = q] /\ UNCHANGED <<work_list, work_exit, wq, pc>>
     ELSE List(c, q, w) /\ UNCHANGED timer
  /\ UNCHANGED <<sem, work_current, worker>>

\* work_timer_cb
TimerCb(w) ==
  /\ pc[Timer].at = "out" /\ timer[w] # None
  /\ timer' = [timer EXCEPT ![w] = None]
  /\ List(Timer, timer[w], w)
  /\ UNCHANGED <<sem, work_current, worker, runs>>

\* Mutated: the token is forgotten.
GiveNothing(c) ==
  /\ pc[c].at = "give"
  /\ pc' = [pc EXCEPT ![c] = Out]
  /\ UNCHANGED <<work_list, sem, work_current, worker, work_exit, wq, timer, runs>>

\* krhino_sem_give, after the critical section of either
Give(c) ==
  /\ pc[c].at = "give"
  /\ sem' = [sem EXCEPT ![pc[c].q] = @ + 1]
  /\ pc' = [pc EXCEPT ![c] = Out]
  /\ UNCHANGED <<work_list, work_current, worker, work_exit, wq, timer, runs>>
-----------------------------------------------------------------------------
(***************************************************************************)
(* krhino_work_cancel                                                      *)
(***************************************************************************)
\* work->wq is read with interrupts on.
CancelRead(c, w) ==
  /\ pc[c].at = "out"
  /\ IF wq[w] = None
     THEN timer' = [timer EXCEPT ![w] = None] /\ UNCHANGED pc
     ELSE Goto(c, "cancel", wq[w], w) /\ UNCHANGED timer
  /\ UNCHANGED <<work_list, sem, work_current, worker, work_exit, wq, runs>>

\* The work that runs or is listed is refused; otherwise RHINO_SUCCESS.
Cancel(c) ==
  /\ pc[c].at = "cancel"
  /\ LET w == pc[c].w
     IN IF work_current[pc[c].q] = w \/ work_exit[w] = 1
        THEN UNCHANGED <<work_list, wq>>
        ELSE /\ work_list' = [q \in WQ |-> Without(work_list[q], w)]
             /\ wq' = [wq EXCEPT ![w] = None]
  /\ pc' = [pc EXCEPT ![c] = Out]
  /\ UNCHANGED <<sem, work_current, worker, work_exit, timer, runs>>
-----------------------------------------------------------------------------
(***************************************************************************)
(* krhino_workqueue_del.  The program deletes a queue that nobody is about *)
(* to use: no call under way, no timer set.                                *)
(***************************************************************************)
\* RHINO_WORKQUEUE_BUSY unless the list is empty and nothing runs.
DelCheck(c, q) ==
  /\ Deletes /\ pc[c].at = "out" /\ Usable(q)
  /\ \A d \in Caller : pc[d].q # q
  /\ \A w \in Work : timer[w] # q
  /\ work_list[q] = << >> /\ work_current[q] = None
  /\ Goto(c, "del", q, None)
  /\ UNCHANGED <<work_list, sem, work_current, worker, work_exit, wq, timer, runs>>

\* krhino_task_del, krhino_sem_del, and the queue leaves the list of queues.
Del(c) ==
  /\ pc[c].at = "del"
  /\ worker' = [worker EXCEPT ![pc[c].q] = "gone"]
  /\ pc' = [pc EXCEPT ![c] = Out]
  /\ UNCHANGED <<work_list, sem, work_current, work_exit, wq, timer, runs>>
-----------------------------------------------------------------------------
Worker(q) == Take(q) \/ Fetch(q) \/ Ran(q)

Next ==
  \/ \E q \in WQ : Worker(q)
  \/ \E w \in Work : TimerCb(w)
  \/ \E c \in Caller : Give(c)
  \/ \E c \in Task :
       \/ Cancel(c) \/ Del(c)
       \/ \E w \in Work : CancelRead(c, w) \/ \E q \in WQ : WorkRun(c, q, w)
       \/ \E q \in WQ : DelCheck(c, q)

\* Workers run, and a call that has begun goes on; handlers return.
Spec ==
  /\ Init /\ [][Next]_vars
  /\ \A q \in WQ : WF_vars(Worker(q))
  /\ \A c \in Caller : WF_vars(Give(c))
-----------------------------------------------------------------------------
\* The variables have their types; no semaphore is taken too often.
TypeOK ==
  /\ work_list \in [WQ -> Seq(Work)] /\ sem \in [WQ -> Nat]
  /\ work_current \in [WQ -> Work \cup {None}]
  /\ worker \in [WQ -> {"take", "fetch", "run", "gone"}]
  /\ work_exit \in [Work -> 0..1] /\ wq \in [Work -> WQ \cup {None}]
  /\ timer \in [Work -> WQ \cup {None}]
  /\ pc \in [Caller -> [at : {"out", "give", "cancel", "del"}, q : WQ \cup {None}, w : Work \cup {None}]]
  /\ runs \in 0..MaxRun

\* One token, given, about to be given or taken, for each listed work: the
\* worker never looks for a work on an empty list and no work stays behind.
TokensMatch ==
  \A q \in WQ :
    Len(work_list[q]) = sem[q] + (IF worker[q] = "fetch" THEN 1 ELSE 0)
                        + Cardinality({c \in Caller : pc[c].at = "give" /\ pc[c].q = q})

\* work_exit marks exactly the works on a list, and each is on one, once.
MarkedIsListed ==
  \A w \in Work :
    Cardinality({<<q, i>> \in WQ \X (1..Cardinality(Work) + 1) :
                   i \in DOMAIN work_list[q] /\ work_list[q][i] = w}) = work_exit[w]

\* Lists, marks and tokens agree at every moment (k_workqueue.c).
QueuesSound == TypeOK /\ TokensMatch /\ MarkedIsListed

\* A work runs in one worker at a time, and is not listed again on the queue on
\* which it runs.
OneRun ==
  \A w \in Work : LET running == {q \in WQ : work_current[q] = w}
                  IN Cardinality(running) <= 1 /\ running \cap Listed(w) = {}

\* A queue that is deleted leaves no work listed, running or promised.
DeletedIsIdle ==
  \A q \in WQ : worker[q] = "gone" =>
    /\ work_list[q] = << >> /\ work_current[q] = None /\ sem[q] = 0
    /\ \A w \in Work : timer[w] # q

\* What krhino_work_run has accepted is run.
AcceptedRuns ==
  \A w \in Work : work_exit[w] = 1 ~> \E q \in WQ : work_current[q] = w
=============================================================================
