----------------------------- MODULE RhinoCore -----------------------------
(***************************************************************************)
(* The data structures of the Rhino kernel (csky/csi_kernel/rhino/core)    *)
(* and the routines that run on them with interrupts off: the run queue    *)
(* (k_sched.c), the block lists (k_pend.c), the tick list (k_tick.c), and  *)
(* priority inheritance (k_mutex.c, k_task.c).  Every routine maps a       *)
(* kernel state s, a record, to the kernel state it leaves.                *)
(*                                                                         *)
(* Fields of s, under the names of the code where it has one:              *)
(*   task_state, prio, b_prio, suspend_count, blk_obj, blk_state           *)
(*                  per task, the members of ktask_t                       *)
(*   ready          per priority, the ring that starts at cur_list_item    *)
(*   highest_pri    the run queue's cached highest ready priority          *)
(*   tick_list      the tasks that wait for a time, soonest first          *)
(*   blk_list       per object, the tasks that wait for it                 *)
(*   obj_type       the objects that were created and not deleted          *)
(*   mutex_task, owner_nested    per mutex                                 *)
(*   mutex_list     per task, the mutexes it holds, last taken first       *)
(*   count          per semaphore                                          *)
(*   active, sched_lock          g_active_task and g_sched_lock            *)
(*   err            k_err_proc was called                                  *)
(***************************************************************************)
EXTENDS Naturals, FiniteSets, SequencesExt, FiniteSetsExt

CONSTANTS
  Task,      \* the application's tasks
  Idle,      \* the idle task
  Mutex,
  Sem,
  None,      \* NULL
  IdlePri    \* RHINO_IDLE_PRI, the lowest priority; 1 is the highest

ASSUME CoreAssumption ==
  /\ IsFiniteSet(Task) /\ Idle \notin Task
  /\ None \notin Task \cup {Idle} \cup Mutex \cup Sem
  /\ Mutex \cap Sem = {}
  /\ IdlePri \in Nat \ {0}

Object == Mutex \cup Sem
AllTask == Task \cup {Idle}
Prio == 1..IdlePri
Pended == {"PEND", "PEND_SUSPENDED"}

\* obj_type = RHINO_MUTEX_OBJ_TYPE.
IsMutex(s, o) == o \in Mutex \cap s.obj_type

KErr(s) == [s EXCEPT !.err = TRUE]
-----------------------------------------------------------------------------
(***************************************************************************)
(* k_sched.c: the run queue.                                               *)
(***************************************************************************)

\* _ready_list_add_tail and _ready_list_add_head, ready_list_init included.
ReadyAdd(s, t, ring) ==
  [s EXCEPT !.ready[s.prio[t]] = ring,
            !.highest_pri = IF s.ready[s.prio[t]] = <<>>
                              THEN Min({@, s.prio[t]}) ELSE @]

ready_list_add_tail(s, t) == ReadyAdd(s, t, Append(s.ready[s.prio[t]], t))

ready_list_add_head(s, t) == ReadyAdd(s, t, Cons(t, s.ready[s.prio[t]]))

ready_list_add(s, t) ==
  IF s.prio[t] = s.prio[s.active] THEN ready_list_add_tail(s, t)
                                  ELSE ready_list_add_head(s, t)

\* The cached highest priority is recomputed only when its ring gets empty.
ready_list_rm(s, t) ==
  LET p    == s.prio[t]
      rest == RemoveFirst(s.ready[p], t)
      bits == {q \in Prio \ {p} : s.ready[q] # <<>>}
      s1   == [s EXCEPT !.ready[p] = rest]
  IN IF rest # <<>> \/ p # s.highest_pri THEN s1
     ELSE IF bits = {} THEN KErr(s1)
     ELSE [s1 EXCEPT !.highest_pri = Min(bits)]

ready_list_head_to_tail(s, t) ==
  [s EXCEPT !.ready[s.prio[t]] = Append(Tail(@), Head(@))]

preferred_cpu_ready_task_get(s) == Head(s.ready[s.highest_pri])

\* core_sched in a task and krhino_intrpt_exit at the end of an interrupt.
core_sched(s) ==
  IF s.sched_lock > 0 THEN s
  ELSE [s EXCEPT !.active = preferred_cpu_ready_task_get(s)]

\* The time slice of the first task of the running priority may be used up.
time_slice_update(s) ==
  LET ring == s.ready[s.prio[s.active]]
  IN IF Len(ring) <= 1 THEN s ELSE ready_list_head_to_tail(s, s.active)
-----------------------------------------------------------------------------
(***************************************************************************)
(* k_tick.c and k_pend.c.  A time is abstracted to a place in the tick     *)
(* list: place i puts the task before the i-th waiting one, 0 is no wait.  *)
(***************************************************************************)

tick_list_insert(s, t, i) == [s EXCEPT !.tick_list = InsertAt(@, i, t)]

tick_list_rm(s, t) == [s EXCEPT !.tick_list = RemoveFirst(@, t)]

\* Before the first task of a lower priority.
pend_list_add(s, o, t) ==
  LET Lower(u) == s.prio[u] > s.prio[t]
      i == SelectInSeq(s.blk_list[o], Lower)
  IN [s EXCEPT !.blk_list[o] =
        IF i = 0 THEN Append(@, t) ELSE InsertAt(@, i, t)]

\* Mutated: the task stays where it was.
pend_list_keep(s, t) == s

pend_list_reorder(s, t) ==
  LET o == s.blk_obj[t]
  IN pend_list_add([s EXCEPT !.blk_list[o] = RemoveFirst(@, t)], o, t)

pend_to_blk_obj(s, o, t, i) ==
  LET s1 == IF i = 0 THEN s ELSE tick_list_insert(s, t, i)
      s2 == [s1 EXCEPT !.blk_obj[t] = o, !.task_state[t] = "PEND"]
  IN pend_list_add(ready_list_rm(s2, t), o, t)

\* The task leaves the block list and, unless it is suspended, gets ready.
LeaveBlkList(s, t) ==
  LET s1 == [s EXCEPT !.blk_list[s.blk_obj[t]] = RemoveFirst(@, t)]
  IN IF s.task_state[t] = "PEND"
       THEN [ready_list_add(s1, t) EXCEPT !.task_state[t] = "RDY"]
       ELSE [s1 EXCEPT !.task_state[t] = "SUSPENDED"]

\* Mutated: the timeout stays armed.
EndPendTimed(s, t, result) ==
  [LeaveBlkList(s, t) EXCEPT !.blk_state[t] = result, !.blk_obj[t] = None]

\* pend_task_wakeup and pend_task_rm, which differ in the result they leave.
EndPend(s, t, result) ==
  IF s.task_state[t] \notin Pended THEN KErr(s)
  ELSE [tick_list_rm(LeaveBlkList(s, t), t)
          EXCEPT !.blk_state[t] = result, !.blk_obj[t] = None]

pend_task_wakeup(s, t) == EndPend(s, t, "FINISH")

\* The waits of all tasks on the list end, first to last: element i of the
\* function is the kernel state after i of them.
EndPendEach(s, list, result) ==
  LET after[i \in 0..Len(list)] ==
        IF i = 0 THEN s ELSE EndPend(after[i - 1], list[i], result)
  IN after

EndPendAll(s, o, result) ==
  EndPendEach(s, s.blk_list[o], result)[Len(s.blk_list[o])]

\* Everyone on the list of an object that is deleted.
PendAllRm(s, o) == EndPendAll(s, o, "DEL")
-----------------------------------------------------------------------------
(***************************************************************************)
(* k_mutex.c and k_task.c: priority inheritance.                           *)
(***************************************************************************)

\* The priorities of the first waiters of the mutexes the task holds.
WaiterPrios(s, t) ==
  {s.prio[Head(s.blk_list[m])] :
     m \in {n \in ToSet(s.mutex_list[t]) : s.blk_list[n] # <<>>}}

\* Mutated: the waiters of held mutexes are forgotten.
mutex_pri_unlimited(s, t, pri) == pri

mutex_pri_limit(s, t, pri) == Min({pri} \cup WaiterPrios(s, t))

mutex_pri_look(s, t) == Min({s.b_prio[t]} \cup WaiterPrios(s, t))

\* What the loop in task_pri_change knows after a round; task = None ends it.
Round(s, t, pri) == [s |-> s, task |-> t, new_pri |-> pri]

PriChangeRound(c) ==
  LET s     == c.s
      t     == c.task
      set   == [s EXCEPT !.prio[t] = c.new_pri]
      End(x) == Round(x, None, c.new_pri)
      moved == [ready_list_rm(s, t) EXCEPT !.prio[t] = c.new_pri]
      re    == pend_list_reorder(set, t)
      owner == s.mutex_task[s.blk_obj[t]]
      look  == mutex_pri_look(re, owner)
  IN IF t = None THEN c
     ELSE IF s.prio[t] = c.new_pri THEN End(s)
     ELSE CASE s.task_state[t] = "RDY" ->
                 End(IF t = s.active THEN ready_list_add_head(moved, t)
                                     ELSE ready_list_add_tail(moved, t))
            [] s.task_state[t] \in {"SLEEP", "SUSPENDED", "SLEEP_SUSPENDED"} ->
                 End(set)
            [] s.task_state[t] \in Pended /\ ~IsMutex(s, s.blk_obj[t]) ->
                 End(re)
            [] s.task_state[t] \in Pended /\ IsMutex(s, s.blk_obj[t]) ->
                 IF re.prio[owner] > c.new_pri
                   THEN Round(re, owner, c.new_pri)
                 ELSE IF re.prio[owner] = s.prio[t] /\ look # re.prio[owner]
                   THEN Round(re, owner, look)
                 ELSE End(re)
            [] OTHER -> End(KErr(s))

\* Bound on the rounds: a chain of waiting owners visits no task more often.
ChainBound == 2 * Cardinality(Task) + 1

PriChangeRounds(s, t, new_pri) ==
  LET after[i \in 0..ChainBound] ==
        IF i = 0 THEN Round(s, t, new_pri)
        ELSE PriChangeRound(after[i - 1])
  IN after

task_pri_change(s, t, new_pri) ==
  LET last == PriChangeRounds(s, t, new_pri)[ChainBound]
  IN IF last.task = None THEN last.s ELSE KErr(last.s)

\* mutex_release(t, rel); with rel = None no mutex leaves the list.
mutex_release(s, t, rel) ==
  LET s1 == [s EXCEPT !.mutex_list[t] = RemoveFirst(@, rel)]
  IN task_pri_change(s1, t, mutex_pri_look(s1, t))

\* A task that stops waiting may have lent its priority to the owner.
mutex_task_pri_reset(s, t) ==
  LET o     == s.blk_obj[t]
      owner == s.mutex_task[o]
  IN IF ~IsMutex(s, o) THEN s
     ELSE IF s.prio[owner] # s.prio[t] THEN s
     ELSE mutex_release(s, owner, None)

\* Mutated: the last waiter gets the mutex.
HandOverLast(s, m) ==
  LET u == Last(s.blk_list[m])
  IN IF s.blk_list[m] = <<>> THEN [s EXCEPT !.mutex_task[m] = None]
     ELSE [pend_task_wakeup(s, u) EXCEPT !.mutex_task[m] = u,
                                         !.mutex_list[u] = Cons(m, @)]

\* The mutex goes to the first waiter: the last lines of krhino_mutex_unlock
\* and the body of the loop in task_mutex_free, which sets no nesting count.
HandOver(s, m) ==
  LET u == Head(s.blk_list[m])
  IN IF s.blk_list[m] = <<>> THEN [s EXCEPT !.mutex_task[m] = None]
     ELSE [pend_task_wakeup(s, u) EXCEPT !.mutex_task[m] = u,
                                         !.mutex_list[u] = Cons(m, @)]

\* Mutated: a deleted task takes its mutexes along.
task_mutex_keep(s, t) == s

HandOverEach(s, list) ==
  LET after[i \in 0..Len(list)] ==
        IF i = 0 THEN s ELSE HandOver(after[i - 1], list[i])
  IN after

\* The deleted task's own list is never read again and is shown as empty.
task_mutex_free(s, t) ==
  [HandOverEach(s, s.mutex_list[t])[Len(s.mutex_list[t])]
     EXCEPT !.mutex_list[t] = <<>>]
-----------------------------------------------------------------------------
(***************************************************************************)
(* k_tick.c: a task whose time has come.                                   *)
(***************************************************************************)
Expire(s, t) ==
  LET s1 == tick_list_rm(s, t)
  IN CASE s.task_state[t] = "SLEEP" ->
            ready_list_add([s1 EXCEPT !.blk_state[t] = "FINISH",
                                      !.task_state[t] = "RDY"], t)
       [] s.task_state[t] \in Pended ->
            LET s2 == [LeaveBlkList(s1, t) EXCEPT !.blk_state[t] = "TIMEOUT"]
            IN [mutex_task_pri_reset(s2, t) EXCEPT !.blk_obj[t] = None]
       [] s.task_state[t] = "SLEEP_SUSPENDED" ->
            [s1 EXCEPT !.task_state[t] = "SUSPENDED", !.blk_state[t] = "FINISH"]
       [] OTHER -> KErr(s)

ExpireEach(s, list, n) ==
  LET after[i \in 0..n] == IF i = 0 THEN s ELSE Expire(after[i - 1], list[i])
  IN after

\* The first n tasks of the list are due.
tick_list_update(s, n) == ExpireEach(s, s.tick_list, n)[n]
=============================================================================
