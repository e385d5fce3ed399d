---------------------------- MODULE RhinoKernel ----------------------------
(***************************************************************************)
(* Tasks, interrupts and the kernel's system calls on one CPU.             *)
(*                                                                         *)
(* A system call runs with interrupts off up to RHINO_CRITICAL_EXIT, and   *)
(* is one action.  RHINO_CRITICAL_EXIT_SCHED turns interrupts on and then  *)
(* calls core_sched, so an interrupt can run in between: the call ends in  *)
(* a second action, CoreSched, and a call that blocked in a third, in      *)
(* which pend_state_end_proc reads how the wait ended.                     *)
(***************************************************************************)
EXTENDS RhinoCore

CONSTANTS
  Application, \* the programs that may run: records as in KernelAssumption
  MaxLock,     \* bound: nesting of krhino_sched_disable
  MaxCount     \* bound: a semaphore's count

ASSUME KernelAssumption ==
  /\ \A a \in Application :
       /\ a.prio \in [Task -> 1..(IdlePri - 1)]
       /\ a.nest \in Nat /\ a.suspend \in Nat
       /\ "mutex" \in a.calls => a.nest > 0
  /\ MaxLock \in Nat /\ MaxCount \in Nat

VARIABLES
  app,    \* the program that was started
  k,      \* the kernel state
  pos,    \* where each task is in its system call
  want,   \* the mutex a task's krhino_mutex_lock waits for, or None
  held    \* held[t][m]: locks of m that returned success to t, less unlocks

vars == <<app, k, pos, want, held>>

InitPrio == app.prio        \* the priority each task is created with
Calls == app.calls          \* the system calls its tasks use
IsrCalls == app.isr_calls   \* the system calls its interrupt handlers use
MaxNest == app.nest         \* bound: how often a task locks a mutex it holds
MaxSuspend == app.suspend   \* bound: suspend_count

NoLocks == [m \in Mutex |-> 0]

Init ==
  LET ready == [p \in Prio |->
                  IF p = IdlePri THEN <<Idle>>
                  ELSE SetToSeq({t \in Task : InitPrio[t] = p})]
      high  == Min({p \in Prio : ready[p] # <<>>})
  IN
  /\ app \in Application
  /\ k = [task_state |-> [t \in AllTask |-> "RDY"],
          prio |-> [t \in AllTask |-> IF t = Idle THEN IdlePri ELSE InitPrio[t]],
          b_prio |-> [t \in AllTask |-> IF t = Idle THEN IdlePri ELSE InitPrio[t]],
          suspend_count |-> [t \in AllTask |-> 0],
          blk_obj |-> [t \in AllTask |-> None],
          blk_state |-> [t \in AllTask |-> "FINISH"],
          ready |-> ready,
          highest_pri |-> high,
          tick_list |-> <<>>,
          blk_list |-> [o \in Object |-> <<>>],
          obj_type |-> Object,
          mutex_task |-> [m \in Mutex |-> None],
          owner_nested |-> [m \in Mutex |-> 0],
          mutex_list |-> [t \in AllTask |-> <<>>],
          count |-> [o \in Sem |-> 0],
          active |-> Head(ready[high]),
          sched_lock |-> 0,
          err |-> FALSE]
  /\ pos = [t \in AllTask |-> "run"]
  /\ want = [t \in AllTask |-> None]
  /\ held = [t \in AllTask |-> NoLocks]
-----------------------------------------------------------------------------
(***************************************************************************)
(* The ways a system call ends.                                            *)
(***************************************************************************)
Running(t, call) ==
  /\ call \in Calls
  /\ t \in Task
  /\ t = k.active
  /\ pos[t] = "run"

\* RHINO_CRITICAL_EXIT.
Return(s) == k' = s /\ UNCHANGED <<pos, want>>

\* Mutated: RHINO_CRITICAL_EXIT in its place.
ExitNoSched(t, s, to) ==
  k' = s /\ pos' = [pos EXCEPT ![t] = IF to = "sched" THEN "run" ELSE to]

\* RHINO_CRITICAL_EXIT_SCHED, to return after it or to look at blk_state.
ExitSched(t, s, to) == k' = s /\ pos' = [pos EXCEPT ![t] = to]

\* core_sched, and the return of a call that does not block.
CoreSched ==
  LET t == k.active
  IN /\ pos[t] \in {"sched", "pend"}
     /\ k' = core_sched(k)
     /\ pos' = [pos EXCEPT ![t] = IF @ = "pend" THEN "end" ELSE "run"]
     /\ UNCHANGED <<want, held>>

\* pend_state_end_proc: the task runs again and returns how its wait ended.
PendEnd ==
  LET t == k.active
  IN /\ pos[t] = "end"
     /\ pos' = [pos EXCEPT ![t] = "run"]
     /\ want' = [want EXCEPT ![t] = None]
     /\ held' = IF k.blk_state[t] = "FINISH" /\ IsMutex(k, want[t])
                  THEN [held EXCEPT ![t][want[t]] = 1] ELSE held
     /\ k' = k
-----------------------------------------------------------------------------
(***************************************************************************)
(* k_mutex.c                                                               *)
(***************************************************************************)

\* The mutex is free or the task's own.  (A program nests at most MaxNest times;
\* the check of the count against its type, which is k_err_proc, is not reached.)
MutexLockNow(t, m) ==
  /\ Running(t, "mutex")
  /\ IsMutex(k, m)
  /\ k.mutex_task[m] \in {t, None}
  /\ k.mutex_task[m] = t => k.owner_nested[m] < MaxNest
  /\ held' = [held EXCEPT ![t][m] = @ + 1]
  /\ Return(IF k.mutex_task[m] = t
              THEN [k EXCEPT !.owner_nested[m] = @ + 1]
              ELSE [k EXCEPT !.mutex_task[m] = t, !.owner_nested[m] = 1,
                             !.mutex_list[t] = Cons(m, @)])

\* The task waits, after it has lent its priority to the owner.
MutexLockWait(t, m, i) ==
  LET owner == k.mutex_task[m]
      s1    == IF k.prio[t] < k.prio[owner]
                 THEN task_pri_change(k, owner, k.prio[t]) ELSE k
  IN /\ Running(t, "mutex")
     /\ IsMutex(k, m)
     /\ owner \notin {t, None}
     /\ k.sched_lock = 0
     /\ want' = [want EXCEPT ![t] = m]
     /\ ExitSched(t, pend_to_blk_obj(s1, m, t, i), "pend")
     /\ UNCHANGED held

\* The next owner, if there is one, starts with this nesting count.
UnlockTo(t, m, nested) ==
  LET s1 == [k EXCEPT !.owner_nested[m] = @ - 1]
      s2 == mutex_release(s1, t, m)
      s3 == [HandOver(s2, m) EXCEPT !.owner_nested[m] =
               IF s2.blk_list[m] = <<>> THEN 0 ELSE nested]
  IN /\ Running(t, "mutex")
     /\ IsMutex(k, m)
     /\ k.mutex_task[m] = t
     /\ held' = [held EXCEPT ![t][m] = IF @ = 0 THEN 0 ELSE @ - 1]
     /\ IF s1.owner_nested[m] > 0 THEN Return(s1)
        ELSE IF s2.blk_list[m] = <<>> THEN Return(s3)
        ELSE ExitSched(t, s3, "sched") /\ UNCHANGED want

\* Mutated: the count is not set for the next owner.
MutexUnlockUncounted(t, m) == UnlockTo(t, m, 0)

MutexUnlock(t, m) == UnlockTo(t, m, 1)

\* The owner keeps its lock on an object that no longer exists.
MutexDel(t, m) ==
  LET s1 == [k EXCEPT !.obj_type = @ \ {m}]
      s2 == IF k.mutex_task[m] = None THEN s1
            ELSE mutex_release(s1, k.mutex_task[m], m)
  IN /\ Running(t, "mutex_del")
     /\ IsMutex(k, m)
     /\ ExitSched(t, PendAllRm(s2, m), "sched")
     /\ held' = [u \in AllTask |-> [held[u] EXCEPT ![m] = 0]]
     /\ UNCHANGED want
-----------------------------------------------------------------------------
(***************************************************************************)
(* k_sem.c                                                                 *)
(***************************************************************************)

\* sem_give from a task or an interrupt; all: krhino_sem_give_all.
sem_give(s, o, all) ==
  IF s.blk_list[o] = <<>> THEN [s EXCEPT !.count[o] = @ + 1]
  ELSE IF all THEN EndPendAll(s, o, "FINISH")
  ELSE pend_task_wakeup(s, Head(s.blk_list[o]))

\* At its maximum the count stays: RHINO_SEM_OVF.
CanGive(s, o) ==
  /\ o \in s.obj_type
  /\ s.blk_list[o] # <<>> \/ s.count[o] < MaxCount

SemGive(t, o, all) ==
  /\ Running(t, "sem")
  /\ CanGive(k, o)
  /\ IF k.blk_list[o] = <<>> THEN Return(sem_give(k, o, all))
     ELSE ExitSched(t, sem_give(k, o, all), "sched") /\ UNCHANGED want
  /\ UNCHANGED held

SemTakeNow(t, o) ==
  /\ Running(t, "sem")
  /\ o \in k.obj_type
  /\ k.count[o] > 0
  /\ Return([k EXCEPT !.count[o] = @ - 1])
  /\ UNCHANGED held

SemTakeWait(t, o, i) ==
  /\ Running(t, "sem")
  /\ o \in k.obj_type
  /\ k.count[o] = 0
  /\ k.sched_lock = 0
  /\ ExitSched(t, pend_to_blk_obj(k, o, t, i), "pend")
  /\ UNCHANGED <<want, held>>

SemCountSet(t, o, c) ==
  /\ Running(t, "sem_set")
  /\ o \in k.obj_type
  /\ k.count[o] > 0 \/ k.blk_list[o] = <<>>
  /\ Return([k EXCEPT !.count[o] = c])
  /\ UNCHANGED held

SemDel(t, o) ==
  /\ Running(t, "sem_del")
  /\ o \in k.obj_type
  /\ ExitSched(t, PendAllRm([k EXCEPT !.obj_type = @ \ {o}], o), "sched")
  /\ UNCHANGED <<want, held>>
-----------------------------------------------------------------------------
(***************************************************************************)
(* k_task.c                                                                *)
(***************************************************************************)
TaskSleep(t, i) ==
  LET s1 == [k EXCEPT !.task_state[t] = "SLEEP"]
  IN /\ Running(t, "sleep")
     /\ k.sched_lock = 0
     /\ ExitSched(t, ready_list_rm(tick_list_insert(s1, t, i), t), "pend")
     /\ UNCHANGED <<want, held>>

TaskYield(t) ==
  /\ Running(t, "yield")
  /\ ExitSched(t, ready_list_head_to_tail(k, t), "sched")
  /\ UNCHANGED <<want, held>>

CanSuspend(s, u) ==
  /\ u = s.active => s.sched_lock = 0
  /\ s.task_state[u] # "DELETED"
  /\ s.suspend_count[u] < MaxSuspend

task_suspend(s, u) ==
  LET s1 == [s EXCEPT !.suspend_count[u] = @ + 1]
  IN CASE s.task_state[u] = "RDY" ->
            ready_list_rm([s1 EXCEPT !.task_state[u] = "SUSPENDED",
                                     !.suspend_count[u] = 1], u)
       [] s.task_state[u] = "SLEEP" ->
            [s1 EXCEPT !.task_state[u] = "SLEEP_SUSPENDED", !.suspend_count[u] = 1]
       [] s.task_state[u] = "PEND" ->
            [s1 EXCEPT !.task_state[u] = "PEND_SUSPENDED", !.suspend_count[u] = 1]
       [] OTHER -> s1

TaskSuspend(t, u) ==
  /\ Running(t, "suspend")
  /\ CanSuspend(k, u)
  /\ ExitSched(t, task_suspend(k, u), "sched")
  /\ UNCHANGED <<want, held>>

CanResume(s, u) ==
  s.task_state[u] \in {"SUSPENDED", "SLEEP_SUSPENDED", "PEND_SUSPENDED"}

task_resume(s, u) ==
  LET s1 == [s EXCEPT !.suspend_count[u] = @ - 1]
  IN IF s1.suspend_count[u] > 0 THEN s1
     ELSE CASE s.task_state[u] = "SUSPENDED" ->
                 ready_list_add([s1 EXCEPT !.task_state[u] = "RDY"], u)
            [] s.task_state[u] = "SLEEP_SUSPENDED" ->
                 [s1 EXCEPT !.task_state[u] = "SLEEP"]
            [] OTHER -> [s1 EXCEPT !.task_state[u] = "PEND"]

TaskResume(t, u) ==
  /\ Running(t, "suspend")
  /\ CanResume(k, u)
  /\ ExitSched(t, task_resume(k, u), "sched")
  /\ UNCHANGED <<want, held>>

TaskPriChange(t, u, pri) ==
  LET s1 == [k EXCEPT !.b_prio[u] = pri]
  IN /\ Running(t, "prio")
     /\ k.task_state[u] # "DELETED"
     /\ ExitSched(t, task_pri_change(s1, u, mutex_pri_limit(k, u, pri)), "sched")
     /\ UNCHANGED <<want, held>>

\* krhino_task_del and krhino_task_dyn_del: the mutexes go to their waiters.
TaskDel(t, u) ==
  LET s1 == task_mutex_free(k, u)
      s2 == [s1 EXCEPT !.task_state[u] = "DELETED"]
      s3 == CASE s1.task_state[u] = "RDY" -> ready_list_rm(s2, u)
              [] s1.task_state[u] \in {"SLEEP", "SLEEP_SUSPENDED"} ->
                   tick_list_rm(s2, u)
              [] s1.task_state[u] \in Pended ->
                   mutex_task_pri_reset(
                     [tick_list_rm(s2, u) EXCEPT
                        !.blk_list[s2.blk_obj[u]] = RemoveFirst(@, u)], u)
              [] OTHER -> s2
  IN /\ Running(t, "del")
     /\ u = t => k.sched_lock = 0
     /\ k.task_state[u] # "DELETED"
     /\ ExitSched(t, s3, "sched")
     /\ held' = [held EXCEPT ![u] = NoLocks]
     /\ UNCHANGED want

\* task_create on the memory of a deleted task, with autorun.
TaskCreate(t, u, pri) ==
  LET s1 == [k EXCEPT !.task_state[u] = "RDY", !.prio[u] = pri, !.b_prio[u] = pri,
                      !.suspend_count[u] = 0, !.blk_obj[u] = None,
                      !.blk_state[u] = "FINISH", !.mutex_list[u] = <<>>]
  IN /\ Running(t, "create")
     /\ k.task_state[u] = "DELETED"
     /\ k' = ready_list_add_tail(s1, u)
     /\ pos' = [pos EXCEPT ![t] = "sched", ![u] = "run"]
     /\ want' = [want EXCEPT ![u] = None]
     /\ UNCHANGED held
-----------------------------------------------------------------------------
(***************************************************************************)
(* k_sched.c                                                               *)
(***************************************************************************)
SchedDisable(t) ==
  /\ Running(t, "lock")
  /\ k.sched_lock < MaxLock
  /\ Return([k EXCEPT !.sched_lock = @ + 1])
  /\ UNCHANGED held

SchedEnable(t) ==
  LET s1 == [k EXCEPT !.sched_lock = @ - 1]
  IN /\ Running(t, "lock")
     /\ k.sched_lock > 0
     /\ IF s1.sched_lock > 0 THEN Return(s1)
        ELSE ExitSched(t, s1, "sched") /\ UNCHANGED want
     /\ UNCHANGED held
-----------------------------------------------------------------------------
(***************************************************************************)
(* Interrupts, which krhino_intrpt_exit ends with a choice of task.        *)
(***************************************************************************)
Interrupt(s) == k' = core_sched(s) /\ UNCHANGED <<pos, want, held>>

\* krhino_tick_proc: n waits are over, and a time slice may be, which changes
\* nothing for a task that is alone at its priority.
Tick(n, slice) ==
  LET s1 == tick_list_update(k, n)
      s2 == time_slice_update(s1)
  IN IF slice THEN s2 # s1 /\ Interrupt(s2) ELSE Interrupt(s1)

IsrSemGive(o) ==
  /\ "sem" \in IsrCalls
  /\ CanGive(k, o)
  /\ Interrupt(sem_give(k, o, FALSE))

IsrSuspend(u) ==
  /\ "suspend" \in IsrCalls
  /\ CanSuspend(k, u)
  /\ Interrupt(task_suspend(k, u))

IsrResume(u) ==
  /\ "suspend" \in IsrCalls
  /\ CanResume(k, u)
  /\ Interrupt(task_resume(k, u))
-----------------------------------------------------------------------------
\* A wait's place on the tick list; 0 is RHINO_WAIT_FOREVER.
Place == 1..(Len(k.tick_list) + 1)
Timeout == {0} \cup {i \in Place : "timed" \in Calls}

TaskStep(t) ==
  \/ \E m \in Mutex :
       \/ MutexLockNow(t, m) \/ MutexUnlock(t, m) \/ MutexDel(t, m)
       \/ \E i \in Timeout : MutexLockWait(t, m, i)
  \/ \E o \in Sem :
       \/ \E all \in BOOLEAN : SemGive(t, o, all)
       \/ SemTakeNow(t, o) \/ SemDel(t, o)
       \/ \E i \in Timeout : SemTakeWait(t, o, i)
       \/ \E c \in 0..MaxCount : SemCountSet(t, o, c)
  \/ \E i \in Place : TaskSleep(t, i)
  \/ TaskYield(t)
  \/ \E u \in Task :
       \/ TaskSuspend(t, u) \/ TaskResume(t, u)
       \/ TaskDel(t, u) \/ TaskCreate(t, u, InitPrio[u])
       \/ \E pri \in 1..(IdlePri - 1) : TaskPriChange(t, u, pri)
  \/ SchedDisable(t) \/ SchedEnable(t)

Isr ==
  \/ \E n \in 0..Len(k.tick_list), slice \in BOOLEAN : Tick(n, slice)
  \/ \E o \in Sem : IsrSemGive(o)
  \/ \E u \in Task : IsrSuspend(u) \/ IsrResume(u)

Next ==
  /\ UNCHANGED app
  /\ (\E t \in Task \cap {k.active} : TaskStep(t)) \/ CoreSched \/ PendEnd \/ Isr

Spec == Init /\ [][Next]_vars
-----------------------------------------------------------------------------
(***************************************************************************)
(* Properties.                                                             *)
(***************************************************************************)

\* The kernel state and the tasks' places have their types.
TypeOK ==
  /\ k.task_state \in [AllTask -> {"RDY", "PEND", "SUSPENDED", "PEND_SUSPENDED",
                                   "SLEEP", "SLEEP_SUSPENDED", "DELETED"}]
  /\ k.prio \in [AllTask -> Prio] /\ k.b_prio \in [AllTask -> Prio]
  /\ k.suspend_count \in [AllTask -> 0..MaxSuspend]
  /\ k.blk_obj \in [AllTask -> Object \cup {None}]
  /\ k.blk_state \in [AllTask -> {"FINISH", "TIMEOUT", "DEL"}]
  /\ k.mutex_task \in [Mutex -> AllTask \cup {None}]
  /\ k.owner_nested \in [Mutex -> 0..MaxNest]
  /\ k.count \in [Sem -> 0..MaxCount]
  /\ k.active \in AllTask
  /\ pos \in [AllTask -> {"run", "sched", "pend", "end"}]
  /\ want \in [AllTask -> Mutex \cup {None}]
  /\ held \in [AllTask -> [Mutex -> 0..MaxNest]]

Live == {t \in AllTask : k.task_state[t] # "DELETED"}

\* k_err_proc is never reached: no routine of the core meets a task in a state
\* its switch does not expect, and a priority change settles along any chain.
NoKernelError == ~k.err

\* A task runs at the highest of its own priority and those of the tasks that
\* wait for a mutex it holds, after any mix of timeouts, deletions, nested and
\* chained locks and explicit priority changes (task_pri_change, k_mutex.c).
PriorityInherited ==
  \A t \in Live :
    k.prio[t] =
      Min({k.b_prio[t]} \cup
          {k.prio[u] : u \in {v \in Live :
             /\ k.task_state[v] \in Pended
             /\ k.blk_obj[v] \in Mutex
             /\ k.mutex_task[k.blk_obj[v]] = t}})

\* Every block list stays sorted by priority although the priority of a waiting
\* task changes while it is on the list.
WaitListsSorted ==
  \A o \in Object : IsSorted([i \in DOMAIN k.blk_list[o] |->
                                k.prio[k.blk_list[o][i]]], <=)

\* A task is on the one list its state says: ready tasks in the ring of their
\* priority, waiting tasks on their object's list, timed ones on the tick list;
\* and the cached highest_pri is the highest ready priority.
ListsConsistent ==
  /\ \A t \in AllTask, p \in Prio :
       Cardinality({i \in DOMAIN k.ready[p] : k.ready[p][i] = t}) =
         IF k.task_state[t] = "RDY" /\ p = k.prio[t] THEN 1 ELSE 0
  /\ \A t \in AllTask, o \in Object :
       Cardinality({i \in DOMAIN k.blk_list[o] : k.blk_list[o][i] = t}) =
         IF k.task_state[t] \in Pended /\ o = k.blk_obj[t] THEN 1 ELSE 0
  /\ \A t \in AllTask :
       /\ k.task_state[t] \in {"SLEEP", "SLEEP_SUSPENDED"}
            => Contains(k.tick_list, t)
       /\ Contains(k.tick_list, t)
            => k.task_state[t] \in Pended \cup {"SLEEP", "SLEEP_SUSPENDED"}
       /\ Cardinality({i \in DOMAIN k.tick_list : k.tick_list[i] = t}) <= 1
  /\ k.highest_pri = Min({p \in Prio : k.ready[p] # <<>>})

\* The kernel state has its types, is consistent, and never met the unexpected:
\* the lists k_sched.c, k_pend.c and k_tick.c keep for one task agree after any
\* mix of system calls and interrupts.
KernelSound == TypeOK /\ NoKernelError /\ ListsConsistent

\* The kernel and the application agree who owns a mutex: a task whose locks
\* returned success owns the mutex as many times, from the hand-over on, and
\* nobody else believes to hold it.
OwnershipSound ==
  \A m \in Mutex \cap k.obj_type, t \in Live :
    LET granted == /\ want[t] = m /\ k.blk_state[t] = "FINISH"
                   /\ k.blk_obj[t] = None
    IN IF k.mutex_task[m] = t
         THEN k.owner_nested[m] = held[t][m] + (IF granted THEN 1 ELSE 0)
         ELSE held[t][m] = 0 /\ ~granted

\* Nobody waits in vain: a mutex that is waited for has an owner that lives,
\* a semaphore that is waited for has no tokens, deleted objects no waiters.
WaitersHaveCause ==
  \A o \in Object : k.blk_list[o] # <<>> =>
    /\ o \in k.obj_type
    /\ o \in Mutex => k.mutex_task[o] \in Live
    /\ o \in Sem => k.count[o] = 0

\* A task that executes application code with the scheduler on is the ready
\* task of the highest priority: no call returns by RHINO_CRITICAL_EXIT where
\* it should have called the scheduler.
HighestRuns ==
  pos[k.active] = "run" /\ k.sched_lock = 0 =>
    /\ k.task_state[k.active] = "RDY"
    /\ \A t \in AllTask : k.task_state[t] = "RDY" => k.prio[k.active] <= k.prio[t]

\* A mutex that passes from one task to another goes to a waiter of the highest
\* priority, by an unlock or by the owner's deletion.
HandoffToHighest ==
  [][\A m \in Mutex :
       k.mutex_task[m] # None /\ k'.mutex_task[m] \notin {None, k.mutex_task[m]}
         => \A u \in ToSet(k.blk_list[m]) :
              k.prio[k'.mutex_task[m]] <= k.prio[u]]_vars

\* A task that unlocked a mutex as often as it locked it does not own it.
UnlockReleases ==
  \A m \in Mutex \cap k.obj_type, t \in Live :
    pos[t] = "run" /\ held[t][m] = 0 => k.mutex_task[m] # t
=============================================================================
