----------------------------- MODULE PosixThread -----------------------------
(***************************************************************************)
(* Threads of the POSIX layer (lib/posix/pthread.c): creation, return,     *)
(* pthread_exit, join and detach, with the table of threads and the memory *)
(* of struct pthread_task, which the allocator gives out again.            *)
(*                                                                         *)
(* Applications are tasks that create threads and hold their handles.  A   *)
(* handle is the address of the structure; the table is what tells whether *)
(* it is one.  Every os_ call is a step of its own.                        *)
(***************************************************************************)
EXTENDS Naturals, FiniteSets

CONSTANTS
  Thd,            \* addresses of structures
  App,            \* application tasks
  PTHREAD_MAX,    \* slots of the table
  None,           \* not an address
  UsesExit,       \* threads may end by pthread_exit
  LateDetach      \* pthread_detach may come when the thread is about to end

VARIABLES
  mem,        \* structures that are allocated
  pthreads,   \* the table, a set of handles
  detach,     \* the structures whose detachstate is DETACHED
  sema,       \* per structure: join_sema
  task,       \* per structure: "none", "run", "post" or "ending" (in
              \* pthread_task_entry), "freeing", "ended"
  pc,         \* per application: "run", "create", "join", "down", "freeing"
  arg,        \* per application: the thread of its call
  handle      \* per application: the handles it may still use

vars == <<mem, pthreads, detach, sema, task, pc, arg, handle>>

Init ==
  /\ mem = {} /\ pthreads = {} /\ detach = {}
  /\ sema = [h \in Thd |-> 0]
  /\ task = [h \in Thd |-> "none"]
  /\ pc = [a \in App |-> "run"]
  /\ arg = [a \in App |-> None]
  /\ handle = [a \in App |-> {}]
-----------------------------------------------------------------------------
(***************************************************************************)
(* pthread_create                                                          *)
(***************************************************************************)
\* pthread_set: the table with h in the first free slot, if there is one.
pthread_set(h) ==
  IF Cardinality(pthreads) < PTHREAD_MAX THEN pthreads \cup {h} ELSE pthreads

\* The memory is there and the slot taken, or the call fails with -ESRCH.
Create(a, h, detached) ==
  /\ pc[a] = "run" /\ h \notin mem
  /\ pthreads' = pthread_set(h)
  /\ IF h \in pthread_set(h)
     THEN /\ mem' = mem \cup {h}
          /\ detach' = IF detached THEN detach \cup {h} ELSE detach \ {h}
          /\ sema' = [sema EXCEPT ![h] = 0]
          /\ pc' = [pc EXCEPT ![a] = "create"] /\ arg' = [arg EXCEPT ![a] = h]
     ELSE UNCHANGED <<mem, detach, sema, pc, arg>>
  /\ UNCHANGED <<task, handle>>

\* OS_TASK_INIT; the application gets the handle.  The handle of a detached
\* thread is of no use to it.
Start(a) ==
  LET h == arg[a]
  IN /\ pc[a] = "create"
     /\ task' = [task EXCEPT ![h] = "run"]
     /\ handle' = IF h \in detach THEN handle
                  ELSE [handle EXCEPT ![a] = @ \cup {h}]
     /\ pc' = [pc EXCEPT ![a] = "run"] /\ arg' = [arg EXCEPT ![a] = None]
     /\ UNCHANGED <<mem, pthreads, detach, sema>>
-----------------------------------------------------------------------------
(***************************************************************************)
(* pthread_task_entry and pthread_free                                     *)
(***************************************************************************)
\* The start routine returns and detachstate is looked at.
Return(h) ==
  /\ task[h] = "run"
  /\ task' = [task EXCEPT ![h] = IF h \in detach THEN "ending" ELSE "post"]
  /\ UNCHANGED <<mem, pthreads, detach, sema, pc, arg, handle>>

\* Mutated: a joinable thread ends without a word.
PostNothing(h) ==
  /\ task[h] = "post"
  /\ task' = [task EXCEPT ![h] = "ended"]
  /\ UNCHANGED <<mem, pthreads, detach, sema, pc, arg, handle>>

Post(h) ==
  /\ task[h] = "post"
  /\ sema' = [sema EXCEPT ![h] = @ + 1]
  /\ task' = [task EXCEPT ![h] = "ended"]
  /\ UNCHANGED <<mem, pthreads, detach, pc, arg, handle>>

\* pthread_del, by a thread that ends and by a join.
EndDel(h) ==
  /\ task[h] = "ending"
  /\ pthreads' = pthreads \ {h}
  /\ task' = [task EXCEPT ![h] = "freeing"]
  /\ UNCHANGED <<mem, detach, sema, pc, arg, handle>>

\* The rest of pthread_free; the task's own end is the kernel's.
EndFree(h) ==
  /\ task[h] = "freeing"
  /\ mem' = mem \ {h}
  /\ task' = [task EXCEPT ![h] = "none"]
  /\ UNCHANGED <<pthreads, detach, sema, pc, arg, handle>>

\* pthread_exit: os_task_del of the running task does not return, so the
\* structure is not freed and nobody is told.
Exit(h) ==
  /\ UsesExit /\ task[h] = "run"
  /\ task' = [task EXCEPT ![h] = "ended"]
  /\ UNCHANGED <<mem, pthreads, detach, sema, pc, arg, handle>>
-----------------------------------------------------------------------------
(***************************************************************************)
(* pthread_detach and pthread_join                                         *)
(***************************************************************************)
\* Without LateDetach a thread is detached before it comes near its end.
Detach(a, h) ==
  /\ pc[a] = "run" /\ h \in handle[a] /\ h \in pthreads
  /\ LateDetach \/ task[h] = "run"
  /\ detach' = detach \cup {h}
  /\ handle' = [handle EXCEPT ![a] = @ \ {h}]
  /\ UNCHANGED <<mem, pthreads, sema, task, pc, arg>>

\* pthread_get finds the handle and the thread is not detached.
Join(a, h) ==
  /\ pc[a] = "run" /\ h \in handle[a]
  /\ handle' = [handle EXCEPT ![a] = @ \ {h}]
  /\ IF h \in pthreads /\ h \notin detach
     THEN pc' = [pc EXCEPT ![a] = "down"] /\ arg' = [arg EXCEPT ![a] = h]
     ELSE UNCHANGED <<pc, arg>>
  /\ UNCHANGED <<mem, pthreads, detach, sema, task>>

\* os_sema_down
JoinDown(a) ==
  /\ pc[a] = "down" /\ sema[arg[a]] > 0
  /\ sema' = [sema EXCEPT ![arg[a]] = @ - 1]
  /\ pc' = [pc EXCEPT ![a] = "join"]
  /\ UNCHANGED <<mem, pthreads, detach, task, arg, handle>>

\* Mutated: the slot is not given back.
JoinKeepsSlot(a) ==
  /\ pc[a] = "join"
  /\ pc' = [pc EXCEPT ![a] = "freeing"]
  /\ UNCHANGED <<mem, pthreads, detach, sema, task, arg, handle>>

JoinDel(a) ==
  /\ pc[a] = "join"
  /\ pthreads' = pthreads \ {arg[a]}
  /\ pc' = [pc EXCEPT ![a] = "freeing"]
  /\ UNCHANGED <<mem, detach, sema, task, arg, handle>>

JoinFree(a) ==
  /\ pc[a] = "freeing"
  /\ mem' = mem \ {arg[a]}
  /\ task' = [task EXCEPT ![arg[a]] = "none"]
  /\ pc' = [pc EXCEPT ![a] = "run"] /\ arg' = [arg EXCEPT ![a] = None]
  /\ UNCHANGED <<pthreads, detach, sema, handle>>

ThreadStep(h) == Return(h) \/ Post(h) \/ EndDel(h) \/ EndFree(h)
AppStep(a) == Start(a) \/ JoinDown(a) \/ JoinDel(a) \/ JoinFree(a)

Next ==
  \/ \E h \in Thd : ThreadStep(h) \/ Exit(h)
  \/ \E a \in App :
       \/ AppStep(a)
       \/ \E h \in Thd :
            \/ \E detached \in BOOLEAN : Create(a, h, detached)
            \/ Detach(a, h) \/ Join(a, h)

\* Every task gets the processor, and start routines return.
Spec ==
  /\ Init /\ [][Next]_vars
  /\ \A h \in Thd : WF_vars(ThreadStep(h))
  /\ \A a \in App : WF_vars(AppStep(a))
-----------------------------------------------------------------------------
\* The variables have their types, and the table its size.
TypeOK ==
  /\ mem \subseteq Thd /\ pthreads \subseteq Thd /\ detach \subseteq Thd
  /\ Cardinality(pthreads) <= PTHREAD_MAX
  /\ sema \in [Thd -> 0..1]
  /\ task \in [Thd -> {"none", "run", "post", "ending", "freeing", "ended"}]
  /\ pc \in [App -> {"run", "create", "join", "down", "freeing"}]
  /\ arg \in [App -> Thd \cup {None}]
  /\ handle \in [App -> SUBSET Thd]

\* The table, which decides what a handle is worth, names only structures that
\* exist, and every structure in use by a thread that runs.
TableSound ==
  /\ pthreads \subseteq mem
  /\ \A h \in Thd : task[h] \in {"run", "post", "ending"} => h \in pthreads

\* A structure lives until its last user is done: the thread, its end, and a
\* join that waits for it or frees it; and only one of them frees it.
AliveWhileUsed ==
  /\ \A h \in Thd : task[h] # "none" => h \in mem
  /\ \A a \in App : pc[a] # "run" => arg[a] \in mem
  /\ \A a, b \in App : pc[a] # "run" /\ pc[b] # "run" /\ arg[a] = arg[b] => a = b
  /\ \A a \in App : pc[a] \in {"join", "freeing"} => task[arg[a]] \notin {"ending", "freeing"}

\* What holds of the structures however a thread ends (pthread_free).
StructuresSound == TypeOK /\ TableSound /\ AliveWhileUsed

\* A join returns only when the thread is past its start routine.
JoinAfterEnd ==
  \A a \in App : pc[a] \in {"join", "freeing"} => task[arg[a]] = "ended"

\* A join comes to an end.
JoinReturns == \A a \in App : pc[a] = "down" ~> pc[a] = "run"

\* The structure and the slot of a detached thread are given back.
DetachedReclaimed ==
  \A h \in Thd : h \in mem /\ h \in detach /\ task[h] # "none" ~> task[h] = "none"
=============================================================================
