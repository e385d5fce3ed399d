------------------------------ MODULE MCPosix -------------------------------
(***************************************************************************)
(* Model checking of the POSIX layer: read-write locks, threads and        *)
(* message queues share nothing, so the behaviours are those of one of     *)
(* them, and the variables of the others keep their initial values.        *)
(***************************************************************************)
EXTENDS PosixRwLock

VARIABLES
  part,       \* the part in use, and how
  tattr, refcount, nwaitreaders, nwaitwriters, mutex, lock_pc, tcall, tcalls, tmode,
  mem, pthreads, detach, sema, task, thread_pc, arg, handle,
  mq_list, state, msgq, mq_pc, mq, val, heap, sent

\* The cfg is a lock that is taken without timeouts; this one is also taken
\* with them, and threads try to destroy it.
Timing == INSTANCE PosixRwLock WITH
  Timed <- TRUE, Destroys <- TRUE, attr <- tattr, rw_refcount <- refcount,
  rw_nwaitreaders <- nwaitreaders, rw_nwaitwriters <- nwaitwriters,
  rw_mutex <- mutex, pc <- lock_pc, call <- tcall, calls <- tcalls, mode <- tmode

\* Threads that return and are joined, or detached in time ...
Joined == INSTANCE PosixThread WITH
  Thd <- {"h1", "h2", "h3"}, App <- {"a1", "a2", "a3"}, PTHREAD_MAX <- 2,
  UsesExit <- FALSE, LateDetach <- FALSE, pc <- thread_pc

\* ... and threads that call pthread_exit or are detached when they end.
Leaky == INSTANCE PosixThread WITH
  Thd <- {"h1", "h2", "h3"}, App <- {"a1", "a2", "a3"}, PTHREAD_MAX <- 2,
  UsesExit <- TRUE, LateDetach <- TRUE, pc <- thread_pc

\* One open at a time, and unlinked only what nobody has open.
Mqueue == INSTANCE PosixMq WITH
  Thread <- {"a", "b", "c"}, Mq <- {"q", "r"}, mq_msgsize <- 2, MaxSend <- 4,
  Together <- FALSE, pc <- mq_pc

timed == <<tattr, refcount, nwaitreaders, nwaitwriters, mutex, lock_pc, tcall, tcalls, tmode>>
thread == <<mem, pthreads, detach, sema, task, thread_pc, arg, handle>>
mqueue == <<mq_list, state, msgq, mq_pc, mq, val, heap, sent>>

PosixInit ==
  /\ part \in {"lock", "timed lock", "joined", "leaky", "mqueue"}
  /\ Init /\ Timing!Init /\ Joined!Init /\ Mqueue!Init
  /\ (part = "lock" \/ attr = 0) /\ (part = "timed lock" \/ tattr = 0)

PosixNext ==
  /\ UNCHANGED part
  /\ \/ part = "lock" /\ Next /\ UNCHANGED <<timed, thread, mqueue>>
     \/ part = "timed lock" /\ Timing!Next /\ UNCHANGED <<vars, thread, mqueue>>
     \/ part = "joined" /\ Joined!Next /\ UNCHANGED <<vars, timed, mqueue>>
     \/ part = "leaky" /\ Leaky!Next /\ UNCHANGED <<vars, timed, mqueue>>
     \/ part = "mqueue" /\ Mqueue!Next /\ UNCHANGED <<vars, timed, thread>>

\* The fairness of PosixRwLock and PosixThread, for the part in use.
PosixSpec ==
  /\ PosixInit /\ [][PosixNext]_<<part, vars, timed, thread, mqueue>>
  /\ \A t \in Thread : /\ WF_vars(part = "lock" /\ Step(t))
                       /\ WF_vars(part = "lock" /\ Enter(t, "unlock"))
  /\ \A h \in {"h1", "h2", "h3"} : WF_thread(part = "joined" /\ Joined!ThreadStep(h))
  /\ \A a \in {"a1", "a2", "a3"} : WF_thread(part = "joined" /\ Joined!AppStep(a))
-----------------------------------------------------------------------------
\* With timeouts and threads that try to destroy it, the lock still keeps readers
\* and writers apart, counts its holders and lets a waiting writer go first
\* (pthread_rwlock.c).
TimedLockSound ==
  /\ []Timing!RefcountMeans
  /\ Timing!ImplementsRwLock /\ Timing!WritersFirst

\* The table of threads and their structures stay consistent in any order of
\* return, join and detach, pthread_exit and late detach included; a join that
\* goes on has seen the end of its thread (pthread.c).
ThreadsSound ==
  /\ part = "joined" => Joined!StructuresSound /\ Joined!JoinAfterEnd
  /\ part = "leaky" => Leaky!StructuresSound

\* Without timeouts every call on the lock returns; a join returns, and what a
\* detached thread occupied is given back.
CallsEnd ==
  /\ part = "lock" => CallsReturn
  /\ part = "joined" => Joined!JoinReturns /\ Joined!DetachedReclaimed

\* The message memory of mqueue.c has one owner, and a name one queue.
MqueueSound == part = "mqueue" => Mqueue!TypeOK /\ Mqueue!MessagesOwned /\ Mqueue!OneQueuePerName
=============================================================================
