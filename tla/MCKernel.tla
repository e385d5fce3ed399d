------------------------------ MODULE MCKernel ------------------------------
(***************************************************************************)
(* Model checking of RhinoKernel: eight programs, each of which uses some  *)
(* of the system calls.                                                    *)
(***************************************************************************)
EXTENDS RhinoKernel, TLC

CONSTANTS t1, t2, t3

Distinct == t1 :> 1 @@ t2 :> 2 @@ t3 :> 3
Shared == t1 :> 1 @@ t2 :> 2 @@ t3 :> 2

\* Locks, and priorities that change.
Changing == [calls |-> {"mutex", "prio"}, isr_calls |-> {}, prio |-> Distinct,
             nest |-> 1, suspend |-> 0]

\* Locks that nest.
Nesting == [Changing EXCEPT !.calls = {"mutex", "sleep"}, !.nest = 2]

\* Mutexes with timeouts.
Locking == [Changing EXCEPT !.calls = {"mutex", "timed", "sleep"}]

\* Tasks that are suspended, deleted and created again while they hold mutexes.
\* A second lock of a deleted task's mutex is in MCRhinoKernel.
Deleting == [Changing EXCEPT !.calls = {"mutex", "suspend", "del", "create"}, !.suspend = 1]

\* Mutexes that are deleted, and their owners.
Removing == [Changing EXCEPT !.calls = {"mutex", "mutex_del", "del", "create"}]

\* A semaphore in tasks and in interrupts; two of the tasks take turns.
Giving ==
  [calls |-> {"timed", "sem", "yield", "lock", "sem_set", "sem_del"},
   isr_calls |-> {"sem"}, prio |-> Shared, nest |-> 0, suspend |-> 0]

\* The same with tasks that are suspended while they wait, with timeouts, or twice.
Suspending == [Giving EXCEPT !.calls = {"timed", "sem", "suspend"},
                             !.isr_calls = {"sem", "suspend"}, !.suspend = 1]
Again == [Suspending EXCEPT !.calls = {"sem", "suspend"}, !.suspend = 2]

Programs == {Changing, Nesting, Locking, Deleting, Removing, Giving, Suspending, Again}

MutexSymmetry == Permutations(Mutex)
=============================================================================
