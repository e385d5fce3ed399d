------------------------------- MODULE RwLock -------------------------------
(***************************************************************************)
(* What a read-write lock promises its users: any number of readers, or    *)
(* one writer.  The comment on rw_refcount in include/lib/posix/pthread.h  *)
(* states it: unlocked, locked by a writer, or locked by n readers.        *)
(***************************************************************************)
CONSTANT Thread

VARIABLE mode    \* how each thread holds the lock: "none", "read", "write"

Init == mode = [t \in Thread |-> "none"]

AcquireRead(t) ==
  /\ mode[t] = "none"
  /\ \A u \in Thread : mode[u] # "write"
  /\ mode' = [mode EXCEPT ![t] = "read"]

AcquireWrite(t) ==
  /\ \A u \in Thread : mode[u] = "none"
  /\ mode' = [mode EXCEPT ![t] = "write"]

Release(t) ==
  /\ mode[t] # "none"
  /\ mode' = [mode EXCEPT ![t] = "none"]

Next == \E t \in Thread : AcquireRead(t) \/ AcquireWrite(t) \/ Release(t)

Spec == Init /\ [][Next]_mode
=============================================================================
