---------------------------- MODULE PosixRwLock ----------------------------
(***************************************************************************)
(* The read-write lock of the POSIX layer (sdk/lib/posix/pthread_rwlock.c) *)
(* on a mutex and two condition variables.                                 *)
(*                                                                         *)
(* A call checks attr, locks rw_mutex, and then runs under rw_mutex until  *)
(* it returns or sleeps on a condition variable.  That stretch is one      *)
(* action, so rw_mutex is free between actions except where the code       *)
(* returns without unlocking it.                                           *)
(***************************************************************************)
EXTENDS Integers, FiniteSets

CONSTANTS
  Thread,
  None,
  MaxCalls,   \* bound: lock calls a thread makes
  Timed,      \* the threads use the calls with a timeout too
  Destroys,   \* a thread may try to destroy the lock
  InitRaces   \* several threads may make the first call at the same time

ASSUME RwLockAssumption ==
  /\ IsFiniteSet(Thread)
  /\ None \notin Thread
  /\ MaxCalls \in Nat
  /\ Timed \in BOOLEAN /\ Destroys \in BOOLEAN /\ InitRaces \in BOOLEAN

VARIABLES
  attr,             \* -1: not initialized yet; 0: initialized; 1: destroyed
  rw_refcount,
  rw_nwaitreaders,
  rw_nwaitwriters,
  rw_mutex,         \* the thread that left rw_mutex locked, or None
  pc,               \* where each thread is in its call
  call,             \* the call it is in
  calls,            \* lock calls it made
  mode              \* how it holds the lock, by what its calls returned

vars == <<attr, rw_refcount, rw_nwaitreaders, rw_nwaitwriters, rw_mutex, pc,
          call, calls, mode>>

lock == <<attr, rw_refcount, rw_nwaitreaders, rw_nwaitwriters, rw_mutex>>

ReadCalls == {"rdlock", "tryrdlock", "timedrdlock"}
WriteCalls == {"wrlock", "trywrlock", "timedwrlock"}
TryCalls == {"tryrdlock", "trywrlock"}
TimedCalls == {"timedrdlock", "timedwrlock"}
LockCalls == ReadCalls \cup WriteCalls

\* "init": found attr = -1; "lock": about to lock rw_mutex; "wait": asleep on
\* the condition variable of its call; "lost": asleep on one that was replaced;
\* "woken" and "expired": left it, by a signal or by the timeout, and wants
\* rw_mutex back.
InCond == {"wait", "lost", "woken", "expired"}
Places == {"idle", "init", "lock"} \cup InCond

\* PTHREAD_RWLOCK_INITIALIZER, or the state after pthread_rwlock_init.
Init ==
  /\ attr \in {-1, 0}
  /\ rw_refcount = 0
  /\ rw_nwaitreaders = 0
  /\ rw_nwaitwriters = 0
  /\ rw_mutex = None
  /\ pc = [t \in Thread |-> "idle"]
  /\ call = [t \in Thread |-> "unlock"]
  /\ calls = [t \in Thread |-> 0]
  /\ mode = [t \in Thread |-> "none"]
-----------------------------------------------------------------------------
\* The calls the application may make: it locks what it does not hold and
\* unlocks what it holds, and does not touch a lock it destroyed.
MayCall(t, c) ==
  /\ c \in LockCalls => mode[t] = "none" /\ calls[t] < MaxCalls
  /\ c \in TimedCalls => Timed
  /\ c = "unlock" => mode[t] # "none"
  /\ c = "destroy" => /\ Destroys /\ mode[t] = "none" /\ attr = 0
                      /\ \A u \in Thread : pc[u] # "lock"

\* While a thread destroys the lock nobody starts a call, and unless InitRaces
\* the first call is made alone.
MayEnter ==
  /\ attr # 1
  /\ \A u \in Thread : call[u] = "destroy" => pc[u] = "idle"
  /\ attr = -1 /\ ~InitRaces => \A u \in Thread : pc[u] = "idle"

\* The check of attr at the head of every call.
Enter(t, c) ==
  /\ pc[t] = "idle"
  /\ MayEnter
  /\ MayCall(t, c)
  /\ pc' = [pc EXCEPT ![t] = IF attr = -1 THEN "init" ELSE "lock"]
  /\ call' = [call EXCEPT ![t] = c]
  /\ calls' = IF c \in LockCalls THEN [calls EXCEPT ![t] = @ + 1] ELSE calls
  /\ UNCHANGED <<lock, mode>>

\* pthread_rwlock_init from within a call.  The threads that sleep on the old
\* condition variables are lost; rw_mutex is a new mutex.
RwlockInit(t) ==
  /\ pc[t] = "init"
  /\ attr' = 0
  /\ rw_refcount' = 0
  /\ rw_nwaitreaders' = 0
  /\ rw_nwaitwriters' = 0
  /\ rw_mutex' = None
  /\ pc' = [u \in Thread |-> IF u = t THEN "lock"
                             ELSE IF pc[u] = "wait" THEN "lost" ELSE pc[u]]
  /\ UNCHANGED <<call, calls, mode>>

\* The thread gets rw_mutex, which is recursive.
InSection(t, places) == pc[t] \in places /\ rw_mutex \in {None, t}

\* The count after the decrement that follows a wait.
Less(t, n) == IF pc[t] = "lock" THEN n ELSE n - 1

\* The call returns.
Returns(t) == pc' = [pc EXCEPT ![t] = "idle"] /\ UNCHANGED <<call, calls>>
Sleeps(t) == pc' = [pc EXCEPT ![t] = "wait"] /\ UNCHANGED <<call, calls>>
-----------------------------------------------------------------------------
(***************************************************************************)
(* pthread_rwlock_rdlock, _tryrdlock, _timedrdlock.                        *)
(***************************************************************************)

\* Mutated: only the writer that holds the lock is looked at.
WriterHolds == rw_refcount < 0

\* Writers that wait go first.
ReaderMustWait == rw_refcount < 0 \/ rw_nwaitwriters > 0

RdLock(t) ==
  /\ InSection(t, {"lock", "woken"})
  /\ call[t] \in ReadCalls
  /\ ~ReaderMustWait
  /\ rw_refcount' = rw_refcount + 1
  /\ rw_nwaitreaders' = Less(t, rw_nwaitreaders)
  /\ mode' = [mode EXCEPT ![t] = "read"]
  /\ Returns(t)
  /\ UNCHANGED <<attr, rw_nwaitwriters, rw_mutex>>

RdWait(t) ==
  /\ InSection(t, {"lock", "woken"})
  /\ call[t] \in ReadCalls \ TryCalls
  /\ ReaderMustWait
  /\ rw_nwaitreaders' = Less(t, rw_nwaitreaders) + 1
  /\ Sleeps(t)
  /\ UNCHANGED <<attr, rw_refcount, rw_nwaitwriters, rw_mutex, mode>>

\* The wait ended in -ETIMEDOUT: the loop is left without another look.
RdTimedOut(t) ==
  /\ InSection(t, {"expired"})
  /\ call[t] \in ReadCalls
  /\ rw_nwaitreaders' = rw_nwaitreaders - 1
  /\ Returns(t)
  /\ UNCHANGED <<attr, rw_refcount, rw_nwaitwriters, rw_mutex, mode>>
-----------------------------------------------------------------------------
(***************************************************************************)
(* pthread_rwlock_wrlock, _trywrlock, _timedwrlock.                        *)
(***************************************************************************)

\* Mutated: readers are not looked at.
WriterMustWaitForWriter == rw_refcount < 0

WriterMustWait == rw_refcount # 0

WrLock(t) ==
  /\ InSection(t, {"lock", "woken"})
  /\ call[t] \in WriteCalls
  /\ ~WriterMustWait
  /\ rw_refcount' = -1
  /\ rw_nwaitwriters' = Less(t, rw_nwaitwriters)
  /\ mode' = [mode EXCEPT ![t] = "write"]
  /\ Returns(t)
  /\ UNCHANGED <<attr, rw_nwaitreaders, rw_mutex>>

WrWait(t) ==
  /\ InSection(t, {"lock", "woken"})
  /\ call[t] \in WriteCalls \ TryCalls
  /\ WriterMustWait
  /\ rw_nwaitwriters' = Less(t, rw_nwaitwriters) + 1
  /\ Sleeps(t)
  /\ UNCHANGED <<attr, rw_refcount, rw_nwaitreaders, rw_mutex, mode>>

\* Mutated: a writer that gives up takes the others off the count too.
WrTimedOutAll(t) ==
  /\ InSection(t, {"expired"})
  /\ call[t] \in WriteCalls
  /\ rw_nwaitwriters' = 0
  /\ Returns(t)
  /\ UNCHANGED <<attr, rw_refcount, rw_nwaitreaders, rw_mutex, mode>>

WrTimedOut(t) ==
  /\ InSection(t, {"expired"})
  /\ call[t] \in WriteCalls
  /\ rw_nwaitwriters' = rw_nwaitwriters - 1
  /\ Returns(t)
  /\ UNCHANGED <<attr, rw_refcount, rw_nwaitreaders, rw_mutex, mode>>

\* A try call that finds the lock taken: -EBUSY.
TryFails(t) ==
  /\ InSection(t, {"lock"})
  /\ \/ call[t] = "tryrdlock" /\ ReaderMustWait
     \/ call[t] = "trywrlock" /\ WriterMustWait
  /\ Returns(t)
  /\ UNCHANGED <<lock, mode>>
-----------------------------------------------------------------------------
(***************************************************************************)
(* pthread_rwlock_unlock, pthread_rwlock_destroy and the condition         *)
(* variables.                                                              *)
(***************************************************************************)
Asleep(kinds) == {u \in Thread : pc[u] = "wait" /\ call[u] \in kinds}

\* pthread_cond_signal wakes one sleeper, if there is one, ...
SignalWriter(t) ==
  IF Asleep(WriteCalls) = {} THEN Returns(t)
  ELSE \E u \in Asleep(WriteCalls) :
         /\ pc' = [pc EXCEPT ![t] = "idle", ![u] = "woken"]
         /\ UNCHANGED <<call, calls>>

\* ... and pthread_cond_broadcast all of them.
BroadcastReaders(t) ==
  /\ pc' = [u \in Thread |-> IF u = t THEN "idle"
                             ELSE IF u \in Asleep(ReadCalls) THEN "woken"
                             ELSE pc[u]]
  /\ UNCHANGED <<call, calls>>

\* Mutated: nobody wakes readers.
WakeNoReaders(t, refcount) ==
  IF rw_nwaitwriters > 0 /\ refcount = 0 THEN SignalWriter(t) ELSE Returns(t)

\* Mutated: readers are woken first.
WakeReadersFirst(t, refcount) ==
  IF rw_nwaitreaders > 0 THEN BroadcastReaders(t)
  ELSE IF rw_nwaitwriters > 0 /\ refcount = 0 THEN SignalWriter(t)
  ELSE Returns(t)

\* Who is woken when the lock has the new reference count.
Wake(t, refcount) ==
  IF rw_nwaitwriters > 0
    THEN IF refcount = 0 THEN SignalWriter(t) ELSE Returns(t)
  ELSE IF rw_nwaitreaders > 0 THEN BroadcastReaders(t)
  ELSE Returns(t)

UnlockAnd(t, refcount) ==
  /\ InSection(t, {"lock"})
  /\ call[t] = "unlock"
  /\ rw_refcount' = refcount
  /\ mode' = [mode EXCEPT ![t] = "none"]
  /\ Wake(t, refcount)
  /\ UNCHANGED <<attr, rw_nwaitreaders, rw_nwaitwriters, rw_mutex>>

\* Mutated: any unlock frees the lock.
UnlockAll(t) == UnlockAnd(t, 0)

Unlock(t) ==
  UnlockAnd(t, IF rw_refcount > 0 THEN rw_refcount - 1 ELSE 0)

\* A lock in use is not destroyed: -EBUSY, and rw_mutex stays locked.
Destroy(t) ==
  /\ InSection(t, {"lock"})
  /\ call[t] = "destroy"
  /\ IF rw_refcount # 0 \/ rw_nwaitreaders # 0 \/ rw_nwaitwriters # 0
       THEN rw_mutex' = t /\ UNCHANGED attr
       ELSE attr' = 1 /\ UNCHANGED rw_mutex
  /\ Returns(t)
  /\ UNCHANGED <<rw_refcount, rw_nwaitreaders, rw_nwaitwriters, mode>>

\* os_condv_wait gives up.
Timeout(t) ==
  /\ pc[t] \in {"wait", "lost"}
  /\ call[t] \in TimedCalls
  /\ pc' = [pc EXCEPT ![t] = "expired"]
  /\ UNCHANGED <<lock, call, calls, mode>>
-----------------------------------------------------------------------------
\* The thread runs inside a call.
Step(t) ==
  \/ RwlockInit(t)
  \/ RdLock(t) \/ RdWait(t) \/ RdTimedOut(t)
  \/ WrLock(t) \/ WrWait(t) \/ WrTimedOut(t)
  \/ TryFails(t) \/ Unlock(t) \/ Destroy(t)

Next ==
  \E t \in Thread :
    \/ \E c \in LockCalls \cup {"unlock", "destroy"} : Enter(t, c)
    \/ Step(t)
    \/ Timeout(t)

Spec == Init /\ [][Next]_vars

\* Every thread is scheduled, and unlocks what it locked.
Fairness == \A t \in Thread : WF_vars(Step(t)) /\ WF_vars(Enter(t, "unlock"))

FairSpec == Spec /\ Fairness
-----------------------------------------------------------------------------
(***************************************************************************)
(* Properties.                                                             *)
(***************************************************************************)

\* The variables have their types; the counts of sleepers are never negative.
TypeOK ==
  /\ attr \in {-1, 0, 1}
  /\ rw_refcount \in Nat \cup {-1}
  /\ rw_nwaitreaders \in Nat
  /\ rw_nwaitwriters \in Nat
  /\ rw_mutex \in Thread \cup {None}
  /\ pc \in [Thread -> Places]
  /\ call \in [Thread -> LockCalls \cup {"unlock", "destroy"}]
  /\ calls \in [Thread -> Nat]
  /\ mode \in [Thread -> {"none", "read", "write"}]

Readers == {t \in Thread : mode[t] = "read"}
Writers == {t \in Thread : mode[t] = "write"}

\* pthread.h: "0: unlocked, -1: locked by writer, > 0 locked by n readers", as
\* seen by the threads whose calls returned success.
RefcountMeans ==
  /\ rw_refcount >= 0 => Writers = {} /\ Cardinality(Readers) = rw_refcount
  /\ rw_refcount = -1 => Readers = {} /\ \E w \in Thread : Writers = {w}

\* The lock implements what a read-write lock promises.
Abstract == INSTANCE RwLock
ImplementsRwLock == Abstract!Spec

WaitingWriters == {t \in Thread : pc[t] \in InCond /\ call[t] \in WriteCalls}

\* "give preference to waiting writers": no reader gets the lock while a writer
\* waits for it, asleep or woken and not yet running.
WritersFirst ==
  [][\A t \in Thread :
       mode[t] # "read" /\ mode'[t] = "read" => WaitingWriters = {}]_vars

\* Nobody sleeps beside a lock it could have: a sleeping writer finds it held,
\* or a writer was woken to take it; a sleeping reader finds a writer, one that
\* holds the lock or one that waits for it.  (Without timeouts.)
SleepersHaveCause ==
  /\ Asleep(WriteCalls) # {} =>
       rw_refcount # 0 \/ \E u \in WaitingWriters : pc[u] = "woken"
  /\ Asleep(ReadCalls) # {} => Writers # {} \/ WaitingWriters # {}

\* Every call returns, if every thread unlocks what it locked and makes a
\* bounded number of calls.  (Without timeouts and failed destroys.)
CallsReturn == \A t \in Thread : pc[t] # "idle" ~> pc[t] = "idle"
=============================================================================
