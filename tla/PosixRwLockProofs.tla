------------------------- MODULE PosixRwLockProofs -------------------------
(***************************************************************************)
(* Proofs about PosixRwLock for any finite set of threads, with timeouts   *)
(* and attempts to destroy the lock, when the first call is made alone or  *)
(* after pthread_rwlock_init.                                              *)
(***************************************************************************)
EXTENDS PosixRwLock, FiniteSetTheorems, TLAPS

WaitingReaders == {t \in Thread : pc[t] \in InCond /\ call[t] \in ReadCalls}

\* Before the first call has initialized the lock nobody uses it.
FirstInv ==
  /\ \A t \in Thread : pc[t] = "init" => attr = -1
  /\ attr = -1 =>
       /\ rw_refcount = 0 /\ rw_nwaitreaders = 0 /\ rw_nwaitwriters = 0
       /\ \A t \in Thread : mode[t] = "none" /\ pc[t] \in {"idle", "init"}
       /\ \A t, u \in Thread : pc[t] = "init" /\ pc[u] = "init" => t = u

\* A thread locks what it does not hold, unlocks what it holds, and sleeps only
\* in a call that may wait.
CallInv ==
  \A t \in Thread :
    /\ pc[t] # "idle" /\ call[t] \in LockCalls => mode[t] = "none"
    /\ pc[t] # "idle" /\ call[t] = "unlock" => mode[t] # "none"
    /\ pc[t] \in InCond => call[t] \in LockCalls

\* The lock's counts of waiting threads are right between two sections.
CountInv ==
  /\ rw_nwaitreaders = Cardinality(WaitingReaders)
  /\ rw_nwaitwriters = Cardinality(WaitingWriters)

RwInv == TypeOK /\ FirstInv /\ CallInv /\ CountInv /\ RefcountMeans
-----------------------------------------------------------------------------
\* What a set of threads counts after one thread joins or leaves it.
LEMMA CountStep ==
  ASSUME NEW S \in SUBSET Thread, NEW t \in Thread
  PROVE  /\ Cardinality(S) \in Nat
         /\ Cardinality(S) = 0 => S = {}
         /\ t \in S => Cardinality(S) > 0
         /\ Cardinality(S \cup {t}) = IF t \in S THEN Cardinality(S)
                                                 ELSE Cardinality(S) + 1
         /\ Cardinality(S \ {t}) = IF t \in S THEN Cardinality(S) - 1
                                              ELSE Cardinality(S)
<1>1. IsFiniteSet(S)
  BY RwLockAssumption, FS_Subset
<1>2. Cardinality(S) \in Nat
  BY <1>1, FS_CardinalityType
<1>3. Cardinality(S) = 0 <=> S = {}
  BY <1>1, FS_EmptySet
<1>4. Cardinality(S \cup {t}) = IF t \in S THEN Cardinality(S)
                                          ELSE Cardinality(S) + 1
  BY <1>1, FS_AddElement
<1>5. Cardinality(S \ {t}) = IF t \in S THEN Cardinality(S) - 1
                                       ELSE Cardinality(S)
  BY <1>1, FS_RemoveElement
<1>6. t \in S => Cardinality(S) > 0
  BY <1>2, <1>3
<1>7. QED
  BY <1>2, <1>3, <1>4, <1>5, <1>6

\* A lock that is initialized, or statically so, satisfies the invariant.
LEMMA InitInv == Init => RwInv
<1> SUFFICES ASSUME Init PROVE RwInv
  OBVIOUS
<1>1. TypeOK
  BY DEF Init, TypeOK, Places, LockCalls
<1>2. FirstInv /\ CallInv
  BY DEF Init, FirstInv, CallInv, LockCalls, ReadCalls, WriteCalls, InCond
<1>3. WaitingReaders = {} /\ WaitingWriters = {} /\ Readers = {} /\ Writers = {}
  BY DEF Init, WaitingReaders, WaitingWriters, Readers, Writers, InCond
<1>4. CountInv /\ RefcountMeans
  BY <1>3, FS_EmptySet DEF Init, CountInv, RefcountMeans
<1>5. QED
  BY <1>1, <1>2, <1>4 DEF RwInv
-----------------------------------------------------------------------------
\* Starting a call changes neither the lock nor who holds it or waits for it.
LEMMA EnterInv ==
  ASSUME RwInv, ~InitRaces, NEW t \in Thread,
         NEW c \in LockCalls \cup {"unlock", "destroy"}, Enter(t, c)
  PROVE  RwInv'
<1> USE DEF RwInv, Enter, lock
<1>1. TypeOK'
  BY DEF TypeOK, Places
<1>2. FirstInv'
  BY DEF FirstInv, TypeOK, MayEnter
<1>3. CallInv'
  BY DEF CallInv, TypeOK, MayCall, InCond, LockCalls, ReadCalls, WriteCalls
<1>4. /\ WaitingReaders' = WaitingReaders /\ WaitingWriters' = WaitingWriters
      /\ Readers' = Readers /\ Writers' = Writers
  BY DEF WaitingReaders, WaitingWriters, Readers, Writers, TypeOK, InCond
<1>5. CountInv' /\ RefcountMeans'
  BY <1>4 DEF CountInv, RefcountMeans
<1>6. QED
  BY <1>1, <1>2, <1>3, <1>5

\* pthread_rwlock_init from the first call finds an unused lock.
LEMMA LazyInitInv ==
  ASSUME RwInv, NEW t \in Thread, RwlockInit(t)
  PROVE  RwInv'
<1> USE DEF RwInv, RwlockInit
<1>1. /\ attr = -1
      /\ \A u \in Thread : u # t => pc[u] = "idle"
      /\ pc' = [pc EXCEPT ![t] = "lock"]
  BY DEF FirstInv, TypeOK
<1>2. TypeOK'
  BY <1>1 DEF TypeOK, Places
<1>3. FirstInv' /\ CallInv'
  BY <1>1 DEF FirstInv, CallInv, TypeOK, InCond
<1>4. /\ WaitingReaders' = WaitingReaders /\ WaitingWriters' = WaitingWriters
      /\ Readers' = Readers /\ Writers' = Writers
  BY <1>1 DEF WaitingReaders, WaitingWriters, Readers, Writers, TypeOK, InCond
<1>5. CountInv' /\ RefcountMeans'
  BY <1>1, <1>4 DEF CountInv, RefcountMeans, FirstInv
<1>6. QED
  BY <1>2, <1>3, <1>5
-----------------------------------------------------------------------------
\* In a section of rw_mutex the lock has been initialized.
LEMMA SectionInit ==
  ASSUME RwInv, NEW t \in Thread, pc[t] \notin {"idle", "init"}
  PROVE  attr # -1
BY DEF RwInv, FirstInv

\* A read lock is granted.
LEMMA RdLockInv ==
  ASSUME RwInv, NEW t \in Thread, RdLock(t)
  PROVE  RwInv'
<1> USE DEF RwInv, RdLock, InSection, Returns
<1>1. mode[t] = "none" /\ attr # -1 /\ rw_refcount \in Nat
  BY SectionInit DEF CallInv, LockCalls, TypeOK, ReaderMustWait
<1>2. /\ WaitingReaders' = WaitingReaders \ {t}
      /\ WaitingWriters' = WaitingWriters
      /\ t \in WaitingReaders <=> pc[t] # "lock"
  BY DEF WaitingReaders, WaitingWriters, TypeOK, InCond, ReadCalls, WriteCalls
<1>3. Readers' = Readers \cup {t} /\ t \notin Readers /\ Writers' = Writers
  BY <1>1 DEF Readers, Writers, TypeOK
<1>4. /\ WaitingReaders \in SUBSET Thread
      /\ Readers \in SUBSET Thread
  BY DEF WaitingReaders, Readers
<1>5. rw_nwaitreaders' = Cardinality(WaitingReaders \ {t}) /\ rw_nwaitreaders' \in Nat
  <2>1. /\ Cardinality(WaitingReaders) \in Nat
        /\ t \in WaitingReaders => Cardinality(WaitingReaders) > 0
        /\ Cardinality(WaitingReaders \ {t}) =
             IF t \in WaitingReaders THEN Cardinality(WaitingReaders) - 1 ELSE Cardinality(WaitingReaders)
    BY <1>4, CountStep
  <2>2. QED
    BY <1>2, <2>1 DEF CountInv, Less
<1>6. CountInv'
  BY <1>2, <1>5 DEF CountInv
<1>7. RefcountMeans'
  <2>1. Cardinality(Readers \cup {t}) = Cardinality(Readers) + 1
    BY <1>3, <1>4, CountStep
  <2>2. QED
    BY <1>1, <1>3, <2>1 DEF RefcountMeans
<1>8. TypeOK'
  BY <1>1, <1>5 DEF TypeOK, Places
<1>9. FirstInv' /\ CallInv'
  BY <1>1 DEF FirstInv, CallInv, TypeOK, InCond
<1>10. QED
  BY <1>6, <1>7, <1>8, <1>9

\* A reader goes to sleep, for the first time or again.
LEMMA RdWaitInv ==
  ASSUME RwInv, NEW t \in Thread, RdWait(t)
  PROVE  RwInv'
<1> USE DEF RwInv, RdWait, InSection, Sleeps
<1>1. attr # -1 /\ call[t] \in ReadCalls
  BY SectionInit
<1>2. /\ WaitingReaders' = WaitingReaders \cup {t}
      /\ WaitingWriters' = WaitingWriters
      /\ t \in WaitingReaders <=> pc[t] # "lock"
      /\ Readers' = Readers /\ Writers' = Writers
  BY <1>1 DEF WaitingReaders, WaitingWriters, Readers, Writers, TypeOK, InCond,
              ReadCalls, WriteCalls
<1>3. WaitingReaders \in SUBSET Thread
  BY DEF WaitingReaders
<1>4. rw_nwaitreaders' = Cardinality(WaitingReaders \cup {t}) /\ rw_nwaitreaders' \in Nat
  <2>1. /\ Cardinality(WaitingReaders) \in Nat
        /\ t \in WaitingReaders => Cardinality(WaitingReaders) > 0
        /\ Cardinality(WaitingReaders \cup {t}) =
             IF t \in WaitingReaders THEN Cardinality(WaitingReaders) ELSE Cardinality(WaitingReaders) + 1
    BY <1>3, CountStep
  <2>2. QED
    BY <1>2, <2>1 DEF CountInv, Less
<1>5. CountInv' /\ RefcountMeans'
  BY <1>2, <1>4 DEF CountInv, RefcountMeans
<1>6. TypeOK'
  BY <1>4 DEF TypeOK, Places, InCond
<1>7. FirstInv' /\ CallInv'
  BY <1>1 DEF FirstInv, CallInv, TypeOK, InCond, LockCalls
<1>8. QED
  BY <1>5, <1>6, <1>7

\* A reader whose wait timed out leaves.
LEMMA RdTimedOutInv ==
  ASSUME RwInv, NEW t \in Thread, RdTimedOut(t)
  PROVE  RwInv'
<1> USE DEF RwInv, RdTimedOut, InSection, Returns
<1>1. attr # -1
  BY SectionInit
<1>2. /\ WaitingReaders' = WaitingReaders \ {t}
      /\ WaitingWriters' = WaitingWriters
      /\ t \in WaitingReaders
      /\ Readers' = Readers /\ Writers' = Writers
  BY DEF WaitingReaders, WaitingWriters, Readers, Writers, TypeOK, InCond,
         ReadCalls, WriteCalls
<1>3. WaitingReaders \in SUBSET Thread
  BY DEF WaitingReaders
<1>4. rw_nwaitreaders' = Cardinality(WaitingReaders \ {t}) /\ rw_nwaitreaders' \in Nat
  <2>1. /\ Cardinality(WaitingReaders) \in Nat /\ Cardinality(WaitingReaders) > 0
        /\ Cardinality(WaitingReaders \ {t}) = Cardinality(WaitingReaders) - 1
    BY <1>2, <1>3, CountStep
  <2>2. QED
    BY <2>1 DEF CountInv
<1>5. CountInv' /\ RefcountMeans'
  BY <1>2, <1>4 DEF CountInv, RefcountMeans
<1>6. TypeOK'
  BY <1>4 DEF TypeOK, Places
<1>7. FirstInv' /\ CallInv'
  BY <1>1 DEF FirstInv, CallInv, TypeOK, InCond
<1>8. QED
  BY <1>5, <1>6, <1>7
-----------------------------------------------------------------------------
\* The write lock is granted.
LEMMA WrLockInv ==
  ASSUME RwInv, NEW t \in Thread, WrLock(t)
  PROVE  RwInv'
<1> USE DEF RwInv, WrLock, InSection, Returns
<1>1. mode[t] = "none" /\ attr # -1 /\ rw_refcount = 0
  BY SectionInit DEF CallInv, LockCalls, TypeOK, WriterMustWait
<1>2. /\ WaitingWriters' = WaitingWriters \ {t}
      /\ WaitingReaders' = WaitingReaders
      /\ t \in WaitingWriters <=> pc[t] # "lock"
  BY DEF WaitingReaders, WaitingWriters, TypeOK, InCond, ReadCalls, WriteCalls
<1>3. /\ WaitingWriters \in SUBSET Thread
      /\ Readers \in SUBSET Thread
  BY DEF WaitingWriters, Readers
<1>4. Readers = {} /\ Writers = {}
  <2>1. Cardinality(Readers) = 0 => Readers = {}
    BY <1>3, CountStep
  <2>2. QED
    BY <1>1, <2>1 DEF RefcountMeans
<1>5. Readers' = {} /\ Writers' = {t}
  BY <1>4 DEF Readers, Writers, TypeOK
<1>6. rw_nwaitwriters' = Cardinality(WaitingWriters \ {t}) /\ rw_nwaitwriters' \in Nat
  <2>1. /\ Cardinality(WaitingWriters) \in Nat
        /\ t \in WaitingWriters => Cardinality(WaitingWriters) > 0
        /\ Cardinality(WaitingWriters \ {t}) =
             IF t \in WaitingWriters THEN Cardinality(WaitingWriters) - 1 ELSE Cardinality(WaitingWriters)
    BY <1>3, CountStep
  <2>2. QED
    BY <1>2, <2>1 DEF CountInv, Less
<1>7. CountInv'
  BY <1>2, <1>6 DEF CountInv
<1>8. RefcountMeans'
  BY <1>5 DEF RefcountMeans
<1>9. TypeOK'
  BY <1>6 DEF TypeOK, Places
<1>10. FirstInv' /\ CallInv'
  BY <1>1 DEF FirstInv, CallInv, TypeOK, InCond
<1>11. QED
  BY <1>7, <1>8, <1>9, <1>10

\* A writer goes to sleep, for the first time or again.
LEMMA WrWaitInv ==
  ASSUME RwInv, NEW t \in Thread, WrWait(t)
  PROVE  RwInv'
<1> USE DEF RwInv, WrWait, InSection, Sleeps
<1>1. attr # -1 /\ call[t] \in WriteCalls
  BY SectionInit
<1>2. /\ WaitingWriters' = WaitingWriters \cup {t}
      /\ WaitingReaders' = WaitingReaders
      /\ t \in WaitingWriters <=> pc[t] # "lock"
      /\ Readers' = Readers /\ Writers' = Writers
  BY <1>1 DEF WaitingReaders, WaitingWriters, Readers, Writers, TypeOK, InCond,
              ReadCalls, WriteCalls
<1>3. WaitingWriters \in SUBSET Thread
  BY DEF WaitingWriters
<1>4. rw_nwaitwriters' = Cardinality(WaitingWriters \cup {t}) /\ rw_nwaitwriters' \in Nat
  <2>1. /\ Cardinality(WaitingWriters) \in Nat
        /\ t \in WaitingWriters => Cardinality(WaitingWriters) > 0
        /\ Cardinality(WaitingWriters \cup {t}) =
             IF t \in WaitingWriters THEN Cardinality(WaitingWriters) ELSE Cardinality(WaitingWriters) + 1
    BY <1>3, CountStep
  <2>2. QED
    BY <1>2, <2>1 DEF CountInv, Less
<1>5. CountInv' /\ RefcountMeans'
  BY <1>2, <1>4 DEF CountInv, RefcountMeans
<1>6. TypeOK'
  BY <1>4 DEF TypeOK, Places, InCond
<1>7. FirstInv' /\ CallInv'
  BY <1>1 DEF FirstInv, CallInv, TypeOK, InCond, LockCalls
<1>8. QED
  BY <1>5, <1>6, <1>7

\* A writer whose wait timed out leaves.
LEMMA WrTimedOutInv ==
  ASSUME RwInv, NEW t \in Thread, WrTimedOut(t)
  PROVE  RwInv'
<1> USE DEF RwInv, WrTimedOut, InSection, Returns
<1>1. attr # -1
  BY SectionInit
<1>2. /\ WaitingWriters' = WaitingWriters \ {t}
      /\ WaitingReaders' = WaitingReaders
      /\ t \in WaitingWriters
      /\ Readers' = Readers /\ Writers' = Writers
  BY DEF WaitingReaders, WaitingWriters, Readers, Writers, TypeOK, InCond,
         ReadCalls, WriteCalls
<1>3. WaitingWriters \in SUBSET Thread
  BY DEF WaitingWriters
<1>4. rw_nwaitwriters' = Cardinality(WaitingWriters \ {t}) /\ rw_nwaitwriters' \in Nat
  <2>1. /\ Cardinality(WaitingWriters) \in Nat /\ Cardinality(WaitingWriters) > 0
        /\ Cardinality(WaitingWriters \ {t}) = Cardinality(WaitingWriters) - 1
    BY <1>2, <1>3, CountStep
  <2>2. QED
    BY <2>1 DEF CountInv
<1>5. CountInv' /\ RefcountMeans'
  BY <1>2, <1>4 DEF CountInv, RefcountMeans
<1>6. TypeOK'
  BY <1>4 DEF TypeOK, Places
<1>7. FirstInv' /\ CallInv'
  BY <1>1 DEF FirstInv, CallInv, TypeOK, InCond
<1>8. QED
  BY <1>5, <1>6, <1>7
-----------------------------------------------------------------------------
\* A try call that fails, and a wait that expires, change no count.
LEMMA LeaveInv ==
  ASSUME RwInv, NEW t \in Thread, TryFails(t) \/ Timeout(t)
  PROVE  RwInv'
<1> USE DEF RwInv, TryFails, Timeout, InSection, Returns, lock
<1>1. attr # -1
  BY SectionInit
<1>2. TypeOK'
  BY DEF TypeOK, Places, InCond
<1>3. FirstInv' /\ CallInv'
  BY <1>1 DEF FirstInv, CallInv, TypeOK, InCond
<1>4. /\ WaitingReaders' = WaitingReaders /\ WaitingWriters' = WaitingWriters
      /\ Readers' = Readers /\ Writers' = Writers
  BY DEF WaitingReaders, WaitingWriters, Readers, Writers, TypeOK, InCond
<1>5. CountInv' /\ RefcountMeans'
  BY <1>4 DEF CountInv, RefcountMeans
<1>6. QED
  BY <1>2, <1>3, <1>5

\* pthread_rwlock_unlock wakes sleepers only: a woken thread still waits.
LEMMA WakeMoves ==
  ASSUME TypeOK, NEW t \in Thread, NEW n, Wake(t, n)
  PROVE  /\ pc' \in [Thread -> Places]
         /\ pc'[t] = "idle" \/ pc[t] = "wait"
         /\ \A u \in Thread : u # t =>
              pc'[u] = pc[u] \/ (pc[u] = "wait" /\ pc'[u] = "woken")
         /\ UNCHANGED <<call, calls>>
<1> USE DEF TypeOK, Places, InCond, Asleep, Returns
<1>1. CASE Returns(t)
  BY <1>1
<1>2. CASE SignalWriter(t)
  BY <1>2 DEF SignalWriter
<1>3. CASE BroadcastReaders(t)
  BY <1>3 DEF BroadcastReaders
<1>4. QED
  BY <1>1, <1>2, <1>3 DEF Wake

\* The lock is released, by a reader or by the writer.
LEMMA UnlockInv ==
  ASSUME RwInv, NEW t \in Thread, Unlock(t)
  PROVE  RwInv'
<1> USE DEF RwInv, Unlock, UnlockAnd, InSection
<1>1. attr # -1 /\ mode[t] # "none"
  BY SectionInit DEF CallInv
<1>2. /\ pc' \in [Thread -> Places]
      /\ pc'[t] = "idle"
      /\ \A u \in Thread : u # t =>
           pc'[u] = pc[u] \/ (pc[u] = "wait" /\ pc'[u] = "woken")
      /\ UNCHANGED <<call, calls>>
  BY WakeMoves
<1>3. TypeOK'
  <2>1. rw_refcount' \in Nat
    BY DEF TypeOK
  <2>2. mode' \in [Thread -> {"none", "read", "write"}]
    BY DEF TypeOK
  <2>3. QED
    BY <1>2, <2>1, <2>2 DEF TypeOK
<1>4. FirstInv' /\ CallInv'
  BY <1>1, <1>2 DEF FirstInv, CallInv, TypeOK, InCond
<1>5. WaitingReaders' = WaitingReaders /\ WaitingWriters' = WaitingWriters
  BY <1>2 DEF WaitingReaders, WaitingWriters, TypeOK, InCond
<1>6. Readers \in SUBSET Thread
  BY DEF Readers
<1>7. RefcountMeans'
  <2>1. CASE rw_refcount = -1
    <3>1. Readers' = {} /\ Writers' = {}
      BY <2>1, <1>1 DEF RefcountMeans, Readers, Writers, TypeOK
    <3>2. QED
      BY <2>1, <3>1, FS_EmptySet DEF RefcountMeans
  <2>2. CASE rw_refcount # -1
    <3>1. rw_refcount \in Nat /\ t \in Readers /\ Writers = {}
      BY <2>2, <1>1 DEF RefcountMeans, Readers, Writers, TypeOK
    <3>2. Readers' = Readers \ {t} /\ Writers' = {}
      BY <3>1 DEF Readers, Writers, TypeOK
    <3>3. QED
      BY <3>1, <3>2, <1>6, CountStep DEF RefcountMeans
  <2>3. QED
    BY <2>1, <2>2
<1>8. CountInv'
  BY <1>5 DEF CountInv
<1>9. QED
  BY <1>3, <1>4, <1>7, <1>8

\* An attempt to destroy the lock leaves its counts alone.
LEMMA DestroyInv ==
  ASSUME RwInv, NEW t \in Thread, Destroy(t)
  PROVE  RwInv'
<1> USE DEF RwInv, Destroy, InSection, Returns
<1>1. attr # -1 /\ attr' # -1
  BY SectionInit
<1>2. TypeOK'
  BY DEF TypeOK, Places
<1>3. FirstInv' /\ CallInv'
  BY <1>1 DEF FirstInv, CallInv, TypeOK, InCond
<1>4. /\ WaitingReaders' = WaitingReaders /\ WaitingWriters' = WaitingWriters
      /\ Readers' = Readers /\ Writers' = Writers
  BY DEF WaitingReaders, WaitingWriters, Readers, Writers, TypeOK, InCond
<1>5. CountInv' /\ RefcountMeans'
  BY <1>4 DEF CountInv, RefcountMeans
<1>6. QED
  BY <1>2, <1>3, <1>5
-----------------------------------------------------------------------------
\* Every step of every thread preserves the invariant.
LEMMA NextInv ==
  ASSUME RwInv, ~InitRaces, [Next]_vars
  PROVE  RwInv'
<1>1. CASE UNCHANGED vars
  BY <1>1 DEF vars, RwInv, TypeOK, FirstInv, CallInv, CountInv, RefcountMeans,
              WaitingReaders, WaitingWriters, Readers, Writers
<1>2. CASE Next
  <2>1. PICK t \in Thread :
          \/ \E c \in LockCalls \cup {"unlock", "destroy"} : Enter(t, c)
          \/ Step(t)
          \/ Timeout(t)
    BY <1>2 DEF Next
  <2>2. CASE \E c \in LockCalls \cup {"unlock", "destroy"} : Enter(t, c)
    BY <2>2, EnterInv
  <2>3. CASE Step(t)
    BY <2>3, LazyInitInv, RdLockInv, RdWaitInv, RdTimedOutInv, WrLockInv,
       WrWaitInv, WrTimedOutInv, LeaveInv, UnlockInv, DestroyInv DEF Step
  <2>4. CASE Timeout(t)
    BY <2>4, LeaveInv
  <2>5. QED
    BY <2>1, <2>2, <2>3, <2>4
<1>3. QED
  BY <1>1, <1>2

\* The inductive invariant holds in every reachable state.
LEMMA Invariance ==
  ASSUME ~InitRaces
  PROVE  Spec => []RwInv
<1>1. Init => RwInv
  BY InitInv
<1>2. RwInv /\ [Next]_vars => RwInv'
  BY NextInv
<1>3. QED
  BY <1>1, <1>2, PTL DEF Spec

\* The counts of sleeping threads in the lock never go below zero, and the
\* other variables keep their types.
THEOREM TypeCorrect ==
  ASSUME ~InitRaces
  PROVE  Spec => []TypeOK
<1>1. RwInv => TypeOK
  BY DEF RwInv
<1>2. QED
  BY <1>1, Invariance, PTL

\* rw_refcount means what the comment in pthread.h says, so that a writer
\* excludes everybody else.
THEOREM RefcountIsRight ==
  ASSUME ~InitRaces
  PROVE  Spec => []RefcountMeans
<1>1. RwInv => RefcountMeans
  BY DEF RwInv
<1>2. QED
  BY <1>1, Invariance, PTL

\* The steps that grant or release the lock; all others leave mode alone.
LEMMA ModeSteps ==
  ASSUME TypeOK, [Next]_vars, mode' # mode
  PROVE  \E t \in Thread : RdLock(t) \/ WrLock(t) \/ Unlock(t)
BY DEF Next, Step, vars, lock, Enter, RwlockInit, RdWait, RdTimedOut, WrWait,
       WrTimedOut, TryFails, Destroy, Timeout

\* A step that changes who holds the lock is one a read-write lock allows.
LEMMA StepSimulation ==
  ASSUME RwInv, [Next]_vars
  PROVE  [Abstract!Next]_mode
<1> SUFFICES ASSUME mode' # mode PROVE Abstract!Next
  OBVIOUS
<1>1. PICK t \in Thread : RdLock(t) \/ WrLock(t) \/ Unlock(t)
  BY ModeSteps DEF RwInv
<1> USE DEF RwInv, InSection, Abstract!Next
<1>2. CASE RdLock(t)
  <2>1. mode[t] = "none" /\ rw_refcount >= 0
    BY <1>2 DEF RdLock, CallInv, LockCalls, ReaderMustWait, TypeOK
  <2>2. \A u \in Thread : mode[u] # "write"
    BY <2>1 DEF RefcountMeans, Writers
  <2>3. Abstract!AcquireRead(t)
    BY <1>2, <2>1, <2>2 DEF RdLock, Abstract!AcquireRead
  <2>4. QED
    BY <2>3
<1>3. CASE WrLock(t)
  <2>1. rw_refcount = 0 /\ Readers \in SUBSET Thread
    BY <1>3 DEF WrLock, WriterMustWait, Readers
  <2>2. Readers = {} /\ Writers = {}
    <3>1. Cardinality(Readers) = 0 => Readers = {}
      BY <2>1, CountStep
    <3>2. QED
      BY <2>1, <3>1 DEF RefcountMeans
  <2>3. \A u \in Thread : mode[u] = "none"
    BY <2>2 DEF Readers, Writers, TypeOK
  <2>4. Abstract!AcquireWrite(t)
    BY <1>3, <2>3 DEF WrLock, Abstract!AcquireWrite
  <2>5. QED
    BY <2>4
<1>4. CASE Unlock(t)
  <2>1. mode[t] # "none"
    BY <1>4 DEF Unlock, UnlockAnd, CallInv
  <2>2. Abstract!Release(t)
    BY <1>4, <2>1 DEF Unlock, UnlockAnd, Abstract!Release
  <2>3. QED
    BY <2>2
<1>5. QED
  BY <1>1, <1>2, <1>3, <1>4

\* pthread_rwlock.c implements the read-write lock of module RwLock.
THEOREM Implementation ==
  ASSUME ~InitRaces
  PROVE  Spec => ImplementsRwLock
<1>1. Init => Abstract!Init
  BY DEF Init, Abstract!Init
<1>2. RwInv /\ [Next]_vars => [Abstract!Next]_mode
  BY StepSimulation
<1>3. QED
  BY <1>1, <1>2, Invariance, PTL DEF Spec, ImplementsRwLock, Abstract!Spec

\* pthread_rwlock_rdlock and its variants never overtake a writer that waits.
THEOREM WritersGoFirst ==
  ASSUME ~InitRaces
  PROVE  Spec => WritersFirst
<1>1. RwInv /\ [Next]_vars =>
        [\A t \in Thread :
           mode[t] # "read" /\ mode'[t] = "read" => WaitingWriters = {}]_vars
  <2> SUFFICES ASSUME RwInv, [Next]_vars, NEW t \in Thread,
                      mode[t] # "read", mode'[t] = "read"
               PROVE  WaitingWriters = {}
    OBVIOUS
  <2>1. PICK u \in Thread : RdLock(u) \/ WrLock(u) \/ Unlock(u)
    BY ModeSteps DEF RwInv
  <2>2. RdLock(u)
    BY <2>1 DEF RwInv, TypeOK, WrLock, Unlock, UnlockAnd
  <2>3. Cardinality(WaitingWriters) = 0
    BY <2>2 DEF RdLock, ReaderMustWait, RwInv, CountInv, TypeOK
  <2>4. WaitingWriters \in SUBSET Thread
    BY DEF WaitingWriters
  <2>5. QED
    BY <2>3, <2>4, CountStep
<1>2. QED
  BY <1>1, Invariance, PTL DEF Spec, WritersFirst
-----------------------------------------------------------------------------
\* Without timeouts a thread leaves a condition variable only by being woken.
UntimedInv ==
  \A t \in Thread : pc[t] \notin {"lost", "expired"} /\ call[t] \notin TimedCalls

\* A free lock that writers wait for has a woken writer, and readers sleep only
\* because of a writer.
WakeInv ==
  /\ rw_refcount = 0 /\ WaitingWriters # {} =>
       \E u \in WaitingWriters : pc[u] = "woken"
  /\ Asleep(ReadCalls) # {} => Writers # {} \/ WaitingWriters # {}

\* The initial state has no sleepers.
LEMMA WakeInit == Init => UntimedInv /\ WakeInv
BY DEF Init, UntimedInv, WakeInv, TimedCalls, WaitingWriters, Asleep, InCond

\* No step without a timeout leads to an expired or a lost wait.
LEMMA UntimedStep ==
  ASSUME RwInv, ~InitRaces, ~Timed, UntimedInv, [Next]_vars
  PROVE  UntimedInv'
<1> USE DEF UntimedInv, RwInv
<1>1. CASE UNCHANGED vars
  BY <1>1 DEF vars
<1>2. ASSUME NEW t \in Thread, NEW c \in LockCalls \cup {"unlock", "destroy"},
             Enter(t, c)
      PROVE  UntimedInv'
  BY <1>2 DEF Enter, MayCall, TypeOK
<1>3. ASSUME NEW t \in Thread, RwlockInit(t)
      PROVE  UntimedInv'
  BY <1>3 DEF RwlockInit, FirstInv, TypeOK
<1>4. ASSUME NEW t \in Thread, Unlock(t)
      PROVE  UntimedInv'
  BY <1>4, WakeMoves DEF Unlock, UnlockAnd, InSection
<1>5. ASSUME NEW t \in Thread, Step(t), ~RwlockInit(t), ~Unlock(t)
      PROVE  UntimedInv'
  BY <1>5 DEF Step, RdLock, RdWait, RdTimedOut, WrLock, WrWait, WrTimedOut,
              TryFails, Destroy, Returns, Sleeps, TypeOK
<1>6. ASSUME NEW t \in Thread, Timeout(t)
      PROVE  FALSE
  BY <1>6 DEF Timeout
<1>7. QED
  BY <1>1, <1>2, <1>3, <1>4, <1>5, <1>6 DEF Next

\* What the counts tell about who waits.
LEMMA CountsTell ==
  ASSUME RwInv
  PROVE  /\ rw_nwaitwriters > 0 <=> WaitingWriters # {}
         /\ rw_nwaitreaders > 0 <=> WaitingReaders # {}
         /\ rw_refcount < 0 => Writers # {}
<1>1. WaitingWriters \in SUBSET Thread /\ WaitingReaders \in SUBSET Thread
  BY DEF WaitingWriters, WaitingReaders
<1>2. ASSUME NEW S \in SUBSET Thread
      PROVE  Cardinality(S) \in Nat /\ (Cardinality(S) > 0 <=> S # {})
  <2>1. IsFiniteSet(S)
    BY RwLockAssumption, FS_Subset
  <2>2. QED
    BY <2>1, FS_EmptySet, FS_CardinalityType
<1>3. rw_nwaitwriters > 0 <=> WaitingWriters # {}
  BY <1>1, <1>2 DEF RwInv, CountInv
<1>4. rw_nwaitreaders > 0 <=> WaitingReaders # {}
  BY <1>1, <1>2 DEF RwInv, CountInv
<1>5. rw_refcount < 0 => Writers # {}
  BY DEF RwInv, TypeOK, RefcountMeans
<1>6. QED
  BY <1>3, <1>4, <1>5

\* pthread_rwlock_unlock wakes a writer, or all readers, or nobody sleeps.
LEMMA UnlockWakes ==
  ASSUME RwInv, UntimedInv, WakeInv, NEW t \in Thread, Unlock(t)
  PROVE  WakeInv'
<1> DEFINE n == IF rw_refcount > 0 THEN rw_refcount - 1 ELSE 0
<1> USE DEF RwInv, Unlock, UnlockAnd, InSection
<1>1. /\ pc'[t] = "idle"
      /\ \A u \in Thread : u # t =>
           pc'[u] = pc[u] \/ (pc[u] = "wait" /\ pc'[u] = "woken")
      /\ UNCHANGED call
      /\ rw_refcount' = n
  BY WakeMoves
<1>2. WaitingWriters' = WaitingWriters /\ Asleep(ReadCalls)' \subseteq Asleep(ReadCalls)
  BY <1>1 DEF WaitingWriters, InCond, Asleep
<1>3. CASE rw_nwaitwriters > 0
  <2>1. PICK w \in WaitingWriters : TRUE
    BY <1>3, CountsTell
  <2>2. w \in Thread /\ w # t /\ pc[w] \in {"wait", "woken"} /\ call[w] \in WriteCalls
    BY <2>1 DEF WaitingWriters, InCond, UntimedInv
  <2>3. n = 0 => \E u \in WaitingWriters : pc'[u] = "woken"
    <3>1. CASE Asleep(WriteCalls) = {}
      BY <3>1, <2>1, <2>2, <1>1 DEF Asleep
    <3>2. CASE n = 0 /\ Asleep(WriteCalls) # {}
      <4>1. SignalWriter(t)
        BY <3>2, <1>3 DEF Wake
      <4>2. PICK u \in Asleep(WriteCalls) :
              pc' = [pc EXCEPT ![t] = "idle", ![u] = "woken"]
        BY <4>1, <3>2 DEF SignalWriter
      <4>3. u \in WaitingWriters /\ pc'[u] = "woken"
        BY <4>2 DEF Asleep, WaitingWriters, InCond, TypeOK
      <4>4. QED
        BY <4>3
    <3>3. QED
      BY <3>1, <3>2
  <2>4. QED
    BY <1>1, <1>2, <2>1, <2>3 DEF WakeInv
<1>4. CASE ~(rw_nwaitwriters > 0)
  <2>1. WaitingWriters' = {}
    BY <1>2, <1>4, CountsTell
  <2>2. CASE rw_nwaitreaders > 0
    <3>1. BroadcastReaders(t)
      BY <1>4, <2>2 DEF Wake
    <3>2. Asleep(ReadCalls)' = {}
      BY <3>1 DEF BroadcastReaders, Asleep
    <3>3. QED
      BY <2>1, <3>2 DEF WakeInv
  <2>3. CASE ~(rw_nwaitreaders > 0)
    <3>1. Asleep(ReadCalls) = {}
      BY <2>3, CountsTell DEF Asleep, WaitingReaders, InCond
    <3>2. QED
      BY <2>1, <3>1, <1>2 DEF WakeInv
  <2>4. QED
    BY <2>2, <2>3
<1>5. QED
  BY <1>3, <1>4

\* Every step keeps a woken writer beside a free lock that writers wait for.
LEMMA WakeStep ==
  ASSUME RwInv, ~InitRaces, ~Timed, UntimedInv, WakeInv, [Next]_vars
  PROVE  WakeInv'
<1> USE DEF RwInv
<1>1. CASE UNCHANGED vars
  BY <1>1 DEF vars, WakeInv, WaitingWriters, Writers, Asleep
<1>2. ASSUME NEW t \in Thread, NEW c \in LockCalls \cup {"unlock", "destroy"},
             Enter(t, c)
      PROVE  WakeInv'
  <2>1. /\ WaitingWriters' = WaitingWriters /\ Writers' = Writers
        /\ Asleep(ReadCalls)' = Asleep(ReadCalls)
        /\ \A u \in WaitingWriters : pc'[u] = pc[u]
    BY <1>2 DEF Enter, WaitingWriters, Writers, Asleep, InCond, TypeOK
  <2>2. QED
    BY <1>2, <2>1 DEF Enter, lock, WakeInv
<1>3. ASSUME NEW t \in Thread, RwlockInit(t)
      PROVE  WakeInv'
  <2>1. \A u \in Thread : u # t => pc[u] = "idle" /\ pc'[u] = "idle"
    BY <1>3 DEF RwlockInit, FirstInv, TypeOK
  <2>2. WaitingWriters' = {} /\ Asleep(ReadCalls)' = {}
    BY <1>3, <2>1 DEF RwlockInit, WaitingWriters, Asleep, InCond, TypeOK
  <2>3. QED
    BY <2>2 DEF WakeInv
<1>4. ASSUME NEW t \in Thread, RdLock(t)
      PROVE  WakeInv'
  <2>1. rw_refcount' # 0 /\ WaitingWriters = {}
    BY <1>4, CountsTell DEF RdLock, ReaderMustWait, TypeOK
  <2>2. /\ Asleep(ReadCalls)' \subseteq Asleep(ReadCalls)
        /\ Writers' = Writers
    BY <1>4 DEF RdLock, Returns, Asleep, Writers, TypeOK, InSection, CallInv,
                LockCalls
  <2>3. QED
    BY <2>1, <2>2, <1>4, CountsTell DEF WakeInv, RdLock, ReaderMustWait
<1>5. ASSUME NEW t \in Thread, RdWait(t)
      PROVE  WakeInv'
  <2>1. /\ WaitingWriters' = WaitingWriters /\ Writers' = Writers
        /\ \A u \in WaitingWriters : pc'[u] = pc[u]
    BY <1>5 DEF RdWait, Sleeps, WaitingWriters, Writers, TypeOK, ReadCalls,
                WriteCalls, TryCalls
  <2>2. Writers # {} \/ WaitingWriters # {}
    BY <1>5, CountsTell DEF RdWait, ReaderMustWait
  <2>3. QED
    BY <1>5, <2>1, <2>2 DEF WakeInv, RdWait
<1>6. ASSUME NEW t \in Thread, WrLock(t)
      PROVE  WakeInv'
  <2>1. rw_refcount' # 0 /\ t \in Writers'
    BY <1>6 DEF WrLock, Writers, TypeOK
  <2>2. QED
    BY <2>1 DEF WakeInv
<1>7. ASSUME NEW t \in Thread, WrWait(t)
      PROVE  WakeInv'
  <2>1. rw_refcount' # 0 /\ t \in WaitingWriters'
    BY <1>7 DEF WrWait, WriterMustWait, Sleeps, WaitingWriters, InCond, TypeOK
  <2>2. QED
    BY <2>1 DEF WakeInv
<1>8. ASSUME NEW t \in Thread, TryFails(t) \/ Destroy(t)
      PROVE  WakeInv'
  <2>1. /\ WaitingWriters' = WaitingWriters /\ Writers' = Writers
        /\ Asleep(ReadCalls)' = Asleep(ReadCalls)
        /\ \A u \in WaitingWriters : pc'[u] = pc[u]
        /\ rw_refcount' = rw_refcount
    BY <1>8 DEF TryFails, Destroy, Returns, InSection, lock, WaitingWriters,
                Writers, Asleep, InCond, TypeOK
  <2>2. QED
    BY <2>1 DEF WakeInv
<1>9. ASSUME NEW t \in Thread, RdTimedOut(t) \/ WrTimedOut(t) \/ Timeout(t)
      PROVE  FALSE
  BY <1>9 DEF RdTimedOut, WrTimedOut, Timeout, InSection, UntimedInv
<1>10. QED
  BY <1>1, <1>2, <1>3, <1>4, <1>5, <1>6, <1>7, <1>8, <1>9, UnlockWakes
     DEF Next, Step

\* Without timeouts no wake-up is lost: whoever sleeps in a call of
\* pthread_rwlock.c has a cause to.
THEOREM NoLostWakeup ==
  ASSUME ~InitRaces, ~Timed
  PROVE  Spec => []SleepersHaveCause
<1>1. RwInv /\ UntimedInv /\ WakeInv => SleepersHaveCause
  BY DEF WakeInv, SleepersHaveCause, Asleep, WaitingWriters, InCond
<1>2. Init => UntimedInv /\ WakeInv
  BY WakeInit
<1>3. RwInv /\ UntimedInv /\ WakeInv /\ [Next]_vars => UntimedInv' /\ WakeInv'
  BY UntimedStep, WakeStep
<1>4. QED
  BY <1>1, <1>2, <1>3, Invariance, PTL DEF Spec
=============================================================================
