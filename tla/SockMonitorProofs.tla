-------------------------- MODULE SockMonitorProofs --------------------------
(***************************************************************************)
(* Proofs about SockMonitor for any number of sockets and any interleaving *)
(* of the select task, the work item, its callbacks and other tasks, as    *)
(* long as, while a callback runs, nobody deletes a socket other than that *)
(* of the callback (Careful).                                              *)
(***************************************************************************)
EXTENDS SockMonitor, ListLemmas

\* A socket on the list is open, and is there once.
ListInv ==
  /\ \A e \in Live : entry[e].sock \in open
  /\ \A e, f \in Live : entry[e].sock = entry[f].sock => e = f

\* The entry to go on with is not the one whose callback runs.
CallbackInv == work = "cb" /\ mntr # NULL => entry[mntr].sock # cbsock

\* A select that does not fail has open sockets only, and reports the own socket
\* only if a datagram is there for the recvfrom of the work item.
SelectInv ==
  ~ClosesEarly /\ ~SemFails =>
    /\ task # "down" => fds \ {Own} \subseteq open
    /\ (queued \/ work # "idle") /\ Own \in fds => wakes > 0

SockInv == TypeOK /\ TakesTurns /\ WalkOnList /\ ListInv /\ CallbackInv /\ SelectInv
-----------------------------------------------------------------------------
\* The list: its entries have a place and a successor other than themselves.
LEMMA ListFacts ==
  ASSUME TypeOK
  PROVE  /\ IsList(entrys, Obj) /\ Live \subseteq Obj /\ NULL \notin Live
         /\ entrys # <<>> => Head(entrys) \in Live
         /\ \A e \in Live : /\ Place(e) \in 1..Len(entrys) /\ entrys[Place(e)] = e
                            /\ After(e) \in Live \cup {NULL} /\ After(e) # e
<1>1. IsList(entrys, Obj) /\ entrys \in Seq(Obj)
  BY DEF TypeOK, IsList
<1>2. /\ Live \subseteq Obj /\ NULL \notin Live /\ DOMAIN entrys = 1..Len(entrys)
      /\ Len(entrys) \in Nat /\ \A i \in 1..Len(entrys) : entrys[i] \in Live
      /\ \A e \in Live : \E i \in 1..Len(entrys) : entrys[i] = e
      /\ entrys # <<>> => Head(entrys) \in Live
  BY <1>1, InList, SockAssumption DEF Live
<1>3. ASSUME NEW e \in Live
      PROVE  Place(e) \in 1..Len(entrys) /\ entrys[Place(e)] = e
  BY <1>2 DEF Place
<1>4. ASSUME NEW e \in Live
      PROVE  After(e) \in Live \cup {NULL} /\ After(e) # e
  <2>1. CASE Place(e) = Len(entrys)
    BY <1>2, <2>1 DEF After
  <2>2. CASE Place(e) # Len(entrys)
    <3>1. Place(e) + 1 \in 1..Len(entrys) /\ Place(e) + 1 # Place(e)
      BY <1>2, <1>3, <2>2
    <3>2. After(e) = entrys[Place(e) + 1]
      BY <2>2 DEF After
    <3>3. entrys[Place(e) + 1] # entrys[Place(e)]
      BY <1>1, <1>2, <1>3, <3>1 DEF IsList, IsInjective
    <3>4. QED
      BY <1>2, <1>3, <3>1, <3>2, <3>3
  <2>3. QED
    BY <2>1, <2>2
<1>5. QED
  BY <1>1, <1>2, <1>3, <1>4

\* The entry of a socket on the list.
LEMMA EntryFacts ==
  ASSUME TypeOK, NEW s \in Monitored
  PROVE  EntryOf(s) \in Live /\ entry[EntryOf(s)].sock = s
BY DEF Monitored, EntryOf

\* sock_monitor_init
LEMMA InitInv == Init => SockInv
<1> SUFFICES ASSUME Init PROVE SockInv
  OBVIOUS
<1> USE SockAssumption DEF Init
<1>1. Live = {}
  BY InList, EmptySeq DEF Live
<1>2. IsInjective(entrys) /\ entrys \in Seq(Obj)
  BY EmptySeq DEF IsInjective
<1>3. TypeOK
  <2>1. NoEntry \in [sock : Sock \cup {NULL}, disable : BOOLEAN]
    BY DEF NoEntry
  <2>2. entry \in [Obj -> [sock : Sock \cup {NULL}, disable : BOOLEAN]]
    BY <2>1
  <2>3. run \in Nat /\ wakes \in 0..MaxWakes
    OBVIOUS
  <2>4. QED
    BY <1>2, <2>2, <2>3 DEF TypeOK
<1>4. TakesTurns /\ WalkOnList /\ ListInv /\ CallbackInv /\ SelectInv
  BY <1>1 DEF TakesTurns, WalkOnList, ListInv, CallbackInv, SelectInv
<1>5. QED
  BY <1>3, <1>4 DEF SockInv
-----------------------------------------------------------------------------
\* sock_monitor_task: the sets are built from open sockets, and the token goes
\* to select, from there back or on to the work item.
LEMMA TaskInv ==
  ASSUME SockInv, Task
  PROVE  SockInv'
<1> USE SockAssumption DEF SockInv, list, net, walk
<1>1. /\ UNCHANGED <<entrys, entry, open, ready, wakes, work, mntr, cbsock>>
      /\ Live' = Live
  BY DEF Task, TaskBuild, SelectReady, SelectWait, SelectNoSem, SelectClosed,
         SelectTimeout, RunWork, Live
<1>2. Happened \subseteq fds /\ (Own \in Happened => wakes > 0)
  BY DEF Happened, TypeOK
<1>3. Enabled \subseteq open
  BY DEF Enabled, ListInv
<1>4. TypeOK'
  <2>1. fds' \subseteq Sock \cup {Own}
    BY <1>2, <1>3 DEF Task, TaskBuild, SelectReady, SelectWait, SelectNoSem, SelectClosed,
         SelectTimeout, RunWork, TypeOK
  <2>2. run' \in Nat /\ task' \in {"down", "select", "wait"}
    BY DEF Task, TaskBuild, SelectReady, SelectWait, SelectNoSem, SelectClosed,
         SelectTimeout, RunWork, TypeOK
  <2>3. queued' = queued \/ queued' = TRUE
    BY DEF Task, TaskBuild, SelectReady, SelectWait, SelectNoSem, SelectClosed,
         SelectTimeout, RunWork
  <2>4. queued' \in BOOLEAN
    BY <2>3 DEF TypeOK
  <2>5. QED
    BY <1>1, <2>1, <2>2, <2>4 DEF TypeOK
<1>5. TakesTurns'
  BY <1>1 DEF Task, TaskBuild, SelectReady, SelectWait, SelectNoSem, SelectClosed,
         SelectTimeout, RunWork, TakesTurns, TypeOK
<1>6. SelectInv'
  <2>1. CASE TaskBuild
    <3>1. ~queued /\ work = "idle"
      BY <2>1 DEF TaskBuild, TakesTurns, TypeOK
    <3>2. QED
      BY <1>1, <1>3, <2>1, <3>1 DEF TaskBuild, SelectInv
  <2>2. CASE SelectReady
    BY <1>1, <1>2, <2>2 DEF SelectReady, RunWork, SelectInv
  <2>3. CASE SelectTimeout
    BY <1>1, <2>3 DEF SelectTimeout, SelectInv
  <2>4. CASE SelectNoSem \/ SelectClosed
    BY <1>1, <2>4 DEF SelectNoSem, SelectClosed, RunWork, AllOpen, SelectInv, TypeOK
  <2>5. CASE SelectWait
    BY <1>1, <2>5 DEF SelectWait, SelectInv
  <2>6. QED
    BY <2>1, <2>2, <2>3, <2>4, <2>5 DEF Task
<1>7. WalkOnList' /\ ListInv' /\ CallbackInv'
  BY <1>1 DEF WalkOnList, ListInv, CallbackInv
<1>8. QED
  BY <1>4, <1>5, <1>6, <1>7

\* sock_monitor_work: the walk goes from entry to entry and gives the token back.
LEMMA WorkInv ==
  ASSUME SockInv, Work
  PROVE  SockInv'
<1> USE SockAssumption DEF SockInv, list, net, walk
<1>1. UNCHANGED <<entrys, entry, open, fds, task>> /\ Live' = Live
  BY DEF Work, WorkStart, WorkCall, WorkPass, WorkReturn, WorkWalked, WorkEnd, Live
<1>2. /\ Live \subseteq Obj /\ NULL \notin Live
      /\ entrys # <<>> => Head(entrys) \in Live
      /\ \A e \in Live : After(e) \in Live \cup {NULL} /\ After(e) # e
  BY ListFacts
<1>3. WalkOnList' /\ mntr' \in Obj \cup {NULL}
  <2>1. CASE WorkStart
    BY <1>1, <1>2, <2>1 DEF WorkStart, WalkOnList
  <2>2. CASE WorkCall \/ WorkPass
    BY <1>1, <1>2, <2>2 DEF WorkCall, WorkPass, WalkOnList
  <2>3. CASE WorkReturn \/ WorkWalked \/ WorkEnd
    BY <1>1, <2>3 DEF WorkReturn, WorkWalked, WorkEnd, WalkOnList, TypeOK
  <2>4. QED
    BY <2>1, <2>2, <2>3 DEF Work
<1>4. CallbackInv'
  <2>1. CASE WorkCall
    BY <1>1, <1>2, <2>1 DEF WorkCall, CallbackInv, ListInv
  <2>2. CASE ~WorkCall
    BY <1>1, <2>2 DEF Work, WorkStart, WorkPass, WorkReturn, WorkWalked, WorkEnd, CallbackInv
  <2>3. QED
    BY <2>1, <2>2
<1>5. TypeOK'
  <2>1. ready' \subseteq open
    BY DEF Work, WorkStart, WorkCall, WorkPass, WorkReturn, WorkWalked, WorkEnd, TypeOK
  <2>2. wakes' \in 0..MaxWakes /\ run' \in Nat
    BY DEF Work, WorkStart, WorkCall, WorkPass, WorkReturn, WorkWalked, WorkEnd, TypeOK
  <2>3. queued' \in BOOLEAN /\ work' \in {"idle", "walk", "cb", "recv"}
    BY DEF Work, WorkStart, WorkCall, WorkPass, WorkReturn, WorkWalked, WorkEnd, TypeOK
  <2>4. cbsock' \in Sock \cup {NULL}
    BY <1>2 DEF Work, WorkStart, WorkCall, WorkPass, WorkReturn, WorkWalked, WorkEnd, TypeOK
  <2>5. QED
    BY <1>1, <1>3, <2>1, <2>2, <2>3, <2>4 DEF TypeOK
<1>6. TakesTurns'
  BY <1>1 DEF Work, WorkStart, WorkCall, WorkPass, WorkReturn, WorkWalked, WorkEnd,
              TakesTurns, TypeOK
<1>7. SelectInv'
  <2>1. CASE WorkEnd
    <3>1. ~queued
      BY <2>1 DEF WorkEnd, TakesTurns
    <3>2. QED
      BY <1>1, <2>1, <3>1 DEF WorkEnd, SelectInv
  <2>2. CASE ~WorkEnd
    BY <1>1, <2>2 DEF Work, WorkStart, WorkCall, WorkPass, WorkReturn, WorkWalked, SelectInv
  <2>3. QED
    BY <2>1, <2>2
<1>8. ListInv'
  BY <1>1 DEF ListInv
<1>9. QED
  BY <1>3, <1>4, <1>5, <1>6, <1>7, <1>8
-----------------------------------------------------------------------------
\* A datagram to itself never empties the mailbox.
LEMMA WakeFacts ==
  ASSUME TypeOK, Wake
  PROVE  wakes' \in 0..MaxWakes /\ (wakes > 0 => wakes' > 0)
BY SockAssumption DEF TypeOK, Wake

\* sock_monitor_add
LEMMA AddInv ==
  ASSUME SockInv, NEW s \in Sock,
         AddOld(s) \/ \E e \in Obj : AddNew(s, e)
  PROVE  SockInv'
<1> USE SockAssumption DEF SockInv, list, walk
<1>1. CASE AddOld(s)
  <2>1. /\ UNCHANGED <<entrys, entry, open, ready, fds, run, task, queued, work, mntr, cbsock>>
        /\ Live' = Live
    BY <1>1 DEF AddOld, Live
  <2>2. wakes' \in 0..MaxWakes /\ (wakes > 0 => wakes' > 0)
    BY <1>1, WakeFacts DEF AddOld
  <2>3. TypeOK'
    BY <2>1, <2>2 DEF TypeOK
  <2>4. SelectInv'
    BY <2>1, <2>2 DEF SelectInv
  <2>5. QED
    BY <2>1, <2>3, <2>4 DEF TakesTurns, WalkOnList, ListInv, CallbackInv
<1>2. ASSUME NEW e \in Obj, AddNew(s, e)
      PROVE  SockInv'
  <2>1. /\ UNCHANGED <<open, ready, fds, run, task, queued, work, mntr, cbsock>>
        /\ s \in open /\ s \notin Monitored /\ e \notin Live
        /\ entry' = [entry EXCEPT ![e] = [sock |-> s, disable |-> FALSE]]
        /\ entrys' = <<e>> \o entrys
    BY <1>2 DEF AddNew
  <2>2. wakes' \in 0..MaxWakes /\ (wakes > 0 => wakes' > 0)
    BY <1>2, WakeFacts DEF AddNew
  <2>3. IsList(entrys', Obj) /\ Live' = Live \cup {e}
    BY <2>1, ListFacts, Prepended DEF Live
  <2>4. /\ entry'[e].sock = s
        /\ \A f \in Live : entry'[f] = entry[f]
    BY <2>1, ListFacts DEF TypeOK
  <2>5. entry' \in [Obj -> [sock : Sock \cup {NULL}, disable : BOOLEAN]]
    BY <2>1 DEF TypeOK
  <2>6. TypeOK'
    BY <2>1, <2>2, <2>3, <2>5 DEF TypeOK, IsList
  <2>7. ListInv'
    BY <2>1, <2>3, <2>4 DEF ListInv, Monitored
  <2>8. WalkOnList' /\ CallbackInv'
    BY <2>1, <2>3, <2>4 DEF WalkOnList, CallbackInv
  <2>9. TakesTurns' /\ SelectInv'
    BY <2>1, <2>2 DEF TakesTurns, SelectInv
  <2>10. QED
    BY <2>6, <2>7, <2>8, <2>9
<1>3. QED
  BY <1>1, <1>2

\* sock_monitor_del: while a callback runs, the entry that goes is that of the
\* callback, and the walk goes on with another one.
LEMMA DelInv ==
  ASSUME SockInv, Careful, NEW s \in Sock, Del(s)
  PROVE  SockInv'
<1> USE SockAssumption DEF SockInv, list, net, walk
<1> DEFINE e == EntryOf(s)
<1>1. /\ UNCHANGED <<open, ready, wakes, fds, run, task, queued, work, mntr, cbsock>>
      /\ s \in Monitored /\ work # "walk" /\ (work = "cb" => s = cbsock)
      /\ entry' = [entry EXCEPT ![e] = NoEntry]
      /\ entrys' = RemoveAt(entrys, Place(e))
  BY DEF Del, Unlocked
<1>2. e \in Live /\ entry[e].sock = s
  BY <1>1, EntryFacts
<1> HIDE DEF e
<1>3. IsList(entrys', Obj) /\ Live' = Live \ {e}
  <2>1. Place(e) \in 1..Len(entrys) /\ entrys[Place(e)] = e /\ IsList(entrys, Obj)
    BY <1>2, ListFacts
  <2>2. QED
    BY <1>1, <2>1, Removed DEF Live
<1>4. \A f \in Live' : entry'[f] = entry[f]
  BY <1>1, <1>3, ListFacts DEF TypeOK
<1>5. entry' \in [Obj -> [sock : Sock \cup {NULL}, disable : BOOLEAN]]
  BY <1>1 DEF TypeOK, NoEntry
<1>6. TypeOK'
  BY <1>1, <1>3, <1>5 DEF TypeOK, IsList
<1>7. ListInv'
  BY <1>1, <1>3, <1>4 DEF ListInv
<1>8. work = "cb" => mntr # e
  BY <1>1, <1>2, ListFacts DEF CallbackInv
<1>9. WalkOnList' /\ CallbackInv'
  BY <1>1, <1>3, <1>4, <1>8 DEF WalkOnList, CallbackInv
<1>10. TakesTurns' /\ SelectInv'
  BY <1>1 DEF TakesTurns, SelectInv
<1>11. QED
  BY <1>6, <1>7, <1>9, <1>10

\* sock_monitor_disable
LEMMA DisableInv ==
  ASSUME SockInv, NEW s \in Sock, NEW d \in BOOLEAN, Disable(s, d)
  PROVE  SockInv'
<1> USE SockAssumption DEF SockInv, list, walk
<1>1. /\ UNCHANGED <<entrys, open, ready, fds, run, task, queued, work, mntr, cbsock>>
      /\ s \in Monitored /\ Live' = Live
      /\ entry' = [entry EXCEPT ![EntryOf(s)].disable = d]
  BY DEF Disable, Live
<1>2. wakes' \in 0..MaxWakes /\ (wakes > 0 => wakes' > 0)
  <2>1. wakes' = wakes \/ Wake
    BY DEF Disable
  <2>2. QED
    BY <2>1, WakeFacts DEF TypeOK
<1>3. /\ entry' \in [Obj -> [sock : Sock \cup {NULL}, disable : BOOLEAN]]
      /\ \A e \in Obj : entry'[e].sock = entry[e].sock
  <2>1. EntryOf(s) \in Obj
    BY <1>1, EntryFacts, ListFacts
  <2>2. QED
    BY <1>1, <2>1 DEF TypeOK
<1>4. TypeOK'
  BY <1>1, <1>2, <1>3 DEF TypeOK
<1>5. ListInv' /\ WalkOnList' /\ CallbackInv'
  BY <1>1, <1>3, ListFacts DEF ListInv, WalkOnList, CallbackInv, TypeOK
<1>6. TakesTurns' /\ SelectInv'
  BY <1>1, <1>2 DEF TakesTurns, SelectInv
<1>7. QED
  BY <1>4, <1>5, <1>6

\* Sockets are opened, get something to tell, and are closed when they are not
\* on the list.
LEMMA NetInv ==
  ASSUME SockInv, NEW s \in Sock, Open(s) \/ Close(s) \/ Arrives(s)
  PROVE  SockInv'
<1> USE SockAssumption DEF SockInv, list, walk
<1>1. /\ UNCHANGED <<entrys, entry, wakes, fds, run, task, queued, work, mntr, cbsock>>
      /\ Live' = Live
  BY DEF Open, Close, Arrives, Live
<1>2. TypeOK'
  BY <1>1 DEF Open, Close, Arrives, TypeOK
<1>3. ListInv'
  BY <1>1 DEF Open, Close, Arrives, ListInv, Monitored
<1>4. SelectInv'
  BY <1>1 DEF Open, Close, Arrives, SelectInv
<1>5. TakesTurns' /\ WalkOnList' /\ CallbackInv'
  BY <1>1 DEF TakesTurns, WalkOnList, CallbackInv
<1>6. QED
  BY <1>2, <1>3, <1>4, <1>5

\* Every step, or a stuttering step, preserves the invariant.
LEMMA NextInv ==
  ASSUME SockInv, Careful, [Next]_vars
  PROVE  SockInv'
<1>1. CASE UNCHANGED vars
  BY <1>1 DEF vars, SockInv, TypeOK, TakesTurns, WalkOnList, ListInv, CallbackInv,
              SelectInv, Live
<1>2. ASSUME NEW s \in Sock, Disable(s, TRUE) \/ Disable(s, FALSE)
      PROVE  SockInv'
  BY <1>2, DisableInv
<1>3. QED
  BY <1>1, <1>2, TaskInv, WorkInv, AddInv, DelInv, NetInv DEF Next

\* The inductive invariant holds throughout, if callbacks keep to the rule.
THEOREM Invariance ==
  ASSUME Careful
  PROVE  Spec => []SockInv
BY InitInv, NextInv, PTL DEF Spec

\* However callbacks, other tasks and select interleave, and whatever select
\* returns, sock_monitor_task and sock_monitor_work take turns at the descriptor
\* sets, and the entry the walk goes on with after a callback is still on the
\* list, if nobody deletes another socket than the callback's while it runs.
THEOREM TurnsAreTaken ==
  ASSUME Careful
  PROVE  Spec => []TurnsSound
<1>1. SockInv => TurnsSound
  BY DEF SockInv, TurnsSound
<1>2. QED
  BY <1>1, Invariance, PTL

\* If besides no socket is closed under lwip_select and it can make the semaphore
\* it waits for, the worker of sock_monitor_work never hangs in recvfrom: the own
\* socket is reported only with a datagram, which nobody else takes.
THEOREM MonitorIsSound ==
  ASSUME Careful, ~ClosesEarly, ~SemFails
  PROVE  Spec => []MonitorSound
<1>1. SockInv => MonitorSound
  BY DEF SockInv, TurnsSound, MonitorSound, NeverStuck, SelectInv
<1>2. QED
  BY <1>1, Invariance, PTL
=============================================================================
