----------------------------- MODULE SockMonitor -----------------------------
(***************************************************************************)
(* The socket monitor (net/skmonitor/skmonitor.c): a task waits in select  *)
(* for the sockets of a list, a work item walks the list and calls back,   *)
(* and the two take turns by the semaphore run.  The lock is given up      *)
(* around every callback.  A datagram to itself ends the wait early.       *)
(*                                                                         *)
(* The three descriptor sets are treated alike and reduced to one.  Select *)
(* is lwip_select (lwip/src/api/sockets.c): it scans the sockets, waits if *)
(* nothing has happened, and scans them again.  It gives -1 if a socket of *)
(* the sets was closed or it can make no semaphore, and then mostly leaves *)
(* the sets as they were, which sock_monitor_task takes for results.       *)
(***************************************************************************)
EXTENDS Integers, Sequences, SequencesExt

CONSTANTS
  Sock,         \* socket numbers
  Obj,          \* the memory of entries
  MaxWakes,     \* datagrams the mailbox of the own socket holds
  Careful,      \* while a callback runs only its own socket is deleted
  ClosesEarly,  \* sockets are closed while select has them
  SemFails      \* sys_sem_new may fail in lwip_select

VARIABLES
  entrys,   \* the list
  entry,    \* the entries
  open,     \* open sockets
  ready,    \* sockets that have something to tell
  wakes,    \* datagrams sent to the own socket
  fds,      \* the descriptor sets
  run,      \* the semaphore
  task,     \* the task: "down", or in lwip_select ("select", then "wait")
  queued,   \* the work item was handed to os_run_work
  work,     \* the work item: "idle", "walk" (holds the lock), "cb" or "recv"
  mntr,     \* its entry, or the one it goes on with
  cbsock    \* the socket of the callback

vars == <<entrys, entry, open, ready, wakes, fds, run, task, queued, work, mntr, cbsock>>
list == <<entrys, entry>>
net == <<open, ready, wakes>>
walk == <<queued, work, mntr, cbsock>>

NULL == "null"
Own == "own"     \* g_skmonitor.sock

ASSUME SockAssumption ==
  /\ NULL \notin Sock /\ Own \notin Sock /\ NULL \notin Obj
  /\ MaxWakes \in Nat /\ Careful \in BOOLEAN
  /\ ClosesEarly \in BOOLEAN /\ SemFails \in BOOLEAN

Live == ToSet(entrys)
Monitored == {entry[e].sock : e \in Live}
Enabled == {entry[e].sock : e \in {x \in Live : ~entry[x].disable}}
EntryOf(s) == CHOOSE e \in Live : entry[e].sock = s

\* Where e is on the list, and mntr->next: the one behind it.
Place(e) == CHOOSE k \in DOMAIN entrys : entrys[k] = e
After(e) == IF Place(e) = Len(entrys) THEN NULL ELSE entrys[Place(e) + 1]

NoEntry == [sock |-> NULL, disable |-> FALSE]

Init ==
  /\ entrys = <<>> /\ entry = [e \in Obj |-> NoEntry]
  /\ open = {} /\ ready = {} /\ wakes = 0
  /\ fds = {}
  /\ run = 1
  /\ task = "down"
  /\ queued = FALSE /\ work = "idle" /\ mntr = NULL /\ cbsock = NULL
-----------------------------------------------------------------------------
(***************************************************************************)
(* sock_monitor_task                                                       *)
(***************************************************************************)
TaskBuild ==
  /\ task = "down" /\ run > 0 /\ work # "walk"
  /\ run' = run - 1
  /\ fds' = Enabled \cup {Own}
  /\ task' = "select"
  /\ UNCHANGED <<list, net, walk>>

\* lwip_selscan: the sockets of the sets that have something to tell; it fails if
\* one of them was closed.
Happened == {s \in fds : s \in ready \/ (s = Own /\ wakes > 0)}
AllOpen == fds \ {Own} \subseteq open

\* select has returned something other than 0, with these sets.
RunWork(sets) ==
  /\ fds' = sets
  /\ queued' = TRUE
  /\ task' = "down"
  /\ UNCHANGED <<list, net, run, work, mntr, cbsock>>

\* lwip_select: something has happened, at the first scan or while it waited ...
SelectReady ==
  /\ task \in {"select", "wait"} /\ AllOpen /\ Happened # {}
  /\ RunWork(Happened)

\* ... or nothing has: it waits, if it can make a semaphore to wait for.
SelectWait ==
  /\ task = "select" /\ AllOpen /\ Happened = {}
  /\ task' = "wait"
  /\ UNCHANGED <<list, net, fds, run, walk>>

\* -1, with the sets as they were: no semaphore.
SelectNoSem ==
  /\ SemFails
  /\ task = "select" /\ AllOpen /\ Happened = {}
  /\ RunWork(fds)

\* -1 for a socket that was closed: before the wait is over with the sets as they
\* were, after it with what an earlier scan had found.
SelectClosed ==
  /\ task \in {"select", "wait"} /\ ~AllOpen
  /\ \E sets \in IF task = "select" THEN {fds} ELSE SUBSET fds : RunWork(sets)

\* Mutated: a timeout runs the work item too.
TimeoutRuns ==
  /\ task = "wait" /\ AllOpen
  /\ fds' = {}
  /\ run' = run + 1
  /\ queued' = TRUE
  /\ task' = "down"
  /\ UNCHANGED <<list, net, work, mntr, cbsock>>

\* The wait is over, and the sets are not scanned again.
SelectTimeout ==
  /\ task = "wait" /\ AllOpen
  /\ fds' = {}
  /\ run' = run + 1
  /\ task' = "down"
  /\ UNCHANGED <<list, net, walk>>

Task ==
  \/ TaskBuild \/ SelectReady \/ SelectWait \/ SelectNoSem \/ SelectClosed
  \/ SelectTimeout
-----------------------------------------------------------------------------
(***************************************************************************)
(* sock_monitor_work                                                       *)
(***************************************************************************)
WorkStart ==
  /\ queued /\ work = "idle"
  /\ queued' = FALSE
  /\ work' = "walk"
  /\ mntr' = IF entrys = <<>> THEN NULL ELSE Head(entrys)
  /\ UNCHANGED <<list, net, fds, run, task, cbsock>>

\* Mutated: the walk ends with the first callback.
CallLast ==
  /\ work = "walk" /\ mntr \in Live /\ entry[mntr].sock \in fds
  /\ cbsock' = entry[mntr].sock
  /\ mntr' = NULL
  /\ work' = "cb"
  /\ UNCHANGED <<list, net, fds, run, task, queued>>

\* The next entry is remembered, the lock given up, the callback called.
WorkCall ==
  /\ work = "walk" /\ mntr \in Live /\ entry[mntr].sock \in fds
  /\ cbsock' = entry[mntr].sock
  /\ mntr' = After(mntr)
  /\ work' = "cb"
  /\ UNCHANGED <<list, net, fds, run, task, queued>>

WorkPass ==
  /\ work = "walk" /\ mntr \in Live /\ entry[mntr].sock \notin fds
  /\ mntr' = After(mntr)
  /\ UNCHANGED <<list, net, fds, run, task, queued, work, cbsock>>

\* The callback returns; it may have read what its socket had.
WorkReturn ==
  /\ work = "cb"
  /\ ready' \in {ready, ready \ {cbsock}}
  /\ cbsock' = NULL
  /\ work' = "walk"
  /\ UNCHANGED <<list, open, wakes, fds, run, task, queued, mntr>>

WorkWalked ==
  /\ work = "walk" /\ mntr = NULL
  /\ work' = "recv"
  /\ UNCHANGED <<list, net, fds, run, task, queued, mntr, cbsock>>

\* recvfrom waits for a datagram if there is none.
WorkEnd ==
  /\ work = "recv"
  /\ IF Own \in fds THEN wakes > 0 /\ wakes' = wakes - 1 ELSE UNCHANGED wakes
  /\ work' = "idle"
  /\ run' = run + 1
  /\ UNCHANGED <<list, open, ready, fds, task, queued, mntr, cbsock>>

Work == WorkStart \/ WorkCall \/ WorkPass \/ WorkReturn \/ WorkWalked \/ WorkEnd
-----------------------------------------------------------------------------
(***************************************************************************)
(* Callbacks and other tasks.                                              *)
(***************************************************************************)
\* sock_monitor_reset; lwIP drops the datagram if the mailbox is full.
Wake == wakes' = IF wakes < MaxWakes THEN wakes + 1 ELSE wakes

Unlocked == work # "walk"

\* A new entry goes to the head of the list, in any free memory.
AddNew(s, e) ==
  /\ Unlocked /\ s \in open \ Monitored /\ e \in Obj \ Live
  /\ entry' = [entry EXCEPT ![e] = [sock |-> s, disable |-> FALSE]]
  /\ entrys' = <<e>> \o entrys
  /\ Wake
  /\ UNCHANGED <<open, ready, fds, run, task, walk>>

\* sock_monitor_add of a socket that is on the list (its callback changes), or
\* without memory: only the wait is ended.
AddOld(s) ==
  /\ Unlocked /\ s \in open /\ (s \in Monitored \/ Live = Obj)
  /\ Wake
  /\ UNCHANGED <<list, open, ready, fds, run, task, walk>>

Del(s) ==
  /\ Unlocked /\ s \in Monitored
  /\ (Careful /\ work = "cb") => s = cbsock
  /\ entry' = [entry EXCEPT ![EntryOf(s)] = NoEntry]
  /\ entrys' = RemoveAt(entrys, Place(EntryOf(s)))
  /\ UNCHANGED <<net, fds, run, task, walk>>

Disable(s, disable) ==
  /\ Unlocked /\ s \in Monitored /\ entry[EntryOf(s)].disable # disable
  /\ entry' = [entry EXCEPT ![EntryOf(s)].disable = disable]
  /\ IF disable THEN UNCHANGED wakes ELSE Wake
  /\ UNCHANGED <<entrys, open, ready, fds, run, task, walk>>

Open(s) ==
  /\ s \notin open
  /\ open' = open \cup {s}
  /\ UNCHANGED <<list, ready, wakes, fds, run, task, walk>>

Close(s) ==
  /\ s \in open \ Monitored
  /\ ClosesEarly \/ task = "down" \/ s \notin fds
  /\ open' = open \ {s} /\ ready' = ready \ {s}
  /\ UNCHANGED <<list, wakes, fds, run, task, walk>>

Arrives(s) ==
  /\ s \in open \ ready
  /\ ready' = ready \cup {s}
  /\ UNCHANGED <<list, open, wakes, fds, run, task, walk>>

Next ==
  \/ Task \/ Work
  \/ \E s \in Sock :
       \/ \E e \in Obj : AddNew(s, e)
       \/ AddOld(s) \/ Del(s) \/ Disable(s, TRUE) \/ Disable(s, FALSE)
       \/ Open(s) \/ Close(s) \/ Arrives(s)

\* The task and the thread of the work items get the processor; TaskBuild
\* competes for the lock with walks, which end.
Spec ==
  /\ Init /\ [][Next]_vars
  /\ WF_vars(Task) /\ WF_vars(Work)
-----------------------------------------------------------------------------
\* Every variable has its type (struct sock_monitor and its list).
TypeOK ==
  /\ entrys \in Seq(Obj) /\ IsInjective(entrys)
  /\ entry \in [Obj -> [sock : Sock \cup {NULL}, disable : BOOLEAN]]
  /\ open \subseteq Sock /\ ready \subseteq open
  /\ wakes \in 0..MaxWakes
  /\ fds \subseteq Sock \cup {Own}
  /\ run \in Nat
  /\ task \in {"down", "select", "wait"}
  /\ queued \in BOOLEAN
  /\ work \in {"idle", "walk", "cb", "recv"}
  /\ mntr \in Obj \cup {NULL} /\ cbsock \in Sock \cup {NULL}

\* The descriptor sets have no lock of their own: the task builds and select
\* fills them only while the work item is neither queued nor walking, because
\* one token goes round.
TakesTurns ==
  /\ run + (IF task # "down" THEN 1 ELSE 0)
         + (IF queued \/ work # "idle" THEN 1 ELSE 0) = 1
  /\ ~(queued /\ work # "idle")

\* The entry the walk goes on with after a callback is still on the list.
WalkOnList == work \in {"walk", "cb"} => mntr \in Live \cup {NULL}

\* The task and the work item take turns at the descriptor sets, and the walk
\* over the list survives its callbacks, whatever select returns.
TurnsSound == TypeOK /\ TakesTurns /\ WalkOnList

\* The thread of the work items, which serves the whole system, never gets
\* stuck in the recvfrom at the end: the own socket is in the sets only if a
\* datagram is there.  A select that gives -1 leaves it there without one.
NeverStuck == work = "recv" /\ Own \in fds => wakes > 0

\* Both: what sock_monitor_task and sock_monitor_work keep while lwip_select
\* gives no error.
MonitorSound == TurnsSound /\ NeverStuck

\* A socket that has something to tell and stays on the list, enabled, gets
\* its callback.
ReadyServed ==
  \A s \in Sock :
    s \in Enabled \cap ready ~>
      s \notin Enabled \cap ready \/ (work = "cb" /\ cbsock = s)
=============================================================================
