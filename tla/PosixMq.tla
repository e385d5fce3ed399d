------------------------------- MODULE PosixMq -------------------------------
(***************************************************************************)
(* POSIX message queues (lib/posix/mqueue.c): structures on a list, found  *)
(* by name, each with a message queue of the kernel.  A message is copied  *)
(* into memory of its own; the queue holds the pointer.                    *)
(*                                                                         *)
(* All threads use one name.  The list is read and changed with interrupts *)
(* off, but mq_open looks for the name and adds the structure in two       *)
(* steps, and mq_unlink frees a structure whose address others may hold.   *)
(* The queue of the kernel (RhinoQueue) is a bounded sequence here.        *)
(***************************************************************************)
EXTENDS Naturals, Sequences, FiniteSets

CONSTANTS
  Thread,
  Mq,          \* addresses of struct pthread_mq
  None,
  mq_msgsize,  \* the attribute given to mq_open that becomes the depth
  MaxSend,     \* bound: messages sent
  Together     \* threads open together, and unlink what others have open

VARIABLES
  mq_list,   \* the structures of the list, newest first
  state,     \* of each structure: "free", "live", "unlinked"
  msgq,      \* the messages in each
  pc, mq,    \* where each thread is, and the queue it has open
  val,       \* the message a thread has in hand, or 0
  heap,      \* messages whose memory is allocated
  sent       \* messages are numbered as they are sent

vars == <<mq_list, state, msgq, pc, mq, val, heap, sent>>

Message == 1..MaxSend

Init ==
  /\ mq_list = << >> /\ state = [m \in Mq |-> "free"] /\ msgq = [m \in Mq |-> << >>]
  /\ pc = [t \in Thread |-> "out"] /\ mq = [t \in Thread |-> None]
  /\ val = [t \in Thread |-> 0] /\ heap = {} /\ sent = 0

Go(t, at) == pc' = [pc EXCEPT ![t] = at]
\* What a program that takes care does not do.
Alone(t) == Together \/ \A u \in Thread \ {t} : pc[u] \notin {"add", "drain"}
-----------------------------------------------------------------------------
\* mq_open: the search.
OpenFind(t) ==
  /\ pc[t] = "out" /\ mq[t] = None /\ Alone(t)
  /\ IF mq_list # << >>
     THEN mq' = [mq EXCEPT ![t] = Head(mq_list)] /\ UNCHANGED pc
     ELSE Go(t, "add") /\ UNCHANGED mq
  /\ UNCHANGED <<mq_list, state, msgq, val, heap, sent>>

\* The name was not found.
OpenAdd(t, m) ==
  /\ pc[t] = "add" /\ state[m] = "free"
  /\ state' = [state EXCEPT ![m] = "live"]
  /\ msgq' = [msgq EXCEPT ![m] = << >>]
  /\ mq_list' = << m >> \o mq_list
  /\ mq' = [mq EXCEPT ![t] = m]
  /\ Go(t, "out")
  /\ UNCHANGED <<val, heap, sent>>

\* os_zalloc fails.
OpenFails(t) ==
  /\ pc[t] = "add"
  /\ Go(t, "out")
  /\ UNCHANGED <<mq_list, state, msgq, mq, val, heap, sent>>

\* mq_close does nothing; the thread forgets the descriptor.
Close(t) ==
  /\ pc[t] = "out" /\ mq[t] # None
  /\ mq' = [mq EXCEPT ![t] = None]
  /\ UNCHANGED <<mq_list, state, msgq, pc, val, heap, sent>>
-----------------------------------------------------------------------------
\* The depth mq_open gives the queue of the kernel: not mq_maxmsg.
Depth == mq_msgsize

\* _mq_send: the copy.
Send(t) ==
  /\ pc[t] = "out" /\ mq[t] # None /\ state[mq[t]] = "live" /\ sent < MaxSend
  /\ sent' = sent + 1
  /\ heap' = heap \cup {sent + 1}
  /\ val' = [val EXCEPT ![t] = sent + 1]
  /\ Go(t, "put")
  /\ UNCHANGED <<mq_list, state, msgq, mq>>

\* os_msgq_put waits for room.
Put(t) ==
  /\ pc[t] = "put" /\ Len(msgq[mq[t]]) < Depth
  /\ msgq' = [msgq EXCEPT ![mq[t]] = Append(@, val[t])]
  /\ val' = [val EXCEPT ![t] = 0]
  /\ Go(t, "out")
  /\ UNCHANGED <<mq_list, state, mq, heap, sent>>

\* Mutated: the copy is not freed.
PutKeeps(t) ==
  /\ pc[t] = "put"
  /\ val' = [val EXCEPT ![t] = 0]
  /\ Go(t, "out")
  /\ UNCHANGED <<mq_list, state, msgq, mq, heap, sent>>

\* mq_timedsend: the time is over.
PutFails(t) ==
  /\ pc[t] = "put"
  /\ heap' = heap \ {val[t]}
  /\ val' = [val EXCEPT ![t] = 0]
  /\ Go(t, "out")
  /\ UNCHANGED <<mq_list, state, msgq, mq, sent>>

\* _mq_receive up to os_msgq_get.
Receive(t) ==
  /\ pc[t] = "out" /\ mq[t] # None /\ state[mq[t]] = "live"
  /\ Go(t, "get")
  /\ UNCHANGED <<mq_list, state, msgq, mq, val, heap, sent>>

\* The message is taken out, copied, and freed.
Get(t) ==
  /\ pc[t] = "get" /\ msgq[mq[t]] # << >>
  /\ heap' = heap \ {Head(msgq[mq[t]])}
  /\ msgq' = [msgq EXCEPT ![mq[t]] = Tail(@)]
  /\ Go(t, "out")
  /\ UNCHANGED <<mq_list, state, mq, val, sent>>

\* mq_timedreceive: the time is over.
GetFails(t) ==
  /\ pc[t] = "get"
  /\ Go(t, "out")
  /\ UNCHANGED <<mq_list, state, msgq, mq, val, heap, sent>>
-----------------------------------------------------------------------------
\* mq_unlink: the structure leaves the list.
Unlink(t) ==
  /\ pc[t] = "out" /\ mq[t] = None /\ mq_list # << >> /\ Alone(t)
  /\ Together \/ \A u \in Thread : mq[u] = None
  /\ state' = [state EXCEPT ![Head(mq_list)] = "unlinked"]
  /\ mq_list' = Tail(mq_list)
  /\ mq' = [mq EXCEPT ![t] = Head(mq_list)]
  /\ Go(t, "drain")
  /\ UNCHANGED <<msgq, val, heap, sent>>

\* One turn of the loop that empties it.
Drain(t) ==
  /\ pc[t] = "drain" /\ msgq[mq[t]] # << >>
  /\ heap' = heap \ {Head(msgq[mq[t]])}
  /\ msgq' = [msgq EXCEPT ![mq[t]] = Tail(@)]
  /\ UNCHANGED <<mq_list, state, pc, mq, val, sent>>

\* os_msgq_del and os_free.
Free(t) ==
  /\ pc[t] = "drain" /\ msgq[mq[t]] = << >>
  /\ state' = [state EXCEPT ![mq[t]] = "free"]
  /\ mq' = [mq EXCEPT ![t] = None]
  /\ Go(t, "out")
  /\ UNCHANGED <<mq_list, msgq, val, heap, sent>>

Next ==
  \E t \in Thread :
    \/ OpenFind(t) \/ OpenFails(t) \/ Close(t)
    \/ \E m \in Mq : OpenAdd(t, m)
    \/ Send(t) \/ Put(t) \/ PutFails(t) \/ Receive(t) \/ Get(t) \/ GetFails(t)
    \/ Unlink(t) \/ Drain(t) \/ Free(t)

Spec == Init /\ [][Next]_vars
-----------------------------------------------------------------------------
\* The variables have their types.
TypeOK ==
  /\ mq_list \in Seq(Mq) /\ state \in [Mq -> {"free", "live", "unlinked"}]
  /\ msgq \in [Mq -> Seq(Message)]
  /\ pc \in [Thread -> {"out", "add", "put", "get", "drain"}]
  /\ mq \in [Thread -> Mq \cup {None}] /\ val \in [Thread -> 0..MaxSend]
  /\ heap \subseteq Message /\ sent \in 0..MaxSend

InMsgq(n) == \E m \in Mq : \E i \in DOMAIN msgq[m] : msgq[m][i] = n

\* Every message whose memory is allocated is in a queue that exists or in the
\* hand of one sender, and every message there is allocated: none is lost, none
\* is freed too early, whatever sends, receives, timeouts and unlinks happen.
MessagesOwned ==
  /\ \A n \in Message : n \in heap <=> InMsgq(n) \/ \E t \in Thread : val[t] = n
  /\ \A m \in Mq : state[m] = "free" => msgq[m] = << >>

\* The list names live structures, and the name one.
OneQueuePerName ==
  /\ Len(mq_list) <= 1
  /\ \A i \in DOMAIN mq_list : state[mq_list[i]] = "live"
  /\ Cardinality({m \in Mq : state[m] = "live"}) = Len(mq_list)
=============================================================================
