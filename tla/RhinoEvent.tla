----------------------------- MODULE RhinoEvent -----------------------------
(***************************************************************************)
(* Event flags of the Rhino kernel (core/k_event.c) as the CSI adapter     *)
(* offers them (adapter/csi_rhino.c): one event object, tasks that wait    *)
(* for all or any of some flags, with or without clearing them, and tasks  *)
(* and interrupts that set flags.                                          *)
(*                                                                         *)
(* A setter wakes every waiter whose condition is met, so the block list   *)
(* is the set of the waiting tasks; its order plays no part.  Which ready  *)
(* task runs is left open, and so is when a timeout ends.                  *)
(***************************************************************************)
EXTENDS Naturals

CONSTANTS
  Task,
  Flag,       \* the bits of an event
  Unwritten   \* the caller's variable, before the call has written it

ASSUME EventAssumption == Unwritten \notin SUBSET Flag

VARIABLES
  alive,      \* obj_type = RHINO_EVENT_OBJ_TYPE
  flags,
  pc,         \* per task: "run", "pend", "woken", "set" (in csi_kernel_event_set)
  pend,       \* per task: pend_option, pend_flags and whether it is timed
  blk_state,  \* per task: why its wait ended
  actl        \* per task: *actl_flags of its wait, not written by a timeout

vars == <<alive, flags, pc, pend, blk_state, actl>>
task == <<pc, pend, blk_state, actl>>

Request == [flags : SUBSET Flag, all : BOOLEAN, clear : BOOLEAN, timed : BOOLEAN]

NoRequest == [flags |-> {}, all |-> FALSE, clear |-> FALSE, timed |-> FALSE]

\* The test on RHINO_FLAGS_AND_MASK.
Met(f, r) == IF r.all THEN r.flags \subseteq f ELSE r.flags \cap f # {}

\* What a wait that is met clears.
Clears(r) == IF r.clear THEN r.flags ELSE {}

Init ==
  /\ alive = TRUE /\ flags = {}
  /\ pc = [t \in Task |-> "run"]
  /\ pend = [t \in Task |-> NoRequest]
  /\ blk_state = [t \in Task |-> "FINISH"]
  /\ actl = [t \in Task |-> Unwritten]
-----------------------------------------------------------------------------
(***************************************************************************)
(* csi_kernel_event_wait, krhino_event_get                                 *)
(***************************************************************************)
\* The flags are there: the wait is met without waiting.
WaitMet(t, r) ==
  /\ pc[t] = "run" /\ alive /\ Met(flags, r)
  /\ flags' = flags \ Clears(r)
  /\ UNCHANGED <<alive, task>>

\* They are not, and the call may wait (with RHINO_NO_WAIT, or the scheduler
\* locked, it returns and nothing has changed).
WaitBlock(t, r) ==
  /\ pc[t] = "run" /\ alive /\ ~Met(flags, r)
  /\ pend' = [pend EXCEPT ![t] = r]
  /\ pc' = [pc EXCEPT ![t] = "pend"]
  /\ UNCHANGED <<alive, flags, blk_state, actl>>

\* The tick interrupt (tick_list_update) finds the time over.
Expire(t) ==
  /\ pc[t] = "pend" /\ pend[t].timed
  /\ pc' = [pc EXCEPT ![t] = "woken"]
  /\ blk_state' = [blk_state EXCEPT ![t] = "TIMEOUT"]
  /\ UNCHANGED <<alive, flags, pend, actl>>

\* The task runs again and returns what blk_state says (pend_state_end_proc).
WaitEnd(t) ==
  /\ pc[t] = "woken"
  /\ pc' = [pc EXCEPT ![t] = "run"]
  /\ pend' = [pend EXCEPT ![t] = NoRequest]
  /\ blk_state' = [blk_state EXCEPT ![t] = "FINISH"]
  /\ actl' = [actl EXCEPT ![t] = Unwritten]
  /\ UNCHANGED <<alive, flags>>
-----------------------------------------------------------------------------
(***************************************************************************)
(* event_set                                                               *)
(***************************************************************************)
Waiting == {t \in Task : pc[t] = "pend"}

\* Mutated: one waiter is woken, as by a semaphore.
WakesOne(f) ==
  LET W == {t \in Waiting : Met(f, pend[t])}
  IN IF W = {} THEN {} ELSE {CHOOSE t \in W : TRUE}

\* The waiters whose condition holds under one snapshot f of the flags.
Wakes(f) == {t \in Waiting : Met(f, pend[t])}

\* What the waiters that are woken leave.
Left(f) == f \ UNION {Clears(pend[t]) : t \in Wakes(f)}

\* Waiter t is removed from the list with a result.
PcAfter(W) == [t \in Task |-> IF t \in W THEN "woken" ELSE pc[t]]
Ends(W, result) ==
  blk_state' = [t \in Task |-> IF t \in W THEN result ELSE blk_state[t]]

event_set(f) ==
  /\ flags' = Left(f)
  /\ actl' = [t \in Task |-> IF t \in Wakes(f) THEN f ELSE actl[t]]
  /\ Ends(Wakes(f), "FINISH")
  /\ UNCHANGED <<alive, pend>>

\* csi_kernel_event_set in a task: krhino_event_set may switch to a task it
\* woke before the adapter reads the flags back (SetEnd).
Set(t, F) ==
  /\ pc[t] = "run" /\ alive
  /\ event_set(flags \cup F)
  /\ pc' = [PcAfter(Wakes(flags \cup F)) EXCEPT ![t] = "set"]

SetEnd(t) ==
  /\ pc[t] = "set"
  /\ pc' = [pc EXCEPT ![t] = "run"]
  /\ UNCHANGED <<alive, flags, pend, blk_state, actl>>

\* The same in an interrupt, which no task comes between.
IsrSet(F) ==
  /\ alive
  /\ event_set(flags \cup F)
  /\ pc' = PcAfter(Wakes(flags \cup F))

\* krhino_event_set with RHINO_AND; the adapter does not offer it.
SetAnd(F) ==
  /\ alive
  /\ flags' = flags \cap F
  /\ UNCHANGED <<alive, task>>

\* csi_kernel_event_del: everyone who waits is told, and the memory is freed.
Del(t) ==
  /\ pc[t] = "run" /\ alive
  /\ alive' = FALSE /\ flags' = {}
  /\ pc' = PcAfter(Waiting)
  /\ Ends(Waiting, "DEL")
  /\ UNCHANGED <<pend, actl>>

\* csi_kernel_event_new, which may get the same memory.
New(t) ==
  /\ pc[t] = "run" /\ ~alive
  /\ alive' = TRUE /\ flags' = {}
  /\ UNCHANGED task

Next ==
  \/ \E t \in Task :
       \/ \E r \in Request : WaitMet(t, r) \/ WaitBlock(t, r)
       \/ Expire(t) \/ WaitEnd(t)
       \/ \E F \in SUBSET Flag : Set(t, F)
       \/ SetEnd(t) \/ Del(t) \/ New(t)
  \/ \E F \in SUBSET Flag : IsrSet(F) \/ SetAnd(F)

\* Time goes on, and a task that is ready gets the processor.
Spec ==
  /\ Init /\ [][Next]_vars
  /\ \A t \in Task : WF_vars(Expire(t)) /\ WF_vars(WaitEnd(t)) /\ WF_vars(SetEnd(t))
-----------------------------------------------------------------------------
\* The variables have their types.
TypeOK ==
  /\ alive \in BOOLEAN /\ flags \subseteq Flag
  /\ pc \in [Task -> {"run", "pend", "woken", "set"}]
  /\ pend \in [Task -> Request]
  /\ blk_state \in [Task -> {"FINISH", "TIMEOUT", "DEL"}]
  /\ actl \in [Task -> (SUBSET Flag) \cup {Unwritten}]

\* No task sleeps while its flags are set: a setter passes nobody over, in
\* whatever order waits, sets and clears come, and nobody sleeps at an event
\* that is gone.
NoneOverlooked ==
  \A t \in Waiting : alive /\ ~Met(flags, pend[t])

\* A wait that succeeded reports flags that meet its condition; one that timed
\* out or lost its event does not succeed.
SuccessIsMet ==
  \A t \in Task :
    pc[t] = "woken" =>
      IF blk_state[t] = "FINISH"
        THEN actl[t] # Unwritten /\ Met(actl[t], pend[t])
        ELSE actl[t] = Unwritten

\* Waits, sets and deletions never miss each other (k_event.c).
EventSound == TypeOK /\ NoneOverlooked /\ SuccessIsMet

\* A wait with a timeout comes to an end.
TimedWaitEnds ==
  \A t \in Task : pc[t] = "pend" /\ pend[t].timed ~> pc[t] = "run"
=============================================================================
