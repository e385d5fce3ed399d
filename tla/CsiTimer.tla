------------------------------ MODULE CsiTimer ------------------------------
(***************************************************************************)
(* The timers applications use (csi_kernel_timer_* in adapter/csi_rhino.c) *)
(* on the timers of the kernel.  A start is two commands, a deletion is a  *)
(* command and two calls of free; the timer task and other callers can run *)
(* in between.                                                             *)
(***************************************************************************)
EXTENDS RhinoTimer

CONSTANTS
  Task,          \* the tasks that use timers
  Periodic,      \* the timers created with KTIMER_TYPE_PERIODIC
  DefaultTicks,  \* TMR_ONE_SHOT_DLY, TMR_PERIODIC_PERIOD
  Careful        \* timers are deleted only when stopped, and not in callbacks

ASSUME CsiAssumption ==
  /\ Periodic \subseteq Timer /\ Dyn = {}
  /\ DefaultTicks \in Intervals
  /\ Careful \in BOOLEAN

VARIABLES
  at,     \* the call each caller is in the middle of
  want    \* timers whose start returned 0 and that were not run, stopped,
          \* started again or deleted since (observed only)

vars == <<tvars, at, want>>

\* A callback calls from within the timer task.
Callback == "callback"
Caller == Task \cup {Callback}

Idle == [call |-> "none"]
Doing(call, t) == [call |-> call, timer |-> t]
Busy(t) == \E c \in Caller : at[c] # Idle /\ at[c].timer = t

CsiInit == Init /\ at = [c \in Caller |-> Idle] /\ want = {}

\* Callback runs while its callback does; a task above the timer task runs at
\* any time, one below it only while the timer task waits.
Runs(c) == IF c = Callback THEN pc = "cb" ELSE Urgent \/ pc \in Blocked

MayBegin(c, t) ==
  /\ Runs(c) /\ at[c] = Idle
  /\ calls < MaxCalls
  /\ \A d \in Caller : at[d] # Idle /\ at[d].timer = t => at[d].call # "del"

timers == <<tm, g_timer_head, freed, g_timer_count, q, late, owed>>

\* csi_kernel_timer_new.  The heap may hand out the memory of a timer that was
\* freed.
TimerNew(c, t) ==
  /\ Runs(c) /\ at[c] = Idle /\ calls < MaxCalls
  /\ tm[t].obj_type = "none" \/ t \in freed
  /\ t \notin ToSet(g_timer_head)
  /\ tm' = [tm EXCEPT ![t] =
              Created(t, DefaultTicks, IF t \in Periodic THEN DefaultTicks ELSE 0,
                      CHOOSE a \in Args : TRUE)]
  /\ freed' = freed \ {t}
  /\ calls' = calls + 1
  /\ UNCHANGED <<g_timer_head, g_timer_count, q, late, owed, cb_msg, pc, left,
                 g_timer_queue, at, want>>

\* csi_kernel_timer_start reads the period the timer has now.
RoundOf(t, ticks) == IF tm[t].round_ticks # 0 THEN ticks ELSE 0

\* The change command; if it is refused the call fails here.
StartChange(c, t, ticks) ==
  /\ MayBegin(c, t) /\ Exists(t)
  /\ Send(Command("chg", t, ticks, RoundOf(t, ticks)))
  /\ at' = IF Accepted THEN [at EXCEPT ![c] = Doing("start", t)] ELSE at
  /\ want' = want \ {t}
  /\ calls' = calls + 1
  /\ UNCHANGED timers

\* Mutated: the start command is not sent.
StartForgotten(c) ==
  /\ Runs(c) /\ at[c] # Idle /\ at[c].call = "start"
  /\ at' = [at EXCEPT ![c] = Idle]
  /\ want' = want \cup {at[c].timer}
  /\ UNCHANGED <<timers, calls, cb_msg, pc, left, g_timer_queue>>

\* The start command.  If it is refused the call returns -EPERM, and the
\* change has stopped the timer.
StartStart(c) ==
  /\ Runs(c) /\ at[c] # Idle /\ at[c].call = "start"
  /\ Send(Command("start", at[c].timer, 0, 0))
  /\ at' = [at EXCEPT ![c] = Idle]
  /\ want' = IF Accepted THEN want \cup {at[c].timer} ELSE want
  /\ UNCHANGED <<timers, calls>>

TimerStop(c, t) ==
  /\ MayBegin(c, t) /\ Exists(t)
  /\ Send(Command("stop", t, 0, 0))
  /\ want' = IF Accepted THEN want \ {t} ELSE want
  /\ calls' = calls + 1
  /\ UNCHANGED <<timers, at>>

\* csi_kernel_timer_del: the command, then the frees.
DelSend(c, t) ==
  /\ MayBegin(c, t) /\ Exists(t) /\ ~Busy(t)
  /\ Careful => c # Callback /\ tm[t].timer_state = "deactive" /\ ~Pending(t)
  /\ Send(Command("del", t, 0, 0))
  /\ at' = IF Accepted THEN [at EXCEPT ![c] = Doing("del", t)] ELSE at
  /\ want' = IF Accepted THEN want \ {t} ELSE want
  /\ calls' = calls + 1
  /\ UNCHANGED timers

DelFree(c) ==
  /\ Runs(c) /\ at[c] # Idle /\ at[c].call = "del"
  /\ freed' = freed \cup {at[c].timer}
  /\ at' = [at EXCEPT ![c] = Idle]
  /\ UNCHANGED <<tm, g_timer_head, g_timer_count, q, late, owed, calls, cb_msg,
                 pc, left, g_timer_queue, want>>

CsiCall(c) ==
  \/ \E t \in Timer :
       \/ TimerNew(c, t) \/ TimerStop(c, t) \/ DelSend(c, t)
       \/ \E ticks \in Intervals : StartChange(c, t, ticks)
  \/ StartStart(c)
  \/ DelFree(c)

\* The timer task, which does not leave a callback in the middle of a call.
CsiTimerTask ==
  /\ at[Callback] = Idle
  /\ TimerTask
  /\ want' = IF pc # "cb" /\ pc' = "cb" THEN want \ {g_timer_head[q]} ELSE want
  /\ UNCHANGED at

CsiNext ==
  \/ CsiTimerTask
  \/ Tick /\ UNCHANGED <<at, want>>
  \/ \E c \in Caller : CsiCall(c)

\* A caller that has begun a call goes on with it when it can run.
CsiSpec ==
  /\ CsiInit /\ [][CsiNext]_vars
  /\ WF_vars(CsiTimerTask) /\ WF_vars(Tick /\ UNCHANGED <<at, want>>)
  /\ \A c \in Caller : SF_vars(StartStart(c) \/ DelFree(c))
-----------------------------------------------------------------------------
\* However starts of one timer are interleaved with the commands of others, a
\* one-shot timer stays one-shot and a periodic timer periodic:
\* csi_kernel_timer_start reads round_ticks while changes of it are queued.
KindKept ==
  \A t \in Timer : Exists(t) => (tm[t].round_ticks # 0 <=> t \in Periodic)

\* A caller above the timer task frees a timer before its DEL is obeyed
\* (csi_kernel_timer_del), so NoDanglingTimer fails and cmd_proc reads memory
\* that was given back.  It does no more: the timer is not on the list, and DEL
\* is all that still names it.
OnlyDelDangles ==
  \A t \in freed :
    /\ t \notin ToSet(g_timer_head)
    /\ cb_msg # NoCommand /\ cb_msg.timer = t => cb_msg.cb_num = "del"
    /\ \A i \in DOMAIN g_timer_queue :
         g_timer_queue[i].timer = t => g_timer_queue[i].cb_num = "del"

\* A timer whose start returned 0 gets its callback, unless it is stopped,
\* deleted or started again.
StartedRuns == \A t \in Timer : t \in want ~> t \notin want

\* The callback of a timer that csi_kernel_timer_del deleted does not run.
DeletedNeverRuns ==
  [][pc # "cb" /\ pc' = "cb" => g_timer_head[q] \notin freed]_vars
=============================================================================
