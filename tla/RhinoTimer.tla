----------------------------- MODULE RhinoTimer -----------------------------
(***************************************************************************)
(* The software timers of the Rhino kernel (core/k_timer.c): calls put     *)
(* commands on a bounded queue, and the timer task takes them, keeps the   *)
(* active timers on a sorted list and runs their callbacks.                *)
(*                                                                         *)
(* Times are kept relative to the tick counter: match is how many ticks    *)
(* are left (below zero: overdue), and a tick takes one from each.  The    *)
(* counter has 64 bits and does not wrap.  Between two waits the timer     *)
(* task can lose the processor, to tasks above it and to interrupts, for   *)
(* at most MaxLate ticks.                                                  *)
(***************************************************************************)
EXTENDS Integers, Sequences, FiniteSets, SequencesExt

CONSTANTS
  Timer,
  Dyn,        \* the timers of krhino_timer_dyn_create
  Intervals,  \* the tick counts callers ask for
  Rounds,     \* the periods they ask for, 0 for a one-shot timer
  Args,       \* callback arguments
  MsgNum,     \* RHINO_CONFIG_TIMER_MSG_NUM
  MaxLate,    \* bound: ticks the timer task is kept waiting
  MaxCalls,   \* bound: calls
  Urgent      \* callers are above the timer task: they run while it is ready

ASSUME TimerAssumption ==
  /\ Dyn \subseteq Timer
  /\ Intervals \subseteq Nat \ {0} /\ Rounds \subseteq Nat
  /\ Args # {}
  /\ MsgNum \in Nat \ {0} /\ MaxLate \in Nat /\ MaxCalls \in Nat
  /\ Urgent \in BOOLEAN

VARIABLES
  tm,             \* the timers
  g_timer_head,   \* the list of active timers
  freed,          \* timers whose memory was given back
  g_timer_queue,  \* commands not taken yet
  cb_msg,         \* the command the timer task has
  g_timer_count,  \* the time the timer task works with, relative to now
  pc,             \* where the timer task is
  left,           \* ticks left of its timed wait
  q,              \* its place in the list, in timer_cb_proc
  late,           \* ticks since it last waited
  calls,          \* calls made
  owed            \* ticks a started timer owes its caller (observed only)

tvars == <<tm, g_timer_head, freed, g_timer_queue, cb_msg, g_timer_count, pc,
           left, q, late, calls, owed>>

Blocked == {"recv", "timed"}
InPass == {"pass", "cb"}
Places == Blocked \cup InPass \cup {"outer", "outer_got", "loop", "inner_got",
                                    "expired"}

Periods == Rounds \cup Intervals \cup {0}
ktimer_t == [obj_type : {"none", "timer"}, timer_state : {"deactive", "active"},
             init_count : Intervals \cup {0}, round_ticks : Periods,
             match : Int, timer_cb_arg : Args]
NoTimer == [obj_type |-> "none", timer_state |-> "deactive", init_count |-> 0,
            round_ticks |-> 0, match |-> 0,
            timer_cb_arg |-> CHOOSE a \in Args : TRUE]

\* The union u holds a period or an argument.
Command(cmd, t, first, u) == [cb_num |-> cmd, timer |-> t, first |-> first, u |-> u]
Commands ==
  [cb_num : {"start", "stop", "del", "dyn_del"}, timer : Timer, first : {0}, u : {0}]
  \cup [cb_num : {"chg"}, timer : Timer, first : Intervals \cup {0}, u : Periods]
  \cup [cb_num : {"arg", "arg_auto"}, timer : Timer, first : {0}, u : Args]
NoCommand == [cb_num |-> "none"]

Init ==
  /\ tm = [t \in Timer |-> NoTimer]
  /\ g_timer_head = <<>>
  /\ freed = {}
  /\ g_timer_queue = <<>>
  /\ cb_msg = NoCommand
  /\ g_timer_count = 0
  /\ pc = "outer"
  /\ left = 0
  /\ q = 1
  /\ late = 0
  /\ calls = 0
  /\ owed = [t \in Timer |-> 0]
-----------------------------------------------------------------------------
(***************************************************************************)
(* The list.  s has the fields tm, list and freed; g is g_timer_count.     *)
(***************************************************************************)
\* The test of timer_list_pri_insert is on unsigned numbers: for a timer that
\* is overdue the difference is huge.
Further(s, u, g, val) ==
  LET d == s.tm[u].match - g IN d < 0 \/ d > val

\* Mutated: a timer goes to the end of the list.
PlaceLast(s, g, val) == Len(s.list) + 1

\* Where timer_list_pri_insert puts a timer with remain = val.
Place(s, g, val) ==
  LET after == {i \in 1..Len(s.list) : Further(s, s.list[i], g, val)}
  IN IF after = {} THEN Len(s.list) + 1
     ELSE CHOOSE i \in after : \A j \in after : i <= j

\* Puts t on the list, due val ticks after g.
Arm(s, t, g, val) ==
  [s EXCEPT !.tm[t].match = g + val, !.tm[t].timer_state = "active",
            !.list = InsertAt(@, Place(s, g, val), t)]

\* timer_list_rm, and the state that goes with it.  match is dead from here.
Disarm(s, t) ==
  [s EXCEPT !.list = RemoveAt(@, CHOOSE i \in DOMAIN @ : @[i] = t),
            !.tm[t].timer_state = "deactive", !.tm[t].match = 0]

IsTimer(s, t) == s.tm[t].obj_type = "timer"
Active(s, t) == s.tm[t].timer_state = "active"
-----------------------------------------------------------------------------
(***************************************************************************)
(* cmd_proc, one operator per command.  A command whose test fails is      *)
(* dropped: its caller was told RHINO_SUCCESS.                             *)
(***************************************************************************)
\* Mutated: a running timer is put on the list a second time.
StartAgain(s, t, g) ==
  IF IsTimer(s, t) THEN Arm(s, t, g, s.tm[t].init_count) ELSE s

CmdStart(s, t, g) ==
  IF IsTimer(s, t) /\ ~Active(s, t)
  THEN Arm(s, t, g, s.tm[t].init_count) ELSE s

CmdStop(s, t) ==
  IF IsTimer(s, t) /\ Active(s, t) THEN Disarm(s, t) ELSE s

CmdChg(s, t, first, round) ==
  IF first # 0 /\ IsTimer(s, t)
  THEN [(IF Active(s, t) THEN Disarm(s, t) ELSE s)
          EXCEPT !.tm[t].init_count = first, !.tm[t].round_ticks = round]
  ELSE s

CmdArg(s, t, arg) ==
  IF IsTimer(s, t) /\ ~Active(s, t)
  THEN [s EXCEPT !.tm[t].timer_cb_arg = arg] ELSE s

CmdDel(s, t) ==
  IF IsTimer(s, t) /\ ~Active(s, t) /\ t \notin Dyn
  THEN [s EXCEPT !.tm[t].obj_type = "none"] ELSE s

CmdDynDel(s, t) ==
  IF IsTimer(s, t) /\ ~Active(s, t) /\ t \in Dyn
  THEN [s EXCEPT !.tm[t].obj_type = "none", !.freed = @ \cup {t}] ELSE s

timer_cmd_proc(s, c, g) ==
  CASE c.cb_num = "start"    -> CmdStart(s, c.timer, g)
    [] c.cb_num = "stop"     -> CmdStop(s, c.timer)
    [] c.cb_num = "chg"      -> CmdChg(s, c.timer, c.first, c.u)
    [] c.cb_num = "arg"      -> CmdArg(s, c.timer, c.u)
    [] c.cb_num = "arg_auto" -> CmdStart(CmdArg(CmdStop(s, c.timer), c.timer, c.u),
                                         c.timer, g)
    [] c.cb_num = "del"      -> CmdDel(s, c.timer)
    [] c.cb_num = "dyn_del"  -> CmdDynDel(s, c.timer)
    [] OTHER                 -> s

Timers == [tm |-> tm, list |-> g_timer_head, freed |-> freed]
Becomes(s) == tm' = s.tm /\ g_timer_head' = s.list /\ freed' = s.freed

\* What started timers owe after a command.
Owed(s, c) ==
  IF Active(s, c.timer) /\ \/ c.cb_num = "arg_auto"
                           \/ c.cb_num = "start" /\ ~Active(Timers, c.timer)
  THEN [owed EXCEPT ![c.timer] = s.tm[c.timer].init_count] ELSE owed
-----------------------------------------------------------------------------
(***************************************************************************)
(* The timer task.                                                         *)
(***************************************************************************)
\* krhino_buf_queue_recv: a command that is there is taken, or the task waits.
Receive(got, wait, ticks) ==
  IF g_timer_queue # <<>>
  THEN /\ cb_msg' = Head(g_timer_queue)
       /\ g_timer_queue' = Tail(g_timer_queue)
       /\ pc' = got
       /\ UNCHANGED <<left, late>>
  ELSE /\ pc' = wait
       /\ left' = ticks
       /\ late' = 0
       /\ UNCHANGED <<cb_msg, g_timer_queue>>

RecvForever ==
  /\ pc = "outer"
  /\ Receive("outer_got", "recv", 0)
  /\ UNCHANGED <<tm, g_timer_head, freed, g_timer_count, q, calls, owed>>

\* Reads the time and obeys the command.
Obey(next) ==
  LET s == timer_cmd_proc(Timers, cb_msg, 0)
  IN /\ Becomes(s)
     /\ owed' = Owed(s, cb_msg)
     /\ g_timer_count' = 0
     /\ cb_msg' = NoCommand
     /\ pc' = next
     /\ UNCHANGED <<g_timer_queue, left, late, calls>>

ObeyOuter == pc = "outer_got" /\ Obey("loop") /\ UNCHANGED q

ObeyInner == pc = "inner_got" /\ Obey("pass") /\ q' = 1

\* The head of the inner loop: wait for the first timer of the list, or find
\* it due.
LoopEmpty ==
  /\ pc = "loop" /\ g_timer_head = <<>>
  /\ pc' = "outer"
  /\ UNCHANGED <<tm, g_timer_head, freed, g_timer_queue, cb_msg, g_timer_count,
                 left, q, late, calls, owed>>

\* The tick counter is read for the time to wait and the wait is begun in one
\* step: a tick in between (k_timer.c:409-412) only makes the wait end that much
\* later, as one does that finds the timer task late.
LoopWait ==
  /\ pc = "loop" /\ g_timer_head # <<>>
  /\ tm[Head(g_timer_head)].match > 0
  /\ Receive("inner_got", "timed", tm[Head(g_timer_head)].match)
  /\ UNCHANGED <<tm, g_timer_head, freed, g_timer_count, q, calls, owed>>

StartPass ==
  /\ g_timer_count' = 0
  /\ pc' = "pass"
  /\ q' = 1
  /\ UNCHANGED <<tm, g_timer_head, freed, g_timer_queue, cb_msg, left, late,
                 calls, owed>>

LoopDue ==
  /\ pc = "loop" /\ g_timer_head # <<>>
  /\ tm[Head(g_timer_head)].match <= 0
  /\ StartPass

Expired == pc = "expired" /\ StartPass

\* Mutated: a timer that has one tick left counts as due.
DueSoon(t) == tm[t].match - g_timer_count <= 1

\* timer_cb_proc.  The callback of a due timer runs with the timer still on
\* the list; a tick or a call can come while it runs.
Due(t) == tm[t].match - g_timer_count <= 0

PassCall ==
  /\ pc = "pass" /\ q <= Len(g_timer_head)
  /\ Due(g_timer_head[q])
  /\ pc' = "cb"
  /\ UNCHANGED <<tm, g_timer_head, freed, g_timer_queue, cb_msg, g_timer_count,
                 left, q, late, calls, owed>>

PassEnd ==
  /\ pc = "pass"
  /\ q <= Len(g_timer_head) => ~Due(g_timer_head[q])
  /\ pc' = "loop"
  /\ g_timer_count' = 0
  /\ q' = 1
  /\ UNCHANGED <<tm, g_timer_head, freed, g_timer_queue, cb_msg, left, late,
                 calls, owed>>

\* What becomes of a timer that ran.
OneShot(s, t) == Disarm(s, t)

\* The next place is the one after the timer, where it is now; a one-shot
\* timer keeps its old links.
CbReturn ==
  /\ pc = "cb"
  /\ LET t == g_timer_head[q]
         off == Disarm(Timers, t)
         round == tm[t].round_ticks
     IN IF round > 0
        THEN /\ Becomes(Arm(off, t, g_timer_count, round))
             /\ q' = Place(off, g_timer_count, round) + 1
        ELSE /\ Becomes(OneShot(Timers, t))
             /\ q' = q
  /\ pc' = "pass"
  /\ UNCHANGED <<g_timer_queue, cb_msg, g_timer_count, left, late, calls, owed>>

TimerTask ==
  \/ RecvForever \/ ObeyOuter \/ ObeyInner \/ LoopEmpty \/ LoopWait \/ LoopDue
  \/ Expired \/ PassCall \/ PassEnd \/ CbReturn
-----------------------------------------------------------------------------
\* A tick.  The wait of the timer task ends with it (the tick interrupt makes
\* the task ready); the task runs when it gets the processor.
Down(n) == IF n > 0 THEN n - 1 ELSE 0

Tick ==
  /\ pc \in Blocked \/ late < MaxLate
  /\ tm' = [t \in Timer |-> IF t \in ToSet(g_timer_head)
                            THEN [tm[t] EXCEPT !.match = @ - 1] ELSE tm[t]]
  /\ owed' = [t \in Timer |-> Down(owed[t])]
  /\ left' = Down(left)
  /\ pc' = IF pc = "timed" /\ left = 1 THEN "expired" ELSE pc
  /\ late' = IF pc \in Blocked THEN 0 ELSE late + 1
  /\ g_timer_count' = IF pc \in InPass THEN g_timer_count - 1 ELSE 0
  /\ UNCHANGED <<g_timer_head, freed, g_timer_queue, cb_msg, q, calls>>
-----------------------------------------------------------------------------
(***************************************************************************)
(* The calls.  A command goes to the timer task if it waits, otherwise to  *)
(* the queue, and is refused if that is full.                              *)
(***************************************************************************)
Accepted == pc \in Blocked \/ Len(g_timer_queue) < MsgNum

Send(c) ==
  IF pc \in Blocked
  THEN /\ cb_msg' = c
       /\ pc' = IF pc = "recv" THEN "outer_got" ELSE "inner_got"
       /\ left' = 0
       /\ UNCHANGED g_timer_queue
  ELSE /\ g_timer_queue' = IF Len(g_timer_queue) < MsgNum
                           THEN Append(g_timer_queue, c) ELSE g_timer_queue
       /\ UNCHANGED <<cb_msg, pc, left>>

\* Callers below the timer task run only while it waits; a callback runs in
\* the timer task.
MayRun == Urgent \/ pc \in Blocked \cup {"cb"}

MayCall == MayRun /\ calls < MaxCalls

Pending(t) == \/ cb_msg # NoCommand /\ cb_msg.timer = t
              \/ \E i \in DOMAIN g_timer_queue : g_timer_queue[i].timer = t

Exists(t) == tm[t].obj_type = "timer" /\ t \notin freed

\* timer_create; with auto_run the start command follows, and a dynamic timer
\* whose command was refused is freed again.
Created(t, first, round, arg) ==
  [NoTimer EXCEPT !.obj_type = "timer", !.init_count = first,
                  !.round_ticks = round, !.timer_cb_arg = arg]

Create(t, first, round, arg, auto_run) ==
  /\ MayCall
  /\ tm[t].obj_type = "none" /\ ~Pending(t)
  /\ calls' = calls + 1
  /\ IF auto_run THEN Send(Command("start", t, 0, 0))
                 ELSE UNCHANGED <<cb_msg, pc, left, g_timer_queue>>
  /\ tm' = [tm EXCEPT ![t] = IF t \in Dyn /\ auto_run /\ ~Accepted THEN NoTimer
                             ELSE Created(t, first, round, arg)]
  /\ freed' = IF t \in Dyn /\ auto_run /\ ~Accepted THEN freed \cup {t}
              ELSE freed \ {t}
  /\ UNCHANGED <<g_timer_head, g_timer_count, q, late, owed>>

Call(c) ==
  /\ MayCall
  /\ Exists(c.timer)
  /\ calls' = calls + 1
  /\ Send(c)
  /\ UNCHANGED <<tm, g_timer_head, freed, g_timer_count, q, late, owed>>

Start(t) == Call(Command("start", t, 0, 0))
Stop(t) == Call(Command("stop", t, 0, 0))
Change(t, first, round) == Call(Command("chg", t, first, round))
ArgChange(t, arg) == Call(Command("arg", t, 0, arg))
ArgChangeAuto(t, arg) == Call(Command("arg_auto", t, 0, arg))

\* The caller that deletes a timer makes no call on it afterwards and lets the
\* earlier ones be obeyed first.
Delete(t) == ~Pending(t) /\ Call(Command("del", t, 0, 0))
DynDelete(t) == ~Pending(t) /\ Call(Command("dyn_del", t, 0, 0))

\* A call on a timer whose deletion is queued is not made.
Doomed(t) ==
  \/ cb_msg # NoCommand /\ cb_msg.timer = t /\ cb_msg.cb_num \in {"del", "dyn_del"}
  \/ \E i \in DOMAIN g_timer_queue :
       g_timer_queue[i].timer = t /\ g_timer_queue[i].cb_num \in {"del", "dyn_del"}

KernelCall(t) ==
  \/ \E first \in Intervals, round \in Rounds, arg \in Args,
        auto_run \in BOOLEAN : Create(t, first, round, arg, auto_run)
  \/ /\ ~Doomed(t)
     /\ \/ Start(t)
        \/ Stop(t)
        \/ \E first \in Intervals \cup {0}, round \in Rounds : Change(t, first, round)
        \/ \E arg \in Args : ArgChange(t, arg) \/ ArgChangeAuto(t, arg)
        \/ Delete(t)
        \/ DynDelete(t)

Next == TimerTask \/ Tick \/ \E t \in Timer : KernelCall(t)

\* The timer task is not starved for ever, and the tick interrupt goes on.
Spec == Init /\ [][Next]_tvars /\ WF_tvars(TimerTask) /\ WF_tvars(Tick)
-----------------------------------------------------------------------------
\* The variables have their types; the command queue keeps its size.
TypeOK ==
  /\ tm \in [Timer -> ktimer_t]
  /\ g_timer_head \in Seq(Timer)
  /\ freed \subseteq Timer
  /\ g_timer_queue \in Seq(Commands) /\ Len(g_timer_queue) <= MsgNum
  /\ cb_msg \in Commands \cup {NoCommand}
  /\ g_timer_count \in Int /\ g_timer_count <= 0
  /\ pc \in Places
  /\ left \in Nat /\ q \in Nat \ {0} /\ late \in 0..MaxLate
  /\ calls \in 0..MaxCalls
  /\ owed \in [Timer -> Nat]

\* timer_state says whether a timer is on the list, and it is there once: a
\* second insertion (START of a running timer, a re-arm after a stop) would
\* close the links of klist_insert into a loop.
ActiveIffListed ==
  /\ \A t \in Timer : (tm[t].timer_state = "active") <=> t \in ToSet(g_timer_head)
  /\ IsInjective(g_timer_head)

\* The timer task never looks at memory that was given back: no timer that was
\* freed is on the list or named by a command that is still to be obeyed.
NoDanglingTimer ==
  \A t \in freed : t \notin ToSet(g_timer_head) /\ ~Pending(t)

\* The list is sorted by the time that remains, which is what lets the timer
\* task wait for its head only (k_timer.c:283).
SortedByRemain ==
  \A i, j \in DOMAIN g_timer_head :
    i < j => tm[g_timer_head[i]].match <= tm[g_timer_head[j]].match

\* However commands, ticks and passes interleave, a callback does not run
\* before init_count ticks have gone by since its START was obeyed.
NeverEarly ==
  [][pc # "cb" /\ pc' = "cb" => owed[g_timer_head[q]] = 0]_tvars

\* While the timer task waits, its wait ends no later than the first timer of
\* the list is due: a command that changes the list has ended the wait.
WaitsForHead ==
  pc = "timed" => g_timer_head # <<>> /\ left = tm[Head(g_timer_head)].match

\* A timer on the list gets its callback or leaves the list.
ActiveFires ==
  \A t \in Timer :
    t \in ToSet(g_timer_head) ~>
      t \notin ToSet(g_timer_head) \/ (pc = "cb" /\ g_timer_head[q] = t)
=============================================================================
