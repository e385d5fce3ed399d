------------------------------ MODULE MCTimers ------------------------------
(***************************************************************************)
(* Model checking of the timers: applications that use the calls of the    *)
(* CSI adapter, and applications that use those of the kernel, above the   *)
(* timer task or below it.  The behaviours are those of any one of them.   *)
(***************************************************************************)
EXTENDS CsiTimer

VARIABLE user     \* the application

\* The cfg: tasks below the timer task use the adapter; these are above it.
Above == INSTANCE CsiTimer WITH
  MaxLate <- 1, Urgent <- TRUE, MaxCalls <- 4

\* The calls of the kernel, on a static and a dynamic timer, with a queue of one
\* command, while the timer task is kept waiting ...
Kernel == INSTANCE RhinoTimer WITH
  Dyn <- Periodic, Rounds <- {0, 1}, MsgNum <- 1, MaxLate <- 1, Urgent <- TRUE,
  MaxCalls <- 3

\* ... and from below the timer task, which is always in time.
Prompt == INSTANCE RhinoTimer WITH
  Intervals <- {1, 3}, Rounds <- {0, 2}, MaxCalls <- 3

TimersInit == user \in {"csi", "csi above", "kernel", "kernel below"} /\ CsiInit

TimersNext ==
  /\ UNCHANGED user
  /\ \/ user = "csi" /\ CsiNext
     \/ user = "csi above" /\ Above!CsiNext
     \/ user = "kernel" /\ Kernel!Next /\ UNCHANGED <<at, want>>
     \/ user = "kernel below" /\ Prompt!Next /\ UNCHANGED <<at, want>>

\* The fairness of CsiTimer and of RhinoTimer.
TimersSpec ==
  /\ TimersInit /\ [][TimersNext]_<<user, vars>>
  /\ WF_vars(user = "csi" /\ CsiTimerTask)
  /\ WF_vars(user = "csi" /\ Tick /\ UNCHANGED <<at, want>>)
  /\ \A c \in Caller : SF_vars(user = "csi" /\ (StartStart(c) \/ DelFree(c)))
  /\ WF_tvars(user = "kernel" /\ Kernel!TimerTask)
  /\ WF_tvars(user = "kernel" /\ Kernel!Tick)
-----------------------------------------------------------------------------
\* A timer of the adapter keeps its kind.  No timer that was freed is on the list
\* or named by a command, unless a caller above the timer task deletes it through
\* the adapter: then the DEL command still names it, and nothing else.  A timer
\* task that is in time keeps the list sorted and waits for its head (k_timer.c,
\* csi_rhino.c).
TimersSound ==
  /\ user \in {"csi", "csi above"} => KindKept
  /\ user \in {"csi", "kernel"} => NoDanglingTimer
  /\ user = "csi above" => OnlyDelDangles
  /\ user = "kernel" => Kernel!TypeOK
  /\ user = "kernel below" => Prompt!TypeOK /\ SortedByRemain /\ WaitsForHead

\* A timer whose start succeeded runs, unless it is stopped or deleted; one that
\* is on the list runs or leaves it, also when the timer task is late.
TimersFire == (user = "csi" => StartedRuns) /\ (user = "kernel" => ActiveFires)
=============================================================================
