--------------------------- MODULE MCRhinoKernel ---------------------------
(***************************************************************************)
(* Model checking of RhinoKernel with nested locking: two tasks at two     *)
(* priorities above the idle task.  MCKernel checks the rest.              *)
(***************************************************************************)
EXTENDS RhinoKernel, TLC

CONSTANTS t1, t2

Nested == [calls |-> {"mutex", "sleep", "del"}, isr_calls |-> {},
           prio |-> t1 :> 1 @@ t2 :> 2, nest |-> 2, suspend |-> 0]

Programs == {Nested}
=============================================================================
