----------------------------- MODULE MCCsiTimer -----------------------------
(***************************************************************************)
(* Model checking of CsiTimer with a user that deletes running timers.     *)
(* MCTimers checks the rest.                                               *)
(***************************************************************************)
EXTENDS CsiTimer
=============================================================================
