--------------------------- MODULE MCPosixRwLock ---------------------------
(***************************************************************************)
(* Model checking of PosixRwLock with a lock that the threads initialise   *)
(* themselves, at its first use.  MCPosix checks the rest.                 *)
(***************************************************************************)
EXTENDS PosixRwLock
=============================================================================
