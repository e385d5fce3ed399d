----------------------------- MODULE MCSdioBus -----------------------------
(***************************************************************************)
(* Model checking of SdioBus with a host that honours busy; MCMacBus has   *)
(* the other hosts.                                                        *)
(***************************************************************************)
EXTENDS SdioBus
=============================================================================
