---------------------------- MODULE MCRhinoHeap -----------------------------
(***************************************************************************)
(* Model checking of RhinoHeap with regions that touch: High first, then   *)
(* Low and Middle below it.  MCMemory checks the rest.                     *)
(***************************************************************************)
EXTENDS RhinoHeap

Low == <<10, 13>>
Middle == <<23, 9>>
High == <<32, 10>>
LowAndMiddle == {Low, Middle}
=============================================================================
