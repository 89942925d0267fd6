--------------------------- MODULE MCEventDispatch ---------------------------
(***************************************************************************)
(* EventDispatch on small instances.                                       *)
(***************************************************************************)
EXTENDS EventDispatch, TLC

Symmetry == Permutations(Factory)
=============================================================================
