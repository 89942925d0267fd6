--------------------------- MODULE MCAutoSaveQueue ---------------------------
(***************************************************************************)
(* AutoSaveQueue on small instances.                                       *)
(***************************************************************************)
EXTENDS AutoSaveQueue, TLC

Symmetry == Permutations(Saver)
=============================================================================
