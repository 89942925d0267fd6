----------------------------- MODULE MCAutoSave -----------------------------
(***************************************************************************)
(* AutoSave on small instances.                                            *)
(***************************************************************************)
EXTENDS AutoSave, TLC

Symmetry == Permutations(Command)
=============================================================================
