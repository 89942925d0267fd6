--------------------------- MODULE MCStructEditor ---------------------------
(***************************************************************************)
(* StructEditor on small instances.                                        *)
(***************************************************************************)
EXTENDS StructEditor, TLC

Symmetry == Permutations(Command) \cup Permutations(Char)
=============================================================================
