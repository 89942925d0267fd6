--------------------------- MODULE MCDocumentSave ---------------------------
(***************************************************************************)
(* DocumentSave on small instances.                                        *)
(***************************************************************************)
EXTENDS DocumentSave, TLC

Symmetry == Permutations(Command) \cup Permutations(Text)
=============================================================================
