------------------------- MODULE MCCommandExecutor -------------------------
(***************************************************************************)
(* CommandExecutor on small instances.                                     *)
(***************************************************************************)
EXTENDS CommandExecutor, TLC

Symmetry == Permutations(Command) \cup Permutations(Doc)
=============================================================================
