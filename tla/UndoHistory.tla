---------------------------- MODULE UndoHistory ----------------------------
(***************************************************************************)
(* What an undo history promises to the user, who knows of no commands and *)
(* no pointers: the versions the document went through, of which one is    *)
(* shown. CommandExecutor implements it.                                   *)
(***************************************************************************)
EXTENDS Integers, Sequences

CONSTANT Doc      \* the contents the document can have

VARIABLES
  versions,       \* the versions that can be gone back or forward to
  at,             \* the one that is shown
  saved           \* the version that was last read or written

vars == <<versions, at, saved>>

Init == saved \in Doc /\ versions = <<saved>> /\ at = 1

\* A new version forgets those that were undone, and perhaps the oldest one.
Edit(d) ==
  \E oldest \in {1, 2} \cap 1..at :
    /\ versions' = Append(SubSeq(versions, oldest, at), d)
    /\ at' = at - oldest + 2
    /\ UNCHANGED saved

Undo == at > 1 /\ at' = at - 1 /\ UNCHANGED <<versions, saved>>

Redo == at < Len(versions) /\ at' = at + 1 /\ UNCHANGED <<versions, saved>>

\* The last version is withdrawn after it was undone.
Withdraw ==
  /\ at < Len(versions)
  /\ versions' = SubSeq(versions, 1, Len(versions) - 1)
  /\ UNCHANGED <<at, saved>>

\* The last step and the one before it become one step.
Merge ==
  LET n == Len(versions) IN
  /\ at = n /\ n > 2
  /\ versions' = Append(SubSeq(versions, 1, n - 2), versions[n])
  /\ at' = n - 1
  /\ UNCHANGED saved

Save == saved' = versions[at] /\ UNCHANGED <<versions, at>>

Reopen == versions' = <<saved>> /\ at' = 1 /\ UNCHANGED saved

Next ==
  \/ \E d \in Doc : Edit(d)
  \/ Undo \/ Redo \/ Withdraw \/ Merge \/ Save \/ Reopen

Spec == Init /\ [][Next]_vars

=============================================================================
