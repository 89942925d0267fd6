-------------------------- MODULE CommandExecutor --------------------------
(***************************************************************************)
(* The undo history of an editing session: Common::CommandExecutor, a list *)
(* of executed commands with a cursor (lastDone_), the commands after the  *)
(* cursor being the redo tail, and a mark (notModifiedAt_) that remembers  *)
(* which command was the last one done when the document was saved.        *)
(*                                                                         *)
(* Commands are heap objects known by their address: lastDone_ and         *)
(* notModifiedAt_ are raw pointers, and the address of a command that was  *)
(* dropped from the list may be given to a later command.                  *)
(*                                                                         *)
(* A definition named X_Mistake, here and in the other modules, is X with  *)
(* a mistake that a property of the module is there to notice.             *)
(***************************************************************************)
EXTENDS Integers, Sequences

CONSTANTS
  Command,        \* the addresses a command can be allocated at
  NULL,           \* the null pointer
  Doc,            \* the contents the document can have
  DepthLimit,     \* depthLimit_: app/max-undo-depth, not positive = unlimited
  AddressReuse,   \* may the address kept in notModifiedAt_ be allocated anew?
  RewriteLast,    \* may the editor merge or cancel the command just done?
  MaxHistory      \* bound of the model: the longest list of commands

ASSUME NullAssumption == NULL \notin Command
ASSUME LimitAssumption == DepthLimit \in Int /\ MaxHistory \in Nat
ASSUME SwitchAssumption == AddressReuse \in BOOLEAN /\ RewriteLast \in BOOLEAN

VARIABLES
  hist,           \* the children, first to last
  lastDone,       \* lastDone_
  notModifiedAt,  \* notModifiedAt_
  childCount,     \* childCount_
  wasCleared,     \* wasCleared_
  doc,            \* the document as edited
  saved           \* the document as it was last read or written

vars == <<hist, lastDone, notModifiedAt, childCount, wasCleared, doc, saved>>

\* A command object: isExecuted_, and the document it was made for and made.
CommandObject ==
  [addr : Command, before : Doc, after : Doc, executed : BOOLEAN]

Pointer == Command \cup {NULL}

\* The types of the variables.
TypeOK ==
  /\ hist \in Seq(CommandObject)
  /\ lastDone \in Pointer
  /\ notModifiedAt \in Pointer
  /\ childCount \in Nat
  /\ wasCleared \in BOOLEAN
  /\ doc \in Doc
  /\ saved \in Doc

-----------------------------------------------------------------------------

LastChild == IF hist = <<>> THEN NULL ELSE hist[Len(hist)].addr

\* The position of the command at address p among the children h, 0 for null.
Position(h, p) ==
  IF p = NULL THEN 0 ELSE CHOOSE i \in 1..Len(h) : h[i].addr = p

\* The number of children that are done: where lastDone_ points.
Done == Position(hist, lastDone)

IsUndoPossible == lastDone # NULL

IsRedoPossible == lastDone # LastChild /\ hist # <<>>

IsModified ==
  \/ wasCleared
  \/ IF notModifiedAt = NULL THEN lastDone # NULL
                             ELSE notModifiedAt # lastDone

\* Addresses the allocator can return: those of no live command.
Fresh ==
  Command \ ({hist[i].addr : i \in 1..Len(hist)}
             \cup IF AddressReuse THEN {} ELSE {notModifiedAt})

-----------------------------------------------------------------------------

Init ==
  /\ hist = <<>>
  /\ lastDone = NULL
  /\ notModifiedAt = NULL
  /\ childCount = 0
  /\ wasCleared = FALSE
  /\ doc \in Doc
  /\ saved = doc

WithoutRedo_KeepsTail == hist

\* The children left once the redo tail is cut off.
WithoutRedo == IF IsRedoPossible THEN SubSeq(hist, 1, Done) ELSE hist

TooDeep_CountsOneLess ==
  /\ DepthLimit > 0
  /\ childCount - (Len(hist) - Len(WithoutRedo)) > DepthLimit + 1
  /\ WithoutRedo # <<>>

TooDeep ==
  /\ DepthLimit > 0
  /\ childCount - (Len(hist) - Len(WithoutRedo)) > DepthLimit
  /\ WithoutRedo # <<>>

\* executeAndAdd() and the add() it ends in; a command that is not valid or
\* throws from execute() changes nothing.
ExecuteAndAdd(c, d) ==
  LET kept == IF TooDeep THEN Tail(WithoutRedo) ELSE WithoutRedo
      command == [addr |-> c, before |-> doc, after |-> d, executed |-> TRUE]
  IN
  /\ Len(kept) < MaxHistory
  /\ c \in Fresh
  /\ hist' = Append(kept, command)
  /\ lastDone' = c
  /\ childCount' = childCount - (Len(hist) - Len(kept)) + 1
  /\ wasCleared' = (wasCleared \/ TooDeep)
  /\ doc' = d
  /\ UNCHANGED <<notModifiedAt, saved>>

Undo ==
  /\ IsUndoPossible
  /\ hist' = [hist EXCEPT ![Done].executed = FALSE]
  /\ doc' = hist[Done].before
  /\ lastDone' = IF Done = 1 THEN NULL ELSE hist[Done - 1].addr
  /\ UNCHANGED <<notModifiedAt, childCount, wasCleared, saved>>

Redo ==
  /\ IsRedoPossible
  /\ ~hist[Done + 1].executed       \* execute() throws otherwise
  /\ hist' = [hist EXCEPT ![Done + 1].executed = TRUE]
  /\ doc' = hist[Done + 1].after
  /\ lastDone' = hist[Done + 1].addr
  /\ UNCHANGED <<notModifiedAt, childCount, wasCleared, saved>>

DropLast_KeepsMark(h) ==
  /\ hist' = h
  /\ lastDone' = IF lastDone # LastChild THEN lastDone
                 ELSE IF h = <<>> THEN NULL ELSE h[Len(h)].addr
  /\ childCount' = childCount - 1
  /\ UNCHANGED notModifiedAt

DropLast_CountsTwice(h) ==
  /\ hist' = h
  /\ lastDone' = IF lastDone # LastChild THEN lastDone
                 ELSE IF h = <<>> THEN NULL ELSE h[Len(h)].addr
  /\ childCount' = childCount - 2
  /\ notModifiedAt' = NULL

\* What removeLastCommand() makes of the list h it is left with.
DropLast(h) ==
  LET last == IF h = <<>> THEN NULL ELSE h[Len(h)].addr
  IN
  /\ hist' = h
  /\ lastDone' = IF lastDone = LastChild THEN last ELSE lastDone
  /\ notModifiedAt' = IF notModifiedAt = last THEN NULL ELSE notModifiedAt
  /\ childCount' = childCount - 1

\* The editor cancels the command it has just undone.
RemoveLastCommand ==
  /\ RewriteLast
  /\ IsRedoPossible
  /\ DropLast(SubSeq(hist, 1, Len(hist) - 1))
  /\ UNCHANGED <<wasCleared, doc, saved>>

MergeLastCommand_ForgetsLast ==
  /\ RewriteLast /\ Len(hist) >= 2 /\ ~IsRedoPossible
  /\ DropLast(SubSeq(hist, 1, Len(hist) - 1))
  /\ UNCHANGED <<wasCleared, doc, saved>>

\* mergeLastCommand() when mergeWith() answers TRUE: the last but one command
\* now stands for both. The editor merges only the command it has just done.
MergeLastCommand ==
  LET n == Len(hist)
  IN
  /\ RewriteLast
  /\ n >= 2
  /\ ~IsRedoPossible
  /\ DropLast([SubSeq(hist, 1, n - 1) EXCEPT ![n - 1].after = hist[n].after])
  /\ UNCHANGED <<wasCleared, doc, saved>>

SetNotModified ==
  /\ saved' = doc
  /\ wasCleared' = FALSE
  /\ notModifiedAt' = lastDone
  /\ UNCHANGED <<hist, lastDone, childCount, doc>>

\* The session is closed (the destructor calls clearHistory()) and the document
\* opened again from the disk with a new executor.
Reopen ==
  /\ hist' = <<>>
  /\ lastDone' = NULL
  /\ notModifiedAt' = NULL
  /\ childCount' = 0
  /\ wasCleared' = FALSE
  /\ doc' = saved
  /\ UNCHANGED saved

Next ==
  \/ \E c \in Command, d \in Doc : ExecuteAndAdd(c, d)
  \/ Undo
  \/ Redo
  \/ RemoveLastCommand
  \/ MergeLastCommand
  \/ SetNotModified
  \/ Reopen

Spec == Init /\ [][Next]_vars

-----------------------------------------------------------------------------

NoDuplicates(h) ==
  \A i, j \in 1..Len(h) : h[i].addr = h[j].addr => i = j

\* No command is in the list twice: an address names one command.
DistinctCommands == NoDuplicates(hist)

\* lastDone_ is null or a child, and the executed commands are exactly the
\* children up to it: undo() never meets a command that is not executed, redo()
\* never one that is (Command::execute and unexecute would throw).
ExecutedPrefix ==
  /\ \/ lastDone = NULL
     \/ Done \in 1..Len(hist) /\ hist[Done].addr = lastDone
  /\ \A i \in 1..Len(hist) : hist[i].executed <=> i <= Done

\* Every command is undone and redone in the document it was made for: the
\* children form a chain of documents and the current one is the link at
\* lastDone_, whatever was trimmed, merged or cancelled in between.
CommandsInContext ==
  /\ \A i \in 1..(Len(hist) - 1) : hist[i].after = hist[i + 1].before
  /\ \A i \in 1..Len(hist) : Done = i => doc = hist[i].after
  /\ \A i \in 1..Len(hist) : Done = i - 1 => doc = hist[i].before

\* childCount_ counts the children and a limited history keeps at most one
\* command more than its limit (add() trims before it appends).
DepthBound ==
  /\ childCount = Len(hist)
  /\ DepthLimit > 0 => childCount <= DepthLimit + 1

\* A mark that points at a child points at the command that made the saved
\* document, although merging and cancelling rewrite the end of the list.
MarkIsSaved ==
  \A i \in 1..Len(hist) :
    (hist[i].addr = notModifiedAt) => hist[i].after = saved

\* What the editor tells the user: a document that is not modified is the one
\* on the disk ("No changes were made since last save").
UnmodifiedIsSaved == ~IsModified => doc = saved

-----------------------------------------------------------------------------

\* The documents that undo and redo lead to.
Versions ==
  [i \in 1..(Len(hist) + 1) |->
    IF hist = <<>> THEN doc
    ELSE IF i = 1 THEN hist[1].before ELSE hist[i - 1].after]

Promise == INSTANCE UndoHistory WITH versions <- Versions, at <- Done + 1

\* The list of commands, its cursor and its pointers behave as a list of versions
\* with one of them shown: undo and redo walk along it, a new command cuts off
\* what was undone, merging and cancelling take the last step out of it.
KeepsPromise == Promise!Spec

=============================================================================
