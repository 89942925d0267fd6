----------------------------- MODULE GroveHistory -----------------------------
(***************************************************************************)
(* The history of a document's commands, with what each does to the        *)
(* grove: composite commands (MacroCommand) that are built one part after  *)
(* the other, added to the history, undone and redone, and given up when a *)
(* part cannot be executed. Each turn of the loops of a composite command  *)
(* is a step. Any part may come after any other: what the operations of    *)
(* the editor make of them is in the module GroveEditor.                   *)
(*                                                                         *)
(* The nodes that commands will make are in the grove from the start, at   *)
(* no place of it, with the names, texts and children that they will have. *)
(***************************************************************************)
EXTENDS GroveCommands

CONSTANTS
  Documents,   \* the groves that are opened, with the nodes that are to be made
  NewChar,     \* the characters that are typed
  MaxParts     \* bound: how many parts there are in all commands, for each document

ASSUME PartsAssumption == MaxParts \in [Documents -> Nat]

ASSUME DocumentsAssumption == \A g \in Documents : Grove(g) /\ Forest(g)

ASSUME NewCharAssumption == NewChar \subseteq Char

VARIABLES
  grove,     \* the grove
  opened,    \* as it was when it was opened
  hist,      \* the commands in the history
  done,      \* how many of them are done (up to lastDone_)
  cur,       \* the command that is being built, undone or redone
  at,        \* how many of its parts are executed
  state      \* what is being done with it, or "stopped" after a part that failed

vars == <<grove, opened, hist, done, cur, at, state>>

\* A composite command: its parts, and the grove as it was before the first of them
\* and after each.
Command(parts, groves) == [parts |-> parts, groves |-> groves]
NoCommand == Command(<<>>, <<>>)

\* The grove after the first i commands of the history, as each has left it.
GroveAfter(i) == IF i = 0 THEN opened ELSE Last(hist[i].groves)

-----------------------------------------------------------------------------

\* How many parts the commands have, those of the history and the one that is built.
Parts == FoldLeft(LAMBDA sum, command : sum + Len(command.parts), at, hist)

\* The document and all that is below it.
InDocument(g) ==
  LET WithKids(ns) == ns \cup UNION {ToSet(g.kids[n]) : n \in ns}
      below[i \in 0 .. MaxElements] ==
        IF i = 0 THEN {Document} ELSE WithKids(below[i - 1])
  IN below[MaxElements]

\* What there is to edit: texts and elements of the document, those but its root, and
\* the places in them.
Texts == {n \in InDocument(grove) : IsText(n) /\ Placed(grove, n)}
Elements == {n \in InDocument(grove) : ~IsText(n) /\ Placed(grove, n)}
Inner == Elements \ {Root(grove)}
Places == {p \in Positions(grove, Elements) : InElement(grove, p)}

\* The nodes that a command has references to.
Referred(c) ==
  {c[f] : f \in DOMAIN c \cap {"first", "second", "split", "elem", "newElem", "tag"}}
  \cup IF "nodes" \in DOMAIN c THEN ToSet(c.nodes) ELSE {}

Kept ==
  UNION {UNION {Referred(command.parts[i]) : i \in DOMAIN command.parts} :
           command \in ToSet(hist) \cup {cur}}

\* The nodes that are out of the document with all that is below them.
Outside(g) == UNION {ns \in SUBSET (Node \ InDocument(g)) : Closed(g, ns)}

\* The new nodes: at no place, and no command has a reference to them.
NewNodes == {n \in Outside(grove) \ Kept : Apart(grove, n)}
NewElements == {n \in NewNodes : Blank(grove, n)}
NewTexts == {n \in NewNodes : IsText(n)}

-----------------------------------------------------------------------------

Init ==
  /\ grove \in Documents
  /\ opened = grove
  /\ hist = <<>>
  /\ done = 0
  /\ cur = NoCommand
  /\ at = 0
  /\ state = "idle"

\* Work on a command begins, and ends.
BeginWork(command, executed, work) ==
  /\ state = "idle"
  /\ cur' = command
  /\ at' = executed
  /\ state' = work
  /\ UNCHANGED <<grove, opened, hist, done>>

EndWork(n) ==
  /\ done' = n
  /\ cur' = NoCommand
  /\ at' = 0
  /\ state' = "idle"
  /\ UNCHANGED <<grove, opened>>

-----------------------------------------------------------------------------
\* CommandExecutor::executeAndAdd() of a composite command.

BeginBuild ==
  /\ Parts < MaxParts[opened]
  /\ BeginWork(Command(<<>>, <<grove>>), 0, "build")

\* MacroCommand::executeAndAdd() of the next part. One that cannot be executed has the
\* others undone.
ExecuteAndAdd(c) ==
  /\ IF CanExecute(grove, c)
     THEN /\ grove' = Execute(grove, c)
          /\ cur' = Command(Append(cur.parts, c), Append(cur.groves, grove'))
          /\ at' = at + 1
          /\ UNCHANGED state
     ELSE /\ state' = "give up"
          /\ UNCHANGED <<grove, cur, at>>
  /\ UNCHANGED <<opened, hist, done>>

InsertText ==
  \E t \in Texts : \E i \in 0 .. TextLength(grove, t), ch \in NewChar :
    ExecuteAndAdd(ChangeText("insertText", Pos(t, i), <<>>, <<ch>>))

RemoveText ==
  \E t \in Texts : \E i \in 0 .. TextLength(grove, t) : \E n \in 0 .. TextLength(grove, t) - i :
    ExecuteAndAdd(ChangeText("removeText", Pos(t, i), SubSeq(grove.data[t], i + 1, i + n), <<>>))

ReplaceText ==
  \E t \in Texts : \E i \in 0 .. TextLength(grove, t) : \E n \in 1 .. TextLength(grove, t) - i :
    \E ch \in NewChar :
      ExecuteAndAdd(ChangeText("replaceText", Pos(t, i), SubSeq(grove.data[t], i + 1, i + n), <<ch>>))

\* A new element or text, or a fragment of the new nodes.
InsertNode ==
  \E n \in NewTexts \cup NewElements, p \in Places :
    ExecuteAndAdd(InsertNodes("insert", p, <<n>>))

PasteFragment ==
  \E n \in NewNodes \ (NewTexts \cup NewElements), t \in NewTexts, p \in Places :
    ExecuteAndAdd(InsertNodes("paste", p, <<n, t>>))

RemoveGroup ==
  \E p \in Elements : \E i \in DOMAIN grove.kids[p] : \E j \in i .. Len(grove.kids[p]) :
    ExecuteAndAdd(TakeNodes(grove, grove.kids[p][i], grove.kids[p][j]))

JoinNodes ==
  \E n, m \in Texts \cup Inner : ExecuteAndAdd(Join(grove, n, m, FALSE))

\* The new text is the second part of the one that is split.
SplitText ==
  \E new \in NewTexts, t \in Texts : \E i \in 0 .. TextLength(grove, t) :
    /\ grove.data[new] = SubSeq(grove.data[t], i + 1, TextLength(grove, t))
    /\ ExecuteAndAdd(SplitNode("splitText", Pos(t, i), new))

SplitElement ==
  \E new \in NewElements, p \in Places :
    /\ p.node \in Inner /\ grove.data[new] = grove.data[p.node]
    /\ ExecuteAndAdd(SplitNode("splitElement", p, new))

Rename ==
  \E new \in NewElements, elem \in Elements :
    ExecuteAndAdd(RenameElement(Pos(elem, Null), elem, new))

UntagElement ==
  \E elem \in Inner : ExecuteAndAdd(Untag(grove, Pos(elem, Null), elem))

TagNodes ==
  \E tag \in NewElements, p \in Elements :
    \E i \in DOMAIN grove.kids[p] : \E j \in i .. Len(grove.kids[p]) :
      ExecuteAndAdd(ConvertToTag(Pos(p, grove.kids[p][i]), SubSeq(grove.kids[p], i, j), tag))

Build ==
  /\ state = "build" /\ Parts < MaxParts[opened]
  /\ \/ InsertText \/ RemoveText \/ ReplaceText
     \/ InsertNode \/ PasteFragment \/ RemoveGroup
     \/ JoinNodes \/ SplitText \/ SplitElement
     \/ Rename \/ UntagElement \/ TagNodes

\* Mistake: those that were undone are cut off behind the new command, and it with them.
Add_CutsAfter ==
  /\ state = "build" /\ at > 0
  /\ hist' = SubSeq(Append(hist, cur), 1, done)
  /\ EndWork(done + 1)

\* The command goes into the history in place of those that were undone.
Add ==
  /\ state = "build" /\ at > 0
  /\ hist' = Append(SubSeq(hist, 1, done), cur)
  /\ EndWork(done + 1)

\* A command without parts, and one that was undone after a failure, is forgotten.
Forget ==
  /\ state \in {"build", "give up"} /\ at = 0
  /\ UNCHANGED hist
  /\ EndWork(done)

-----------------------------------------------------------------------------
\* CommandExecutor::undo() and redo().

BeginUndo ==
  /\ done > 0
  /\ BeginWork(hist[done], Len(hist[done].parts), "undo")

\* MacroCommand::doUnexecute(): the last part that is executed is undone.
UnexecutePart ==
  /\ state \in {"undo", "give up"} /\ at > 0
  /\ grove' = Unexecute(grove, cur.parts[at])
  /\ at' = at - 1
  /\ UNCHANGED <<opened, hist, done, cur, state>>

EndUndo ==
  /\ state = "undo" /\ at = 0
  /\ UNCHANGED hist
  /\ EndWork(done - 1)

BeginRedo ==
  /\ done < Len(hist)
  /\ BeginWork(hist[done + 1], 0, "redo")

\* MacroCommand::doExecute() of a command that has its parts. A failure leaves it
\* executed in part.
ExecutePart ==
  LET c == cur.parts[at + 1] IN
  /\ state = "redo" /\ at < Len(cur.parts)
  /\ IF CanExecute(grove, c)
     THEN grove' = Execute(grove, c) /\ at' = at + 1 /\ UNCHANGED state
     ELSE state' = "stopped" /\ UNCHANGED <<grove, at>>
  /\ UNCHANGED <<opened, hist, done, cur>>

EndRedo ==
  /\ state = "redo" /\ at = Len(cur.parts)
  /\ UNCHANGED hist
  /\ EndWork(done + 1)

Next ==
  \/ BeginBuild \/ Build \/ Add \/ Forget
  \/ BeginUndo \/ UnexecutePart \/ EndUndo
  \/ BeginRedo \/ ExecutePart \/ EndRedo

Spec == Init /\ [][Next]_vars

-----------------------------------------------------------------------------

\* The types of the variables.
TypeOK ==
  /\ Grove(grove) /\ Grove(opened)
  /\ done \in 0 .. Len(hist)
  /\ at \in 0 .. Len(cur.parts)
  /\ state \in {"idle", "build", "give up", "undo", "redo", "stopped"}

\* Whatever is done and undone, and between any two parts, a node is never at two places
\* of the document, nor in a text, in itself or below itself.
ForestKept == Forest(grove)

\* Undo and redo, and giving up a command that has failed, bring back exactly the grove
\* that there was: every node in its place, with its name or text, and also those that
\* are in no place, on which the commands yet to be undone or redone depend. It is so
\* after each part of a composite command, too.
UndoRestores == grove = IF state = "idle" THEN GroveAfter(done) ELSE cur.groves[at + 1]

\* What was executed once can be executed whenever it is redone: a composite command
\* never stops after some of its parts.
RedoSucceeds == state # "stopped"

=============================================================================
