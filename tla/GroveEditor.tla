----------------------------- MODULE GroveEditor -----------------------------
(***************************************************************************)
(* The editing of a grove: the operations of GroveEditor::Editor, and the  *)
(* two that the structure editor makes of them, to replace the selection   *)
(* by the clipboard and to drag it to another place; undo and redo; and    *)
(* the position where a command leaves the cursor.                         *)
(*                                                                         *)
(* The history of the commands is that of the module CommandExecutor, here *)
(* with the commands that it holds.                                        *)
(***************************************************************************)
EXTENDS GroveSelections

CONSTANTS
  Documents,    \* the groves that are opened
  Clips,        \* what may be in the clipboard: sequences of shapes
  NewName,      \* the names for new and renamed elements
  NewChar,      \* the characters that are typed
  MaxHistory    \* bound: how many commands are done, for each shape of a document

VARIABLES
  grove,      \* the grove
  original,   \* its shape when it was opened
  hist,       \* the commands in the history
  done,       \* how many of them are done
  cursor      \* where the last command was done or undone

vars == <<grove, original, hist, done, cursor>>

\* The shape of the grove after the first i commands, as each has left it.
ShapeAfter(i) == IF i = 0 THEN original ELSE hist[i].after

\* The tags and characters of the root element, then.
EventsAfter(i) == Events(ShapeAfter(i)[3][1])

-----------------------------------------------------------------------------

Init ==
  /\ grove \in Documents
  /\ original = Shape(grove, Document)
  /\ hist = <<>>
  /\ done = 0
  /\ cursor = NoPos

\* The elements and texts, and the places in them.
Nodes == NodesOf(ShapeAfter(done)) \ {Document}
Places == Positions(grove, Nodes)

\* The selections with something in them, whatever side they are started from, each
\* with the offsets of its ends.
Selections ==
  LET off == [p \in Places |-> Offset(grove, p)]
  IN {[from |-> p, to |-> q, at |-> <<off[p], off[q]>>] :
        <<p, q>> \in {s \in Places \X Places : off[s[1]] < off[s[2]]}}

\* Mistake: the cursor goes to where the first part was done, whatever came after it.
CursorDone_First(g, cmds, at) == SuggestedDone(g, Head(cmds))

\* pos() of the command that was done, at being the index of the part that tells it,
\* and of the one that was undone. What was moved is undone to where the cursor was.
CursorDone(g, cmds, at) == SuggestedDone(g, cmds[at])

CursorUndone(g, command) ==
  CASE command.op.name = "move" -> NoPos
    [] command.op.name = "tagRegion" -> SuggestedUndone(g, Last(command.cmds))
    [] OTHER -> SuggestedUndone(g, Head(command.cmds))

\* executeAndUpdate() of the command that is made by st. One that has failed, or has
\* nothing to do, is undone as far as it was done, and forgotten.
DoAt(op, st, at) ==
  IF st.ok /\ st.cmds # <<>>
  THEN /\ grove' = st.grove
       /\ hist' = Append(hist, [op |-> op, cmds |-> st.cmds, at |-> at,
                                after |-> Shape(st.grove, Document)])
       /\ done' = done + 1
       /\ cursor' = CursorDone(st.grove, st.cmds, at)
       /\ UNCHANGED original
  ELSE /\ st.cmds # <<>>
       /\ grove' = [Undone(st.grove, st.cmds) EXCEPT !.used = grove.used]
       /\ UNCHANGED <<original, hist, done, cursor>>

\* Most commands leave the cursor where their last part was done.
Do(op, st) == DoAt(op, st, Len(st.cmds))

Start == Begin(grove, NoPos)

\* What was asked for: the operation, between which offsets of the document, and what
\* is put there or, by a cut, into the clipboard.
Op(name, at, new) == [name |-> name, at |-> at, new |-> new]
OpAt(name, p, new) == Op(name, <<Offset(grove, p), Offset(grove, p)>>, new)

TagsOf(name) == <<<<"open", name>>, <<"close", name>>>>
ContentOf(clip) == Content(FlattenSeq([i \in DOMAIN clip |-> Events(clip[i])]))

InsertText(p, ch) ==
  Do(OpAt("insertText", p, <<<<"char", ch>>>>),
     IF IsTextPos(p) THEN Then(Start, ChangeText("insertText", p, <<>>, <<ch>>))
     ELSE LET n == FreeText(Start)
          IN ThenWith(Start, n, <<ch>>, InsertNodes("insert", p, <<n>>)))

\* removeText(), or replaceText() with the characters new. A text that would be left
\* empty is removed.
ReplaceText(p, count, new) ==
  /\ IsTextPos(p)
  /\ Do(Op("replaceText", <<Offset(grove, p), Offset(grove, p) + count>>,
           [i \in DOMAIN new |-> <<"char", new[i]>>]),
        IF p.at = 0 /\ count = TextLength(grove, p.node) /\ new = <<>>
        THEN ThenRemoveGroup(Start, p.node, p.node)
        ELSE IF new = <<>> THEN ThenRemoveText(Start, p, count)
        ELSE LET old == SubSeq(grove.data[p.node], p.at + 1, p.at + count)
             IN Then(Start, ChangeText("replaceText", p, old, new)))

ThenInsertElement(forced, name) ==
  LET n == FreeElement(forced.st)
  IN ThenWith(forced.st, n, <<name>>, InsertNodes("insert", forced.pos, <<n>>))

InsertElement(p, name) ==
  Do(OpAt("insertElement", p, TagsOf(name)), ThenInsertElement(Forced(Start, p), name))

\* removeNode(), del() and backspace().
RemoveNode(n) ==
  /\ n # Root(grove)
  /\ Do(Op("removeNode", <<Offset(grove, BeforeNode(grove, n)), Offset(grove, AfterNode(grove, n))>>,
           <<>>),
        ThenRemoveGroup(Start, n, n))

SplitElement(p) ==
  LET forced == Forced(Start, p)
  IN /\ forced.pos.node # Root(grove)
     /\ Do(OpAt("splitElement", p, <<>>), ThenSplitElement(forced.st, forced.pos))

\* joinElements(): the texts that meet become one, too.
JoinElements(n) ==
  LET next == NextSibling(grove, n)
      fn == LastChild(grove, n)
      ln == FirstChild(grove, next)
      joined == Then(Start, Join(grove, n, next, FALSE))
  IN /\ next # Null /\ ~IsText(n)
     /\ DoAt(OpAt("joinElements", AfterNode(grove, n), <<>>),
           IF joined.ok /\ IsText(fn) /\ IsText(ln)
           THEN Then(joined, Join(joined.grove, fn, ln, FALSE)) ELSE joined,
           1)

RenameElementAt(p, name) ==
  LET elem == IF IsTextPos(p) THEN Parent(grove, p.node) ELSE p.node
      n == FreeElement(Start)
  IN Do(OpAt("renameElement", p, TagsOf(name)),
        ThenWith(Start, n, <<name>>, RenameElement(p, elem, n)))

\* The root element is not untagged.
UntagAt(p) ==
  /\ Root(grove) # IF IsTextPos(p) THEN Parent(grove, p.node) ELSE p.node
  /\ Do(OpAt("untag", p, <<>>), ThenUntag(Start, p))

Cut(s) ==
  Do(Op("cut", s.at, ContentOf(Copied(grove, s.from, s.to))),
     ThenRemoveSelection(Start, s.from, s.to))

TagRegion(s, name) ==
  Do(Op("tagRegion", s.at, TagsOf(name)), ThenTagRegion(Start, s.from, s.to, name))

\* A paste at the end of an element leaves the cursor there, others where they join.
DoPasted(op, st, atEnd) ==
  DoAt(op, st, IF atEnd THEN SelectInSeq(st.cmds, LAMBDA c : c.op = "paste") ELSE Len(st.cmds))

DoPaste(name, at, st, clip, p) ==
  DoPasted(Op(name, at, ContentOf(clip)), ThenPaste(st, clip, p),
           AdjustBoundaryPos(st.grove, p).at = Null)

Paste(p, clip) == DoPaste("paste", <<Offset(grove, p), Offset(grove, p)>>, Start, clip, p)

\* selection_paste(): what is pasted goes where the cut leaves the cursor.
ReplaceCut(s, clip, cut) ==
  /\ cut.ok /\ cut.cmds # <<>>
  /\ DoPaste("replace", s.at, cut, clip, CursorDone(cut.grove, cut.cmds, Len(cut.cmds)))

ReplaceSelection(s, clip) == ReplaceCut(s, clip, ThenRemoveSelection(Start, s.from, s.to))

\* SernaDragData::dropContentMove() to a place that neither is in what is dragged nor
\* touches it. It pastes whether or not there was something that could be cut.
Drop(at, clip, cut) == DoPaste("move", at, cut, clip, cut.drop)

DropCut(at, clip, cut) == Drop(at, clip, IF cut.ok THEN cut ELSE Begin(grove, cut.drop))

MoveSelection(s, p) ==
  /\ Offset(grove, p) \notin s.at[1] .. s.at[2]
  /\ DropCut(Append(s.at, Offset(grove, p)), Copied(grove, s.from, s.to),
             ThenRemoveSelection(Begin(grove, p), s.from, s.to))

Undo ==
  LET cmds == hist[done].cmds
      g == Undone(grove, cmds)
  IN /\ done > 0
     /\ grove' = g
     /\ done' = done - 1
     /\ cursor' = CursorUndone(g, hist[done])
     /\ UNCHANGED <<original, hist>>

Redo ==
  LET cmds == hist[done + 1].cmds
      g == Redone(grove, cmds)
  IN /\ done < Len(hist)
     /\ grove' = g
     /\ done' = done + 1
     /\ cursor' = CursorDone(g, cmds, hist[done + 1].at)
     /\ UNCHANGED <<original, hist>>

Edit ==
  /\ done = Len(hist) /\ done < MaxHistory[original]
  /\ \/ \E p \in Places, ch \in NewChar : InsertText(p, ch)
     \/ \E p \in Places, new \in {<<>>} \cup {<<ch>> : ch \in NewChar} :
          \E count \in 1 .. TextLength(grove, p.node) - p.at : ReplaceText(p, count, new)
     \/ \E p \in Places, name \in NewName : InsertElement(p, name)
     \/ \E n \in Nodes : RemoveNode(n)
     \/ \E p \in Places : SplitElement(p)
     \/ \E n \in Nodes \ {Root(grove)} : JoinElements(n)
     \/ \E p \in Places, name \in NewName : RenameElementAt(p, name)
     \/ \E p \in Places : UntagAt(p)
     \/ \E p \in Places, clip \in Clips : Paste(p, clip)
     \/ \E s \in Selections :
          \/ Cut(s)
          \/ \E name \in NewName : TagRegion(s, name)
          \/ \E clip \in Clips : ReplaceSelection(s, clip)
          \/ \E p \in Places : MoveSelection(s, p)

Next == Edit \/ Undo \/ Redo

Spec == Init /\ [][Next]_vars

-----------------------------------------------------------------------------
\* What the operations are for, said of the tags and characters E of the document.

\* The index of the other tag of the element, or that of the character.
Mate(E, i) ==
  IF E[i].mark = "char" THEN i
  ELSE CHOOSE j \in DOMAIN E : j # i /\ E[j].node = E[i].node /\ E[j].mark # "char"

\* The tags and characters at the indexes I, in their order.
Piece(E, I) == LET is == SelectSeq([i \in DOMAIN E |-> i], LAMBDA i : i \in I)
               IN Content([i \in DOMAIN is |-> E[is[i]]])

\* The document with new at the offset d, and without what is at the indexes I.
Put(E, I, d, new) ==
  Piece(E, (1 .. d) \ I) \o new \o Piece(E, (d + 1 .. Len(E)) \ I)

\* The tags of the selection whose mates are not in it.
Lone(E, a, b) == {i \in a + 1 .. b : Mate(E, i) \notin a + 1 .. b}

\* The copy of a selection: the elements that it has a part of are completed.
Copy(E, a, b) ==
  LET mates == {Mate(E, i) : i \in Lone(E, a, b)}
  IN Piece(E, (a + 1 .. b) \cup mates)

\* The opening tag of the element that the offset a is in.
Enclosing(E, a) == Max({i \in 1 .. a : E[i].mark = "open" /\ Mate(E, i) > a})

\* The documents that may come of an operation. What replaces a selection is put
\* where that was, at whichever side of the tags that stay there.
Wanted(op, E) ==
  LET a == op.at[1]
      b == op.at[2]
      whole == (a + 1 .. b) \ Lone(E, a, b)
      open == Enclosing(E, a)
      close == Mate(E, open)
      marked(mark) == {i \in Lone(E, a, b) : E[i].mark = mark}
  IN CASE op.name \in {"insertText", "insertElement", "paste"} -> {Put(E, {}, a, op.new)}
       [] op.name = "replaceText" -> {Put(E, whole, a, op.new)}
       [] op.name \in {"removeNode", "cut"} -> {Put(E, whole, a, <<>>)}
       [] op.name = "replace" -> {Put(E, whole, d, op.new) : d \in a .. b}
       [] op.name = "move" -> {Put(E, whole, op.at[3], op.new)}
       [] op.name = "splitElement" -> {Put(E, {}, a, Piece(E, {close}) \o Piece(E, {open}))}
       [] op.name = "joinElements" -> {Put(E, {a, a + 1}, a, <<>>)}
       [] op.name = "untag" -> {Put(E, {open, close}, a, <<>>)}
       [] op.name = "renameElement" ->
            {Piece(E, 1 .. open - 1) \o <<op.new[1]>> \o Piece(E, open + 1 .. close - 1)
             \o <<op.new[2]>> \o Piece(E, close + 1 .. Len(E))}
       [] op.name = "tagRegion" ->
            {Piece(E, 1 .. a) \o Piece(E, marked("close")) \o <<op.new[1]>>
             \o Copy(E, a, b)
             \o <<op.new[2]>> \o Piece(E, marked("open")) \o Piece(E, b + 1 .. Len(E))}

-----------------------------------------------------------------------------

\* Undo and redo bring back the very nodes that there were, in their places, so that
\* the commands that refer to them can be undone and redone in their turn; and a
\* command that fails half-way leaves nothing behind.
UndoRestores == Shape(grove, Document) = ShapeAfter(done)

\* The cursor is put at a place that exists.
CursorInGrove == cursor = NoPos \/ cursor \in Positions(grove, NodesOf(ShapeAfter(done)))

\* The command that was made last has done what was asked for, in whatever elements
\* the selection begins and ends: nothing else is lost, added or moved.
DoneAsWanted ==
  done > 0 /\ done = Len(hist) =>
    Content(EventsAfter(done)) \in Wanted(hist[done].op, EventsAfter(done - 1))

\* What is put into the clipboard, or dragged, is what was selected.
CopiesSelection ==
  done > 0 /\ hist[done].op.name \in {"cut", "move"} =>
    hist[done].op.new = Copy(EventsAfter(done - 1), hist[done].op.at[1], hist[done].op.at[2])

\* The parts of the command that was made last fit the groves that they were made for,
\* which is what the theorems on the history of commands ask of them.
PartsFit ==
  done > 0 /\ done = Len(hist) =>
    LET cmds == hist[done].cmds
        before(i) == Redone(Undone(grove, cmds), SubSeq(cmds, 1, i - 1))
    IN \A i \in DOMAIN cmds :
         /\ Grove(before(i)) /\ Forest(before(i))
         /\ Fits(before(i), cmds[i]) /\ CanExecute(before(i), cmds[i])

=============================================================================
