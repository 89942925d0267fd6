---------------------------- MODULE GroveCommands ----------------------------
(***************************************************************************)
(* The commands that change a grove. An elementary command is a record of  *)
(* what its object keeps; Execute and Unexecute are doExecute() and        *)
(* doUnexecute() of its class, Suggested is its pos().                     *)
(*                                                                         *)
(* A composite command, and an elementary one that executes a Join of its  *)
(* own, is the sequence of the elementary ones it is made of. It is built  *)
(* by executing them one after the other (MacroCommand::executeAndAdd), so *)
(* that each is made for the grove that the ones before it have left.      *)
(***************************************************************************)
EXTENDS GroveTree

-----------------------------------------------------------------------------
\* The constructors.

\* InsertText, RemoveText, ReplaceText: the text old at p becomes new.
ChangeText(op, p, old, new) == [op |-> op, pos |-> p, old |-> old, new |-> new]

\* InsertElement, InsertTextNode and PasteFragment.
InsertNodes(op, p, ns) == [op |-> op, pos |-> p, nodes |-> ns]

\* RemoveNode and RemoveGroup without their Join; joinPos is where that leaves the
\* cursor.
TakeNodes(g, from, to) ==
  LET l == PrevSibling(g, from)
      joins == IsText(l) /\ IsText(NextSibling(g, to))
  IN [op |-> "take", nodes |-> SiblingRange(g, from, to), pos |-> AfterNode(g, to),
      joinPos |-> IF joins THEN Pos(l, TextLength(g, l)) ELSE NoPos]

Join(g, first, second, atEnd) ==
  [op |-> "join", first |-> first, second |-> second, atEnd |-> atEnd,
   at |-> IF IsText(first) THEN TextLength(g, first) ELSE Len(g.kids[first])]

SplitNode(op, p, split) == [op |-> op, pos |-> p, split |-> split]

RenameElement(p, elem, newElem) ==
  [op |-> "rename", pos |-> p, elem |-> elem, newElem |-> newElem]

Untag(g, p, elem) ==
  [op |-> "untag", orig |-> p, elem |-> elem, pos |-> AfterNode(g, elem),
   nodes |-> g.kids[elem]]

ConvertToTag(p, nodes, tag) == [op |-> "tag", orig |-> p, nodes |-> nodes, tag |-> tag]

-----------------------------------------------------------------------------

\* The text of p with the characters new in place of those of old.
Replaced(g, p, old, new) ==
  LET s == g.data[p.node]
  IN SubSeq(s, 1, p.at) \o new \o SubSeq(s, p.at + Len(old) + 1, Len(s))

\* The preconditions that doExecute() checks. A split is at a place where it leaves
\* something on both sides, a join is of neighbours of one kind.
CanExecute(g, c) ==
  CASE c.op = "removeText" -> c.old # <<>>
    [] c.op = "splitText" -> c.pos.at \in 1 .. TextLength(g, c.pos.node) - 1
    [] c.op = "join" ->
         /\ IsText(c.first) = IsText(c.second)
         /\ IsText(c.first) \/ g.data[c.first] = g.data[c.second]
         /\ NextSibling(g, c.first) = c.second
    [] OTHER -> TRUE

Execute(g, c) ==
  CASE c.op \in {"insertText", "removeText", "replaceText"} ->
         SetData(g, c.pos.node, Replaced(g, c.pos, c.old, c.new))
    [] c.op \in {"insert", "paste"} -> Insert(g, c.pos, c.nodes)
    [] c.op = "take" -> RemoveNodes(g, c.nodes)
    [] c.op = "join" ->
         IF IsText(c.first)
         THEN RemoveNodes(SetData(g, c.first, g.data[c.first] \o g.data[c.second]),
                          <<c.second>>)
         ELSE RemoveNodes(Move(g, g.kids[c.second], Pos(c.first, Null)), <<c.second>>)
    [] c.op = "splitText" ->
         SetData(Insert(g, AfterNode(g, c.pos.node), <<c.split>>),
                 c.pos.node, SubSeq(g.data[c.pos.node], 1, c.pos.at))
    [] c.op = "splitElement" ->
         LET moved == IF c.pos.at = Null THEN <<>>
                      ELSE SiblingRange(g, c.pos.at, LastChild(g, c.pos.node))
         IN Move(Insert(g, AfterNode(g, c.pos.node), <<c.split>>),
                 moved, Pos(c.split, Null))
    [] c.op = "rename" ->
         LET p == AfterNode(g, c.elem)
         IN Insert(Move(RemoveNodes(g, <<c.elem>>), g.kids[c.elem], Pos(c.newElem, Null)),
                   p, <<c.newElem>>)
    [] c.op = "untag" -> Move(RemoveNodes(g, <<c.elem>>), c.nodes, c.pos)
    [] c.op = "tag" ->
         LET p == AfterNode(g, Last(c.nodes))
         IN Move(Insert(g, p, <<c.tag>>), c.nodes, Pos(c.tag, Null))

\* Mistake: what was first in the second node stays in the first one.
Joined_KeepsFirst(g, c) == SubSeq(g.kids[c.first], c.at + 2, Len(g.kids[c.first]))

\* What a join has added to its first node.
Joined(g, c) == SubSeq(g.kids[c.first], c.at + 1, Len(g.kids[c.first]))

Unexecute(g, c) ==
  CASE c.op \in {"insertText", "removeText", "replaceText"} ->
         SetData(g, c.pos.node, Replaced(g, c.pos, c.new, c.old))
    [] c.op \in {"insert", "paste"} -> RemoveNodes(g, c.nodes)
    [] c.op = "take" -> Insert(g, c.pos, c.nodes)
    [] c.op = "join" ->
         LET back == Insert(g, AfterNode(g, c.first), <<c.second>>)
         IN IF IsText(c.first)
            THEN SetData(back, c.first, SubSeq(g.data[c.first], 1, c.at))
            ELSE Move(back, Joined(g, c), Pos(c.second, Null))
    [] c.op = "splitText" ->
         RemoveNodes(SetData(g, c.pos.node, g.data[c.pos.node] \o g.data[c.split]),
                     <<c.split>>)
    [] c.op = "splitElement" ->
         Move(RemoveNodes(g, <<c.split>>), g.kids[c.split], Pos(c.pos.node, Null))
    [] c.op = "rename" ->
         LET p == AfterNode(g, c.newElem)
         IN Insert(Move(RemoveNodes(g, <<c.newElem>>), g.kids[c.newElem], Pos(c.elem, Null)),
                   p, <<c.elem>>)
    [] c.op = "untag" ->
         Move(Insert(g, c.pos, <<c.elem>>), c.nodes, Pos(c.elem, Null))
    [] c.op = "tag" ->
         LET p == AfterNode(g, c.tag)
         IN Insert(RemoveNodes(RemoveNodes(g, <<c.tag>>), c.nodes), p, c.nodes)

\* pos() of a command that is executed, in the grove g that it has left.
SuggestedDone(g, c) ==
  CASE c.op \in {"insertText", "removeText", "replaceText"} ->
         Pos(c.pos.node, c.pos.at + Len(c.new))
    [] c.op = "insert" ->
         IF IsText(c.nodes[1]) THEN Pos(c.nodes[1], TextLength(g, c.nodes[1]))
         ELSE Pos(c.nodes[1], Null)
    [] c.op = "join" ->
         IF ~IsText(c.first) THEN Pos(c.first, Null)
         ELSE Pos(c.first, c.at + IF c.atEnd THEN TextLength(g, c.second) ELSE 0)
    [] c.op = "splitText" -> Pos(c.split, 0)
    [] c.op = "splitElement" -> Pos(c.split, FirstChild(g, c.split))
    [] c.op = "rename" -> IF IsTextPos(c.pos) THEN c.pos ELSE Pos(c.newElem, c.pos.at)
    [] c.op = "tag" -> BeforeNode(g, c.tag)
    [] OTHER -> c.pos

\* pos() of a command that is not, or no longer, executed.
SuggestedUndone(g, c) ==
  CASE c.op = "removeText" -> Pos(c.pos.node, c.pos.at + Len(c.old))
    [] c.op = "take" /\ c.joinPos # NoPos -> c.joinPos
    [] c.op = "join" -> Pos(Parent(g, c.first), Null)
    [] c.op \in {"untag", "tag"} -> c.orig
    [] OTHER -> c.pos

-----------------------------------------------------------------------------
\* The grove that a command fits: what the operation that makes the command sees to.

\* A node that is in no place, so that it can be put at one; an element without content.
Apart(g, n) == n \in g.used \ {Document} /\ Parent(g, n) = Null
Blank(g, n) == n \in ElementNode /\ Apart(g, n) /\ g.kids[n] = <<>>

\* The node p is neither one of the nodes ns nor below them.
Separate(g, ns, p) ==
  p \notin ns /\ \E below \in SUBSET (Node \ {p}) : Closed(g, ns \cup below)

Placed(g, n) == n \in Node /\ Parent(g, n) # Null

\* A position in an element, and neighbours in the element p.
InElement(g, p) ==
  /\ p.node \in g.used \cap ElementNode
  /\ p.at \in ToSet(g.kids[p.node]) \cup {Null}

Neighbours(g, p, ns) ==
  \E i \in DOMAIN g.kids[p] : \E j \in i .. Len(g.kids[p]) : ns = SubSeq(g.kids[p], i, j)

Fits(g, c) ==
  \/ /\ c.op \in {"insertText", "removeText", "replaceText"}
     /\ IsText(c.pos.node) /\ c.pos.at \in 0 .. TextLength(g, c.pos.node)
     /\ \E n \in 0 .. TextLength(g, c.pos.node) - c.pos.at :
          c.old = SubSeq(g.data[c.pos.node], c.pos.at + 1, c.pos.at + n)
     /\ c.new \in Seq(Name \cup Char)
  \/ /\ c.op \in {"insert", "paste"}
     /\ InElement(g, c.pos)
     /\ c.nodes \in Seq(Node) /\ IsInjective(c.nodes)
     /\ \A i \in DOMAIN c.nodes : Apart(g, c.nodes[i])
     /\ Separate(g, ToSet(c.nodes), c.pos.node)
  \/ /\ c.op = "take"
     /\ \E p \in Node : Neighbours(g, p, c.nodes)
     /\ c.pos = AfterNode(g, Last(c.nodes))
  \/ /\ c.op = "join"
     /\ Placed(g, c.first) /\ c.second \in Node
     /\ c.at = IF IsText(c.first) THEN TextLength(g, c.first) ELSE Len(g.kids[c.first])
  \/ /\ c.op = "splitText"
     /\ IsText(c.pos.node) /\ Placed(g, c.pos.node) /\ c.pos.at \in Nat
     /\ IsText(c.split) /\ Apart(g, c.split)
     /\ g.data[c.split] = SubSeq(g.data[c.pos.node], c.pos.at + 1, TextLength(g, c.pos.node))
  \/ /\ c.op = "splitElement"
     /\ InElement(g, c.pos) /\ Placed(g, c.pos.node)
     /\ Blank(g, c.split)
  \/ /\ c.op = "rename"
     /\ c.elem \in ElementNode /\ Placed(g, c.elem)
     /\ Blank(g, c.newElem)
  \/ /\ c.op = "untag"
     /\ c.elem \in ElementNode /\ Placed(g, c.elem)
     /\ c.nodes = g.kids[c.elem] /\ c.pos = AfterNode(g, c.elem)
  \/ /\ c.op = "tag"
     /\ \E p \in Node : Neighbours(g, p, c.nodes)
     /\ Blank(g, c.tag)

-----------------------------------------------------------------------------
\* A composite command in the making; drop is a position that it is to keep valid
\* (adjustPos), or NoPos.

Begin(g, drop) == [grove |-> g, cmds |-> <<>>, ok |-> TRUE, drop |-> drop]

\* executeAndAdd(): nothing more is done once a command has failed.
Then(st, c) ==
  IF st.ok /\ CanExecute(st.grove, c)
  THEN [st EXCEPT !.grove = Execute(@, c), !.cmds = Append(@, c)]
  ELSE [st EXCEPT !.ok = FALSE]

Fail(st) == [st EXCEPT !.ok = FALSE]

\* A node is made for the command c that it is an argument of.
ThenWith(st, n, data, c) == Then([st EXCEPT !.grove = Made(@, n, data)], c)

\* Mistake: the parts are undone in the order in which they were done.
Undone_InOrder(g, cmds) == FoldLeft(Unexecute, g, cmds)

\* doUnexecute() and doExecute() of a composite command.
Undone(g, cmds) == FoldLeft(Unexecute, g, Reverse(cmds))

Redone(g, cmds) == FoldLeft(Execute, g, cmds)

FreeText(st) == FreeNode(st.grove, TextNode)
FreeElement(st) == FreeNode(st.grove, ElementNode)

\* Texts that meet become one.
ThenJoinTexts(st, l, r, atEnd) ==
  IF IsText(l) /\ IsText(r) THEN Then(st, Join(st.grove, l, r, atEnd)) ELSE st

\* RemoveNode and RemoveGroup: the texts on both sides become one.
ThenRemoveGroup(st, from, to) ==
  LET g == st.grove
      l == PrevSibling(g, from)
      r == NextSibling(g, to)
      Kept(p) == IF IsText(l) /\ p.node = r THEN Pos(l, p.at + TextLength(g, l)) ELSE p
  IN ThenJoinTexts(Then([st EXCEPT !.drop = IF IsText(r) THEN Kept(@) ELSE @],
                        TakeNodes(g, from, to)),
                   l, r, FALSE)

\* Mistake: the position to keep valid is not moved with the characters after it.
ThenRemoveText_DropStays(st, p, count) ==
  LET s == st.grove.data[p.node]
      len == Min({count, Len(s) - p.at})
  IN Then(st, ChangeText("removeText", p, SubSeq(s, p.at + 1, p.at + len), <<>>))

ThenRemoveText(st, p, count) ==
  LET s == st.grove.data[p.node]
      len == Min({count, Len(s) - p.at})
  IN Then([st EXCEPT !.drop = IF @.node = p.node /\ @.at >= p.at + len
                              THEN Pos(p.node, @.at - len) ELSE @],
          ChangeText("removeText", p, SubSeq(s, p.at + 1, p.at + len), <<>>))

\* Mistake: the new text does not begin with the character after the position.
ThenSplitText_SkipsOne(st, p) ==
  LET s == st.grove.data[p.node]
      n == FreeText(st)
  IN ThenWith(st, n, SubSeq(s, p.at + 2, Len(s)), SplitNode("splitText", p, n))

ThenSplitText(st, p) ==
  LET s == st.grove.data[p.node]
      n == FreeText(st)
  IN ThenWith(st, n, SubSeq(s, p.at + 1, Len(s)), SplitNode("splitText", p, n))

ThenSplitElement(st, p) ==
  LET n == FreeElement(st)
  IN ThenWith(st, n, st.grove.data[p.node], SplitNode("splitElement", p, n))

\* ForcedCommand: the position p is made one in an element.
Forced(st, p) ==
  LET at == AdjustBoundaryPos(st.grove, p) IN
  IF ~IsTextPos(at) THEN [st |-> st, pos |-> at]
  ELSE [st |-> ThenSplitText(st, at), pos |-> Pos(Parent(st.grove, at.node), FreeText(st))]

\* Untag::doExecute(). A single text that came from the element is joined to the text
\* after it only through the one before it.
ThenUntagRight(st, l, from, to, next) ==
  LET g == st.grove
      last == IF from = to \/ PrevSibling(g, to) = l THEN l ELSE to
  IN IF from # Null /\ NextSibling(g, last) = next
     THEN ThenJoinTexts(st, last, next, FALSE) ELSE st

ThenUntag(st, p) ==
  LET g == st.grove
      elem == IF IsTextPos(p) THEN Parent(g, p.node) ELSE p.node
      c == Untag(g, p, elem)
      l == PrevSibling(g, elem)
      from == FirstChild(g, elem)
  IN ThenUntagRight(ThenJoinTexts(Then(st, c), l, from, FALSE),
                    l, from, LastChild(g, elem), c.pos.at)

=============================================================================
