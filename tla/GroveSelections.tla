--------------------------- MODULE GroveSelections ---------------------------
(***************************************************************************)
(* The commands on a selection of a grove, a pair of positions that may    *)
(* be in different elements: RemoveSelection, TagRegion and Copy, and      *)
(* Paste of what was copied. And what they are for, defined on the tags    *)
(* and characters of the document.                                         *)
(***************************************************************************)
EXTENDS GroveCommands, GroveShape

-----------------------------------------------------------------------------
\* SelectionCommand: the positions where its sides are cut, from the inside to the
\* common parent.

\* The nodes from n up to, but not, the child of cp above it.
Climb(g, n, cp) ==
  LET as == Ancestors(g, n)
      depth == SelectInSeq(as, LAMBDA a : a = cp)
  IN SubSeq(as, 1, depth - 2)

\* make_extra_pos().
ExtraPos(ps, cp, p) ==
  IF Last(ps).node # cp /\ ~IsTextPos(Last(ps)) THEN Append(ps, p) ELSE ps

Sides(g, from, to) ==
  LET cp == CommonAos(g, from.node, to.node)
      up == Climb(g, from.node, cp)
      left == <<from>> \o [i \in DOMAIN up |-> AfterNode(g, up[i])]
      down == Climb(g, to.node, cp)
      right == <<to>> \o [i \in DOMAIN down |-> BeforeNode(g, down[i])]
  IN IF Last(left).node = Last(right).node
     THEN [left |-> left, right |-> right]
     ELSE [left |-> ExtraPos(left, cp, AfterNode(g, Last(left).node)),
           right |-> ExtraPos(right, cp, BeforeNode(g, Last(right).node))]

\* Whether the selection is within one text.
WithinText(from, to) == from.node = to.node /\ IsTextPos(from)

\* The positions but the last, and without the first if that is in a text.
Inner(ps, inText) == SubSeq(ps, IF inText THEN 2 ELSE 1, Len(ps) - 1)

-----------------------------------------------------------------------------
\* RemoveSelection::buildSubCommands().

\* What is after p in its element, and what is before it.
RemoveAfter(st, p) ==
  IF p.at = Null THEN st
  ELSE ThenRemoveGroup(st, p.at, LastChild(st.grove, p.node))

RemoveBefore(st, p) ==
  LET g == st.grove
      to == IF p.at = Null THEN LastChild(g, p.node) ELSE PrevSibling(g, p.at)
  IN IF to = Null THEN st ELSE ThenRemoveGroup(st, FirstChild(g, p.node), to)

\* What is between the two sides in the common parent, l and r being its ends.
RemoveBetween(st, l, r) ==
  LET g == st.grove
      from == IF IsTextPos(l) THEN NextSibling(g, l.node) ELSE l.at
      end == IF IsTextPos(r) THEN r.node ELSE r.at
      to == IF end = Null THEN LastChild(g, r.node) ELSE PrevSibling(g, end)
  IN IF from = Null \/ from = end \/ to = Null THEN st
     ELSE IF Parent(g, from) # Parent(g, to) THEN Fail(st)
     ELSE ThenRemoveGroup(st, from, to)

\* What is selected of the text at either end.
ThenRemoveEnd(st, from) ==
  IF IsTextPos(from) THEN ThenRemoveText(st, from, TextLength(st.grove, from.node)) ELSE st

ThenRemoveBegin(st, to) ==
  IF IsTextPos(to) THEN ThenRemoveText(st, Pos(to.node, 0), to.at) ELSE st

ThenRemoveSides(st, sides, from, to) ==
  RemoveBetween(
    FoldLeft(RemoveBefore,
             FoldLeft(RemoveAfter, ThenRemoveBegin(ThenRemoveEnd(st, from), to),
                      Inner(sides.left, IsTextPos(from))),
             Inner(sides.right, IsTextPos(to))),
    Last(sides.left), Last(sides.right))

ThenRemoveSelection(st, first, last) ==
  LET from == AdjustBoundaryPos(st.grove, first)
      to == AdjustBoundaryPos(st.grove, last)
  IN IF WithinText(from, to) THEN ThenRemoveText(st, from, to.at - from.at)
     ELSE ThenRemoveSides(st, Sides(st.grove, from, to), from, to)

-----------------------------------------------------------------------------
\* TagRegion: SplitSelectionCommand::buildSubCommands() and makeSubcommand().

\* Where the next element is split, the one inside it having been.
SplitLeftAt(g, p) ==
  Pos(p.node, IF p.at = Null THEN LastChild(g, p.node) ELSE PrevSibling(g, p.at))
SplitRightAt(g, p) == Pos(p.node, NextSibling(g, p.at))

\* The elements of the positions ps are split, at the first of them as it is unless
\* there was a text to split.
SplitElements(st, ps, inText, Adjusted(_, _)) ==
  FoldLeft(LAMBDA s, i :
             ThenSplitElement(s, IF i = 1 /\ ~inText THEN ps[i] ELSE Adjusted(s.grove, ps[i])),
           st, [i \in DOMAIN ps |-> i])

\* The texts are split, and what was cut in a text is then before its second part.
SplitLeftText(sel) ==
  LET p == sel.left[1]
      n == FreeText(sel.st)
      after == Pos(Parent(sel.st.grove, p.node), n)
  IN IF ~IsTextPos(p) THEN sel
     ELSE [sel EXCEPT !.st = ThenSplitText(@, p), !.left[1] = after,
                      !.right[1] = IF WithinText(p, @) THEN Pos(n, @.at - p.at) ELSE @]

SplitRightText(sel) ==
  LET p == sel.right[1]
      after == Pos(Parent(sel.st.grove, p.node), FreeText(sel.st))
  IN IF ~IsTextPos(p) THEN sel
     ELSE [sel EXCEPT !.st = ThenSplitText(@, p), !.right[1] = after]

\* The siblings between the ends l and r of the sides go into a new element, inLeft and
\* inRight telling whether elements were split at that side.
ThenTagBetween(st, from, name, l, r, inLeft, inRight) ==
  LET g == st.grove
      first == IF l.at = Null THEN LastChild(g, l.node) ELSE l.at
      ln == IF inLeft THEN PrevSibling(g, first) ELSE first
      rn == IF r.at = Null THEN LastChild(g, r.node)
            ELSE IF inRight THEN r.at ELSE PrevSibling(g, r.at)
      tag == FreeElement(st)
      Tagged(n, m) ==
        ThenWith(st, tag, <<name>>, ConvertToTag(from, SiblingRange(g, n, m), tag))
  IN IF l.at = Null /\ r.at = Null THEN Tagged(LastChild(g, l.node), LastChild(g, l.node))
     ELSE IF ln = Null \/ ln = r.at \/ Parent(g, ln) # Parent(g, rn) THEN Fail(st)
     ELSE Tagged(ln, rn)

\* The elements that the selection is in at one side only are split.
ThenTagSides(sel, from, to, name) ==
  LET inner1 == Inner(sel.left, IsTextPos(from))
      inner2 == Inner(sel.right, IsTextPos(to))
      split == SplitElements(sel.st, inner1, IsTextPos(from), SplitLeftAt)
  IN ThenTagBetween(SplitElements(split, inner2, IsTextPos(to), SplitRightAt),
                    from, name, Last(sel.left), Last(sel.right),
                    inner1 # <<>>, inner2 # <<>>)

ThenTagRegion(st, first, last, name) ==
  LET from == AdjustBoundaryPos(st.grove, first)
      to == AdjustBoundaryPos(st.grove, last)
      sel == Sides(st.grove, from, to) @@ [st |-> st]
  IN ThenTagSides(SplitRightText(SplitLeftText(sel)), from, to, name)

-----------------------------------------------------------------------------
\* Copy::doExecute(). What it makes are shapes of no address.

NoAddress(n) == IF IsText(n) THEN MaxElements + 1 ELSE Document

RECURSIVE Cloned(_)
Cloned(shape) == <<NoAddress(shape[1]), shape[2],
                   [i \in DOMAIN shape[3] |-> Cloned(shape[3][i])]>>

CopyOf(g, n) == Cloned(Shape(g, n))

\* copyChildren(), and the part of a text: from one index to another.
CopyPart(g, n, from, to) ==
  IF IsText(n) THEN <<<<NoAddress(n), SubSeq(g.data[n], from + 1, to), <<>>>>>>
  ELSE [i \in 1 .. Max({to - from, 0}) |-> CopyOf(g, g.kids[n][from + i])]

\* A copy of the node n with the copied children, or of a text with what is copied.
CopyAs(g, n, parts) ==
  IF IsText(n) THEN parts[1] ELSE <<NoAddress(n), g.data[n], parts>>

Size(g, n) == IF IsText(n) THEN TextLength(g, n) ELSE Len(g.kids[n])

\* Mistake: the children are counted from one.
Idx_FromOne(g, p) ==
  IF IsTextPos(p) THEN p.at
  ELSE IF p.at = Null THEN Len(g.kids[p.node]) ELSE Index(g, p.at)

\* idx() of a position.
Idx(g, p) ==
  IF IsTextPos(p) THEN p.at
  ELSE IF p.at = Null THEN Len(g.kids[p.node]) ELSE Index(g, p.at) - 1

RECURSIVE CopyAfter(_, _, _, _, _, _), CopyBefore(_, _, _, _, _)
\* copyAfter(): of the node n from an index on, the copies inside being there already,
\* and of the nodes above it; of cp to an index.
CopyAfter(g, n, from, inside, cp, cpTo) ==
  IF n = cp THEN inside \o CopyPart(g, n, from, cpTo)
  ELSE CopyAfter(g, Parent(g, n), Index(g, n),
                 <<CopyAs(g, n, inside \o CopyPart(g, n, from, Size(g, n)))>>, cp, cpTo)

\* copyBefore(): of the node n up to an index.
CopyBefore(g, n, to, inside, cp) ==
  IF n = cp THEN inside
  ELSE CopyBefore(g, Parent(g, n), Index(g, n) - 1,
                  <<CopyAs(g, n, CopyPart(g, n, 0, to) \o inside)>>, cp)

Copied(g, first, last) ==
  LET cp == CommonAos(g, first.node, last.node)
      above == Ancestors(g, last.node)
      cpTo == IF last.node = cp THEN Idx(g, last)
              ELSE Index(g, above[SelectInSeq(above, LAMBDA a : a = cp) - 1]) - 1
  IN CopyAfter(g, first.node, Idx(g, first), <<>>, cp, cpTo)
     \o CopyBefore(g, last.node, Idx(g, last), <<>>, cp)

-----------------------------------------------------------------------------
\* Editor::paste() and Paste::buildSubCommands() of the shapes clip.

\* The nodes of the shapes are made; made is the sequence of the topmost.
RECURSIVE Make(_, _)
Make(g, shapes) ==
  FoldLeft(LAMBDA m, shape :
             LET n == FreeNode(m.grove, IF IsText(shape[1]) THEN TextNode ELSE ElementNode)
                 inner == Make(Made(m.grove, n, shape[2]), shape[3])
             IN [grove |-> [inner.grove EXCEPT !.kids[n] = inner.made],
                 made |-> Append(m.made, n)],
           [grove |-> g, made |-> <<>>], shapes)

ThenInsert(st, clip, p) ==
  LET m == Make(st.grove, clip)
  IN IF clip = <<>> THEN st
     ELSE Then([st EXCEPT !.grove = m.grove], InsertNodes("paste", p, m.made))

\* The texts that meet at both ends of what was put between two siblings become one.
ThenJoinRight(st, after) == ThenJoinTexts(st, PrevSibling(st.grove, after), after, FALSE)

ThenJoinEnds(st, before, after) ==
  LET next == NextSibling(st.grove, before)
      joined == IsText(before) /\ IsText(next) /\ next = after
  IN ThenJoinRight(ThenJoinTexts(st, before, next, TRUE), IF joined THEN Null ELSE after)

ThenPasteAt(st, clip, p) ==
  LET before == IF p.at = Null THEN LastChild(st.grove, p.node) ELSE PrevSibling(st.grove, p.at)
  IN ThenJoinEnds(ThenInsert(st, clip, p), before, p.at)

ThenPaste(st, clip, pos) ==
  LET forced == Forced(st, pos) IN ThenPasteAt(forced.st, clip, forced.pos)

=============================================================================
