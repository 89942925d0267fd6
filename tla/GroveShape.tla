------------------------------ MODULE GroveShape ------------------------------
(***************************************************************************)
(* What is below a node of a grove and above it: its ancestors, the shape  *)
(* of its subtree, and the tags and characters that a reader of the        *)
(* document sees.                                                          *)
(***************************************************************************)
EXTENDS GroveTree

RECURSIVE Ancestors(_, _)
\* n and the nodes above it, up to the document.
Ancestors(g, n) == IF n = Null THEN <<>> ELSE <<n>> \o Ancestors(g, Parent(g, n))

CommonAos(g, n, m) ==
  LET as == Ancestors(g, m)
  IN as[SelectInSeq(as, LAMBDA a : a \in ToSet(Ancestors(g, n)))]

-----------------------------------------------------------------------------
\* What a reader of the document sees.

\* The subtree of n, with the addresses of its nodes.
RECURSIVE Shape(_, _)
Shape(g, n) ==
  <<n, g.data[n], [i \in DOMAIN g.kids[n] |-> Shape(g, g.kids[n][i])]>>

RECURSIVE NodesOf(_)
NodesOf(shape) == {shape[1]} \cup UNION {NodesOf(shape[3][i]) : i \in DOMAIN shape[3]}

\* The tags and characters in their order. A tag is of its node, a character of its
\* text; what distinguishes them otherwise is in mark.
Event(mark, n, value) == [mark |-> mark, node |-> n, value |-> value]

RECURSIVE Events(_)
Events(shape) ==
  IF IsText(shape[1])
  THEN [i \in DOMAIN shape[2] |-> Event("char", shape[1], shape[2][i])]
  ELSE <<Event("open", shape[1], shape[2][1])>>
       \o FlattenSeq([i \in DOMAIN shape[3] |-> Events(shape[3][i])])
       \o <<Event("close", shape[1], shape[2][1])>>

\* The events without the addresses of their nodes: the document as it is saved.
Content(events) == [i \in DOMAIN events |-> <<events[i].mark, events[i].value>>]

\* How many events there are before the position p. An empty text has none of its own.
RECURSIVE Offset(_, _)
Offset(g, p) ==
  CASE p.node = Document /\ p.at = Root(g) -> 0
    [] IsTextPos(p) -> Offset(g, BeforeNode(g, p.node)) + p.at
    [] OTHER ->
         Offset(g, BeforeNode(g, p.node)) + 1
         + FoldLeft(LAMBDA sum, n : sum + Len(Events(Shape(g, n))), 0,
                    IF p.at = Null THEN g.kids[p.node]
                    ELSE SubSeq(g.kids[p.node], 1, Index(g, p.at) - 1))

===============================================================================
