------------------------------- MODULE GroveTree -------------------------------
(***************************************************************************)
(* The grove of a document as its commands see it: a tree of elements and  *)
(* texts, positions in it (GrovePos), and what Node, XListItem and         *)
(* GrovePos offer to move its nodes. Sections, choices and attributes are  *)
(* left out.                                                               *)
(*                                                                         *)
(* A node is its address, 1 being that of the document. A node that was    *)
(* removed is only not among the children of another; a command that has a *)
(* reference to it puts it back.                                           *)
(***************************************************************************)
EXTENDS Integers, Sequences, SequencesExt, FiniteSetsExt

CONSTANTS
  MaxElements, MaxTexts,   \* bounds: how many nodes there are at a time
  Name,                    \* the names of elements
  Char                     \* the characters of texts

ASSUME NodesAssumption == MaxElements \in Nat \ {0} /\ MaxTexts \in Nat

Null == 0
Document == 1

ElementNode == 1 .. MaxElements
TextNode == MaxElements + 1 .. MaxElements + MaxTexts
Node == ElementNode \cup TextNode

\* A grove: the children of each element, the name or the text of each node, and the
\* nodes that there are.
Grove(g) ==
  g \in [kids : [Node -> Seq(Node)], data : [Node -> Seq(Name \cup Char)],
        used : SUBSET Node]

IsText(n) == n \in TextNode

Parent(g, n) ==
  LET ps == {p \in g.used : n \in ToSet(g.kids[p])}
  IN IF ps = {} THEN Null ELSE CHOOSE p \in ps : TRUE

Siblings(g, n) == g.kids[Parent(g, n)]

Index(g, n) == SelectInSeq(Siblings(g, n), LAMBDA m : m = n)

At(s, i) == IF i \in DOMAIN s THEN s[i] ELSE Null

FirstChild(g, n) == At(g.kids[n], 1)
LastChild(g, n) == At(g.kids[n], Len(g.kids[n]))
Root(g) == FirstChild(g, Document)
NextSibling(g, n) == IF Parent(g, n) = Null THEN Null ELSE At(Siblings(g, n), Index(g, n) + 1)
PrevSibling(g, n) == IF Parent(g, n) = Null THEN Null ELSE At(Siblings(g, n), Index(g, n) - 1)

-----------------------------------------------------------------------------
\* Positions: at an index in a text, or in an element before a child, Null being
\* the end.

Pos(n, at) == [node |-> n, at |-> at]
NoPos == Pos(Null, Null)

IsTextPos(p) == IsText(p.node)

\* The position before the node n, and the one after it.
BeforeNode(g, n) == Pos(Parent(g, n), n)
AfterNode(g, n) == Pos(Parent(g, n), NextSibling(g, n))

TextLength(g, n) == Len(g.data[n])

AdjustBoundaryPos(g, p) ==
  IF ~IsTextPos(p) THEN p
  ELSE IF p.at = 0 THEN BeforeNode(g, p.node)
  ELSE IF TextLength(g, p.node) <= p.at THEN AfterNode(g, p.node)
  ELSE p

\* The positions within the nodes ns, texts or elements.
Positions(g, ns) ==
  UNION {IF IsText(n) THEN {Pos(n, i) : i \in 0 .. TextLength(g, n)}
         ELSE {Pos(n, m) : m \in ToSet(g.kids[n]) \cup {Null}} : n \in ns}

\* A node is in one place at most, neither in a text nor in itself, and the document is
\* in no other node.
OnePlace(g) ==
  /\ \A p, q \in Node : \A i \in DOMAIN g.kids[p], j \in DOMAIN g.kids[q] :
       g.kids[p][i] = g.kids[q][j] => p = q /\ i = j
  /\ \A p \in Node : g.kids[p] # <<>> => p \in g.used \cap ElementNode
  /\ \A p \in Node : ToSet(g.kids[p]) \subseteq g.used \ {p, Document}

\* The nodes ns hold all that is below them.
Closed(g, ns) == \A n \in ns : ToSet(g.kids[n]) \subseteq ns

\* No element is below itself: of any elements with children, one is a child of none of
\* them.
NoCycles(g) ==
  \A ns \in SUBSET {n \in ElementNode : g.kids[n] # <<>>} :
    ns # {} => \E n \in ns : \A p \in ns : n \notin ToSet(g.kids[p])

\* The nodes are in trees, that of the document and others.
Forest(g) == OnePlace(g) /\ NoCycles(g)

-----------------------------------------------------------------------------
\* Moves of nodes. A fragment is the sequence of the nodes that were taken.

\* The siblings from n to m.
SiblingRange(g, n, m) == SubSeq(Siblings(g, n), Index(g, n), Index(g, m))

\* takeAsFragment(): from the first of the siblings ns to the last of them.
RemoveNodes(g, ns) ==
  IF ns = <<>> THEN g
  ELSE LET i == Index(g, ns[1])
           j == Index(g, Last(ns))
       IN [g EXCEPT !.kids[Parent(g, ns[1])] =
             SubSeq(@, 1, i - 1) \o SubSeq(@, j + 1, Len(@))]

\* Mistake: after the child.
Insert_Behind(g, p, ns) ==
  IF p.at = Null
  THEN [g EXCEPT !.kids[p.node] = @ \o ns]
  ELSE LET i == Index(g, p.at)
       IN [g EXCEPT !.kids[Parent(g, p.at)] =
             SubSeq(@, 1, i) \o ns \o SubSeq(@, i + 1, Len(@))]

\* GrovePos::insert(): before the child wherever that is now, or at the end.
Insert(g, p, ns) ==
  IF p.at = Null
  THEN [g EXCEPT !.kids[p.node] = @ \o ns]
  ELSE LET i == Index(g, p.at)
       IN [g EXCEPT !.kids[Parent(g, p.at)] =
             SubSeq(@, 1, i - 1) \o ns \o SubSeq(@, i, Len(@))]

\* Mistake: the nodes are not taken from where they were.
Move_Copies(g, ns, p) == Insert(g, p, ns)

\* takeAsFragment() of the nodes ns, and their insertion at p.
Move(g, ns, p) == Insert(RemoveNodes(g, ns), p, ns)

\* A node that is made, with its name or text: the address is one that is free.
FreeNode(g, nodes) == Min(nodes \ g.used)

Made(g, n, data) ==
  [g EXCEPT !.used = @ \cup {n}, !.kids[n] = <<>>, !.data[n] = data]

SetData(g, n, data) == [g EXCEPT !.data[n] = data]

=============================================================================
