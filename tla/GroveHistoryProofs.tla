-------------------------- MODULE GroveHistoryProofs --------------------------
(***************************************************************************)
(* Proofs about the commands that change a grove and about their history,  *)
(* for any number of nodes, any names and characters, any documents and    *)
(* any number of parts.                                                    *)
(*                                                                         *)
(* A command takes nodes from between two children, or puts nodes between  *)
(* two, once or a few times (lemmas Put and Take): the first sections say  *)
(* what that does to the children of one node, to where all nodes are, and *)
(* to what is below what. Then each command has a lemma (...Inverts): it   *)
(* leaves a grove in which a node is in one place and none below itself,   *)
(* and undoing it brings back the grove that there was. The invariant of   *)
(* the history is that every command in it is a chain of parts, each of    *)
(* which fits the grove that the one before it has left.                   *)
(***************************************************************************)
EXTENDS GroveHistory, SequenceTheorems, TLAPS

LEMMA NodeFacts == Node \subseteq Nat \ {0} /\ Null \notin Node
BY NodesAssumption DEF Node, ElementNode, TextNode, Null

LEMMA ParentOf ==
  ASSUME NEW g, Grove(g), OnePlace(g), NEW p \in Node, NEW i \in DOMAIN g.kids[p]
  PROVE  Parent(g, g.kids[p][i]) = p
<1> DEFINE n == g.kids[p][i]
           ps == {q \in g.used : n \in ToSet(g.kids[q])}
<1>1. p \in ps
  BY DEF OnePlace, ToSet, Grove
<1>2. \A q \in ps : q = p
  BY DEF OnePlace, ToSet, Grove
<1>3. Parent(g, n) = CHOOSE q \in ps : TRUE
  BY <1>1 DEF Parent
<1> HIDE DEF ps
<1> QED
  BY <1>1, <1>2, <1>3

LEMMA IndexOf ==
  ASSUME NEW g, Grove(g), OnePlace(g), NEW p \in Node, NEW i \in DOMAIN g.kids[p]
  PROVE  Index(g, g.kids[p][i]) = i
<1> DEFINE s == g.kids[p]
           I == {j \in 1 .. Len(s) : s[j] = s[i]}
<1>1. s \in Seq(Node) /\ i \in 1 .. Len(s)
  BY DEF Grove
<1>2. I = {i}
  BY <1>1 DEF OnePlace
<1>3. Index(g, s[i]) = Min(I)
  BY <1>2, ParentOf DEF Index, Siblings, SelectInSeq
<1> QED
  BY <1>1, <1>2, <1>3 DEF Min

-----------------------------------------------------------------------------
\* Sequences.

LEMMA SplitSeq ==
  ASSUME NEW S, NEW s \in Seq(S), NEW i \in 0 .. Len(s)
  PROVE  /\ SubSeq(s, 1, i) \in Seq(S) /\ SubSeq(s, i + 1, Len(s)) \in Seq(S)
         /\ s = SubSeq(s, 1, i) \o SubSeq(s, i + 1, Len(s))
         /\ Len(SubSeq(s, 1, i)) = i /\ Len(SubSeq(s, i + 1, Len(s))) = Len(s) - i
<1>1. \A k \in 1 .. Len(s) : s[k] \in S
  BY ElementOfSeq
<1>2. SubSeq(s, 1, i) \in Seq(S) /\ Len(SubSeq(s, 1, i)) = i
  BY <1>1, SubSeqProperties
<1>3. SubSeq(s, i + 1, Len(s)) \in Seq(S) /\ Len(SubSeq(s, i + 1, Len(s))) = Len(s) - i
  BY <1>1, SubSeqProperties
<1>4. SubSeq(s, 1, i) \o SubSeq(s, i + 1, Len(s)) = SubSeq(s, 1, Len(s))
  <2>1. /\ 1 \in 1 .. Len(s) + 1 /\ i \in 1 - 1 .. Len(s) /\ Len(s) \in i .. Len(s)
    BY LenProperties
  <2> QED
    BY <2>1, ConcatAdjacentSubSeq
<1>5. SubSeq(s, 1, Len(s)) = s
  BY SubSeqFull
<1> QED
  BY <1>2, <1>3, <1>4, <1>5

LEMMA CutSeq ==
  ASSUME NEW S, NEW s \in Seq(S), NEW i \in 1 .. Len(s), NEW j \in i .. Len(s)
  PROVE  /\ SubSeq(s, 1, i - 1) \in Seq(S) /\ SubSeq(s, i, j) \in Seq(S)
         /\ SubSeq(s, j + 1, Len(s)) \in Seq(S)
         /\ s = SubSeq(s, 1, i - 1) \o SubSeq(s, i, j) \o SubSeq(s, j + 1, Len(s))
         /\ Len(SubSeq(s, i, j)) = j - i + 1 /\ Len(SubSeq(s, 1, i - 1)) = i - 1
<1>1. \A k \in 1 .. Len(s) : s[k] \in S
  BY ElementOfSeq
<1>2. SubSeq(s, 1, i - 1) \in Seq(S) /\ Len(SubSeq(s, 1, i - 1)) = i - 1
  BY <1>1, SubSeqProperties
<1>3. SubSeq(s, i, j) \in Seq(S) /\ Len(SubSeq(s, i, j)) = j - i + 1
  BY <1>1, SubSeqProperties
<1>4. SubSeq(s, 1, i - 1) \o SubSeq(s, i, j) = SubSeq(s, 1, j)
  <2>1. /\ Len(s) \in Nat /\ 1 \in 1 .. Len(s) + 1 /\ i - 1 \in 1 - 1 .. Len(s)
        /\ j \in i - 1 .. Len(s) /\ i - 1 + 1 = i
    BY LenProperties
  <2> QED
    BY <2>1, ConcatAdjacentSubSeq
<1>5. SubSeq(s, 1, j) \o SubSeq(s, j + 1, Len(s)) = s /\ SubSeq(s, j + 1, Len(s)) \in Seq(S)
  <2>1. j \in 0 .. Len(s)
    BY LenProperties
  <2> QED
    BY <2>1, SplitSeq
<1> QED
  BY <1>2, <1>3, <1>4, <1>5

\* What a sequence of two pieces is made of, and one of three.
TwoOf(S, a, b) ==
  /\ a \o b \in Seq(S) /\ Len(a \o b) = Len(a) + Len(b)
  /\ \A i \in 1 .. Len(a) : (a \o b)[i] = a[i]
  /\ \A i \in 1 .. Len(b) : (a \o b)[Len(a) + i] = b[i]
  /\ SubSeq(a \o b, 1, Len(a)) = a
  /\ SubSeq(a \o b, Len(a) + 1, Len(a \o b)) = b

ThreeOf(S, a, m, b) ==
  /\ a \o m \o b \in Seq(S) /\ Len(a \o m \o b) = Len(a) + Len(m) + Len(b)
  /\ \A i \in 1 .. Len(a) : (a \o m \o b)[i] = a[i]
  /\ \A i \in 1 .. Len(m) : (a \o m \o b)[Len(a) + i] = m[i]
  /\ \A i \in 1 .. Len(b) : (a \o m \o b)[Len(a) + Len(m) + i] = b[i]
  /\ SubSeq(a \o m \o b, 1, Len(a)) = a
  /\ SubSeq(a \o m \o b, Len(a) + Len(m) + 1, Len(a \o m \o b)) = b

LEMMA TwoPieces ==
  ASSUME NEW S, NEW a \in Seq(S), NEW b \in Seq(S)
  PROVE  TwoOf(S, a, b)
<1>1. /\ a \o b \in Seq(S) /\ Len(a \o b) = Len(a) + Len(b)
      /\ \A i \in 1 .. Len(a) + Len(b) :
           (a \o b)[i] = IF i <= Len(a) THEN a[i] ELSE b[i - Len(a)]
  BY ConcatProperties
<1>2. \A i \in 1 .. Len(a) + Len(b) : (a \o b)[i] \in S
  BY <1>1, ElementOfSeq
<1>3. \A i \in 1 .. Len(b) : (a \o b)[Len(a) + i] = b[i]
  BY <1>1
<1>4. SubSeq(a \o b, 1, Len(a)) = a
  <2>1. /\ SubSeq(a \o b, 1, Len(a)) \in Seq(S) /\ Len(SubSeq(a \o b, 1, Len(a))) = Len(a)
        /\ \A i \in 1 .. Len(a) : SubSeq(a \o b, 1, Len(a))[i] = (a \o b)[i]
    BY <1>1, <1>2, SubSeqProperties
  <2> QED
    BY <1>1, <2>1, SeqEqual
<1>5. SubSeq(a \o b, Len(a) + 1, Len(a \o b)) = b
  <2> DEFINE r == SubSeq(a \o b, Len(a) + 1, Len(a) + Len(b))
  <2>1. /\ r \in Seq(S) /\ Len(r) = Len(b)
        /\ \A i \in 1 .. Len(b) : r[i] = (a \o b)[Len(a) + 1 + i - 1]
    BY <1>1, <1>2, SubSeqProperties
  <2>2. \A i \in 1 .. Len(b) : r[i] = b[i]
    BY <1>3, <2>1
  <2> HIDE DEF r
  <2>3. r = b
    BY <2>1, <2>2, SeqEqual
  <2> QED
    BY <1>1, <2>3 DEF r
<1>6. \A i \in 1 .. Len(a) : (a \o b)[i] = a[i]
  BY <1>1
<1> QED
  BY <1>1, <1>3, <1>4, <1>5, <1>6 DEF TwoOf

LEMMA ThreePieces ==
  ASSUME NEW S, NEW a \in Seq(S), NEW m \in Seq(S), NEW b \in Seq(S)
  PROVE  ThreeOf(S, a, m, b)
<1>1. m \o b \in Seq(S)
  BY ConcatProperties
<1>2. a \o m \o b = a \o (m \o b)
  BY ConcatAssociative
<1>3. TwoOf(S, a, m)
  BY TwoPieces
<1> DEFINE c == a \o m
<1>4. c \in Seq(S) /\ Len(c) = Len(a) + Len(m)
  BY <1>3 DEF TwoOf
<1> HIDE DEF c
<1>5. TwoOf(S, c, b)
  BY <1>4, TwoPieces
<1>6. TwoOf(S, a, m \o b)
  BY <1>1, TwoPieces
<1>7. SubSeq(a \o m \o b, 1, Len(a)) = a
  BY <1>2, <1>6 DEF TwoOf
<1>8. /\ c \o b \in Seq(S) /\ Len(c \o b) = Len(a) + Len(m) + Len(b)
      /\ \A i \in 1 .. Len(a) + Len(m) : (c \o b)[i] = c[i]
      /\ \A i \in 1 .. Len(b) : (c \o b)[Len(a) + Len(m) + i] = b[i]
      /\ SubSeq(c \o b, Len(a) + Len(m) + 1, Len(c \o b)) = b
  BY <1>4, <1>5 DEF TwoOf
<1>9. /\ \A i \in 1 .. Len(a) : c[i] = a[i]
      /\ \A i \in 1 .. Len(m) : c[Len(a) + i] = m[i]
  BY <1>3 DEF TwoOf, c
<1>10. Len(a) \in Nat /\ Len(m) \in Nat
  BY LenProperties
<1>11. \A i \in 1 .. Len(a) : (c \o b)[i] = a[i]
  BY <1>8, <1>9, <1>10
<1>12. \A i \in 1 .. Len(m) : (c \o b)[Len(a) + i] = m[i]
  BY <1>8, <1>9, <1>10
<1> QED
  BY <1>7, <1>8, <1>11, <1>12 DEF ThreeOf, c

-----------------------------------------------------------------------------
\* A grove with other children of one node.

With(g, p, s) == [g EXCEPT !.kids[p] = s]

\* The children of p are those in a and those in b; or those in a, in m and in b.
Halves(g, p, a, b) ==
  /\ p \in Node /\ a \in Seq(Node) /\ b \in Seq(Node)
  /\ g.kids[p] = a \o b

Thirds(g, p, a, m, b) ==
  /\ p \in Node /\ a \in Seq(Node) /\ m \in Seq(Node) /\ b \in Seq(Node)
  /\ g.kids[p] = a \o m \o b

\* The position in p before what is in b.
Before(p, b) == Pos(p, At(b, 1))

LEMMA SameGrove ==
  ASSUME NEW g, NEW h, Grove(g), Grove(h), g.data = h.data, g.used = h.used,
         \A p \in Node : g.kids[p] = h.kids[p]
  PROVE  g = h
BY DEF Grove

LEMMA HalvesFacts ==
  ASSUME NEW g, NEW p, NEW a, NEW b, Halves(g, p, a, b)
  PROVE  /\ p \in Node /\ a \in Seq(Node) /\ b \in Seq(Node)
         /\ Len(a) \in Nat /\ Len(b) \in Nat
         /\ g.kids[p] \in Seq(Node) /\ g.kids[p] = a \o b
         /\ Len(g.kids[p]) = Len(a) + Len(b) /\ DOMAIN g.kids[p] = 1 .. Len(a) + Len(b)
         /\ \A i \in 1 .. Len(a) : g.kids[p][i] = a[i]
         /\ \A i \in 1 .. Len(b) : g.kids[p][Len(a) + i] = b[i]
         /\ SubSeq(g.kids[p], 1, Len(a)) = a
         /\ SubSeq(g.kids[p], Len(a) + 1, Len(g.kids[p])) = b
<1>1. a \in Seq(Node) /\ b \in Seq(Node) /\ g.kids[p] = a \o b /\ p \in Node
  BY DEF Halves
<1>2. TwoOf(Node, a, b)
  BY <1>1, TwoPieces
<1>3. DOMAIN (a \o b) = 1 .. Len(a \o b) /\ Len(a) \in Nat /\ Len(b) \in Nat
  BY <1>1, <1>2, LenProperties DEF TwoOf
<1> QED
  BY <1>1, <1>2, <1>3, Zenon DEF TwoOf

LEMMA ThirdsFacts ==
  ASSUME NEW g, NEW p, NEW a, NEW m, NEW b, Thirds(g, p, a, m, b)
  PROVE  /\ p \in Node /\ a \in Seq(Node) /\ m \in Seq(Node) /\ b \in Seq(Node)
         /\ Len(a) \in Nat /\ Len(m) \in Nat /\ Len(b) \in Nat
         /\ g.kids[p] \in Seq(Node) /\ g.kids[p] = a \o m \o b
         /\ Len(g.kids[p]) = Len(a) + Len(m) + Len(b)
         /\ DOMAIN g.kids[p] = 1 .. Len(a) + Len(m) + Len(b)
         /\ \A i \in 1 .. Len(a) : g.kids[p][i] = a[i]
         /\ \A i \in 1 .. Len(m) : g.kids[p][Len(a) + i] = m[i]
         /\ \A i \in 1 .. Len(b) : g.kids[p][Len(a) + Len(m) + i] = b[i]
         /\ SubSeq(g.kids[p], 1, Len(a)) = a
         /\ SubSeq(g.kids[p], Len(a) + Len(m) + 1, Len(g.kids[p])) = b
<1>1. /\ a \in Seq(Node) /\ m \in Seq(Node) /\ b \in Seq(Node) /\ g.kids[p] = a \o m \o b
      /\ p \in Node
  BY DEF Thirds
<1>2. ThreeOf(Node, a, m, b)
  BY <1>1, ThreePieces
<1> DEFINE s == a \o m \o b
<1>3. s \in Seq(Node) /\ g.kids[p] = s /\ Len(s) = Len(a) + Len(m) + Len(b)
  BY <1>1, <1>2 DEF ThreeOf
<1>4. DOMAIN s = 1 .. Len(s) /\ Len(a) \in Nat /\ Len(m) \in Nat /\ Len(b) \in Nat
  BY <1>1, <1>3, LenProperties
<1> QED
  BY <1>1, <1>2, <1>3, <1>4, Zenon DEF ThreeOf

LEMMA InsertEnd ==
  ASSUME NEW g, NEW p, NEW ns, NEW q, q.node = p, q.at = Null
  PROVE  Insert(g, q, ns) = With(g, p, g.kids[p] \o ns)
BY DEF Insert, With

LEMMA InsertBefore ==
  ASSUME NEW g, NEW p, NEW ns, NEW q, q.at # Null, Parent(g, q.at) = p
  PROVE  Insert(g, q, ns) =
           With(g, p, SubSeq(g.kids[p], 1, Index(g, q.at) - 1) \o ns
                      \o SubSeq(g.kids[p], Index(g, q.at), Len(g.kids[p])))
BY DEF Insert, With

LEMMA RemoveRange ==
  ASSUME NEW g, NEW p, NEW ns, ns # <<>>, Parent(g, ns[1]) = p
  PROVE  RemoveNodes(g, ns) =
           With(g, p, SubSeq(g.kids[p], 1, Index(g, ns[1]) - 1)
                      \o SubSeq(g.kids[p], Index(g, Last(ns)) + 1, Len(g.kids[p])))
BY DEF RemoveNodes, With

LEMMA InsertedAt ==
  ASSUME NEW g, Grove(g), OnePlace(g), NEW p, NEW a, NEW b, Halves(g, p, a, b),
         NEW ns \in Seq(Node)
  PROVE  Insert(g, Before(p, b), ns) = With(g, p, a \o ns \o b)
<1> DEFINE q == Before(p, b)
<1>0. /\ p \in Node /\ a \in Seq(Node) /\ b \in Seq(Node) /\ g.kids[p] = a \o b
      /\ Len(a) \in Nat /\ Len(b) \in Nat
  BY HalvesFacts, SMTT(30)
<1>1. CASE b = <<>>
  <2>1. q.at = Null /\ q.node = p
    BY <1>1 DEF Before, At, Pos
  <2>2. Insert(g, q, ns) = With(g, p, g.kids[p] \o ns)
    BY <2>1, InsertEnd
  <2>3. a \o b = a
    BY <1>0, <1>1, ConcatEmptySeq
  <2>4. a \o ns \o b = a \o ns
    BY <1>0, <1>1, ConcatEmptySeq, ConcatProperties
  <2> QED
    BY <1>0, <2>2, <2>3, <2>4
<1>2. CASE b # <<>>
  <2>1. b[1] \in Node /\ 1 \in DOMAIN b /\ 1 \in 1 .. Len(b)
    BY <1>0, <1>2, EmptySeq, LenProperties, ElementOfSeq
  <2>2. q.at = b[1] /\ b[1] # Null
    BY <2>1, NodeFacts DEF Before, At, Pos
  <2>3. /\ Len(a) + 1 \in DOMAIN g.kids[p] /\ g.kids[p][Len(a) + 1] = b[1]
        /\ SubSeq(g.kids[p], 1, Len(a)) = a
        /\ SubSeq(g.kids[p], Len(a) + 1, Len(g.kids[p])) = b
    BY <2>1, HalvesFacts
  <2>4. Parent(g, b[1]) = p /\ Index(g, b[1]) = Len(a) + 1
    <3>1. /\ Parent(g, g.kids[p][Len(a) + 1]) = p
          /\ Index(g, g.kids[p][Len(a) + 1]) = Len(a) + 1
      BY <1>0, <2>3, ParentOf, IndexOf
    <3> QED
      BY <2>3, <3>1
  <2> HIDE DEF q
  <2>5. /\ q.at # Null /\ Parent(g, q.at) = p /\ Index(g, q.at) = Len(a) + 1
        /\ Index(g, q.at) - 1 = Len(a)
    BY <1>0, <2>2, <2>4
  <2>6. Insert(g, q, ns) =
          With(g, p, SubSeq(g.kids[p], 1, Index(g, q.at) - 1) \o ns
                     \o SubSeq(g.kids[p], Index(g, q.at), Len(g.kids[p])))
    BY <2>5, InsertBefore, Zenon
  <2> QED
    BY <2>3, <2>5, <2>6, Zenon DEF q
<1> QED
  BY <1>1, <1>2

LEMMA RemovedAt ==
  ASSUME NEW g, Grove(g), OnePlace(g), NEW p, NEW a, NEW m, NEW b, Thirds(g, p, a, m, b)
  PROVE  RemoveNodes(g, m) = With(g, p, a \o b)
<1>0. /\ p \in Node /\ a \in Seq(Node) /\ m \in Seq(Node) /\ b \in Seq(Node)
      /\ g.kids[p] = a \o m \o b
      /\ Len(a) \in Nat /\ Len(m) \in Nat /\ Len(b) \in Nat
  BY ThirdsFacts DEF Thirds
<1>1. CASE m = <<>>
  <2>1. a \o b = g.kids[p]
    BY <1>0, <1>1, ConcatEmptySeq
  <2>2. With(g, p, g.kids[p]) = g
    BY <1>0 DEF With, Grove
  <2> QED
    BY <1>1, <2>1, <2>2 DEF RemoveNodes
<1>2. CASE m # <<>>
  <2>1. 1 \in 1 .. Len(m) /\ Len(m) \in 1 .. Len(m)
    BY <1>0, <1>2, EmptySeq, LenProperties
  <2>2. /\ Len(a) + 1 \in DOMAIN g.kids[p] /\ g.kids[p][Len(a) + 1] = m[1]
        /\ Len(a) + Len(m) \in DOMAIN g.kids[p] /\ g.kids[p][Len(a) + Len(m)] = m[Len(m)]
        /\ SubSeq(g.kids[p], 1, Len(a)) = a
        /\ SubSeq(g.kids[p], Len(a) + Len(m) + 1, Len(g.kids[p])) = b
    BY <1>0, <2>1, ThirdsFacts
  <2>3. /\ Parent(g, g.kids[p][Len(a) + 1]) = p
        /\ Index(g, g.kids[p][Len(a) + 1]) = Len(a) + 1
        /\ Index(g, g.kids[p][Len(a) + Len(m)]) = Len(a) + Len(m)
    BY <1>0, <2>2, ParentOf, IndexOf
  <2>4. /\ Parent(g, m[1]) = p /\ Index(g, m[1]) = Len(a) + 1
        /\ Index(g, Last(m)) = Len(a) + Len(m) /\ Index(g, m[1]) - 1 = Len(a)
    BY <1>0, <2>2, <2>3 DEF Last
  <2>5. RemoveNodes(g, m) =
          With(g, p, SubSeq(g.kids[p], 1, Index(g, m[1]) - 1)
                     \o SubSeq(g.kids[p], Index(g, Last(m)) + 1, Len(g.kids[p])))
    BY <1>2, <2>4, RemoveRange, Zenon
  <2> QED
    BY <2>2, <2>4, <2>5, Zenon
<1> QED
  BY <1>1, <1>2

-----------------------------------------------------------------------------
\* Where nodes are.

\* The node n is in no place of the grove.
Nowhere(g, n) == \A p \in Node : \A i \in DOMAIN g.kids[p] : g.kids[p][i] # n

LEMMA KidFacts ==
  ASSUME NEW g, Grove(g), OnePlace(g), NEW p \in Node, NEW i \in DOMAIN g.kids[p]
  PROVE  /\ p \in g.used /\ p \in ElementNode
         /\ g.kids[p][i] \in Node /\ g.kids[p][i] \in g.used
         /\ g.kids[p][i] # p /\ g.kids[p][i] # Document
BY EmptySeq DEF OnePlace, ToSet, Grove

LEMMA SamePlace ==
  ASSUME NEW g, OnePlace(g), NEW p \in Node, NEW q \in Node,
         NEW i \in DOMAIN g.kids[p], NEW j \in DOMAIN g.kids[q], g.kids[p][i] = g.kids[q][j]
  PROVE  p = q /\ i = j
BY DEF OnePlace

LEMMA ApartNowhere ==
  ASSUME NEW g, Grove(g), OnePlace(g), NEW n, Apart(g, n)
  PROVE  n \in Node /\ n \in g.used /\ n # Document /\ Nowhere(g, n)
<1>1. n \in Node /\ n \in g.used /\ n # Document /\ Parent(g, n) = Null
  BY DEF Apart, Grove
<1>2. SUFFICES ASSUME NEW p \in Node, NEW i \in DOMAIN g.kids[p], g.kids[p][i] = n
               PROVE  FALSE
  BY <1>1 DEF Nowhere
<1>3. Parent(g, n) = p
  BY <1>2, ParentOf
<1> QED
  BY <1>1, <1>3, NodeFacts

LEMMA PlaceOf ==
  ASSUME NEW g, Grove(g), OnePlace(g), NEW n \in Node, Placed(g, n)
  PROVE  \E p \in Node : \E i \in DOMAIN g.kids[p] : g.kids[p][i] = n
BY DEF Placed, Parent, ToSet, Grove


-----------------------------------------------------------------------------
\* One step of a command: nodes are put between two children, or are taken.

Good(g) == Grove(g) /\ OnePlace(g)

\* The nodes ns can be put among the children of p.
Loose(g, ns, p) ==
  /\ ns \in Seq(Node) /\ IsInjective(ns)
  /\ \A i \in DOMAIN ns : Nowhere(g, ns[i]) /\ ns[i] \in g.used \ {Document, p}

\* The grove h is g but for the children of p, which are s.
Becomes(g, h, p, s) ==
  /\ p \in Node /\ s \in Seq(Node)
  /\ h.kids[p] = s
  /\ \A q \in Node \ {p} : h.kids[q] = g.kids[q]
  /\ h.data = g.data /\ h.used = g.used

LEMMA WithBecomes ==
  ASSUME NEW g, Grove(g), NEW p \in Node, NEW s \in Seq(Node)
  PROVE  Grove(With(g, p, s)) /\ Becomes(g, With(g, p, s), p, s)
BY DEF With, Grove, Becomes

\* Where the node at index i of the children of q was before ns were put, when there
\* are l children of p before them.
Was(p, l, n, q, i) == IF q = p /\ i > l THEN i - n ELSE i

LEMMA PutPlaces ==
  ASSUME NEW g, Good(g), NEW h, Grove(h), NEW p, NEW a, NEW ns, NEW b,
         Halves(g, p, a, b), Becomes(g, h, p, a \o ns \o b), ns \in Seq(Node),
         NEW q \in Node, NEW i \in DOMAIN h.kids[q]
  PROVE  \/ /\ q = p /\ i \in Len(a) + 1 .. Len(a) + Len(ns)
            /\ i - Len(a) \in DOMAIN ns
            /\ h.kids[q][i] = ns[i - Len(a)]
         \/ /\ ~(q = p /\ i \in Len(a) + 1 .. Len(a) + Len(ns))
            /\ Was(p, Len(a) + Len(ns), Len(ns), q, i) \in DOMAIN g.kids[q]
            /\ h.kids[q][i] = g.kids[q][Was(p, Len(a) + Len(ns), Len(ns), q, i)]
<1>1. Thirds(h, p, a, ns, b)
  BY HalvesFacts DEF Thirds, Becomes
<1>2. CASE q # p
  BY <1>2 DEF Becomes, Was
<1>3. CASE q = p
  <2>1. /\ DOMAIN h.kids[p] = 1 .. Len(a) + Len(ns) + Len(b)
        /\ Len(a) \in Nat /\ Len(ns) \in Nat /\ Len(b) \in Nat
        /\ \A k \in 1 .. Len(a) : h.kids[p][k] = a[k]
        /\ \A k \in 1 .. Len(ns) : h.kids[p][Len(a) + k] = ns[k]
        /\ \A k \in 1 .. Len(b) : h.kids[p][Len(a) + Len(ns) + k] = b[k]
    BY <1>1, ThirdsFacts
  <2>2. /\ DOMAIN g.kids[p] = 1 .. Len(a) + Len(b)
        /\ \A k \in 1 .. Len(a) : g.kids[p][k] = a[k]
        /\ \A k \in 1 .. Len(b) : g.kids[p][Len(a) + k] = b[k]
    BY HalvesFacts
  <2>3. DOMAIN ns = 1 .. Len(ns)
    BY LenProperties
  <2>4. i \in 1 .. Len(a) + Len(ns) + Len(b)
    BY <1>3, <2>1
  <2>5. CASE i \in 1 .. Len(a)
    BY <1>3, <2>1, <2>2, <2>5 DEF Was
  <2>6. CASE i \in Len(a) + 1 .. Len(a) + Len(ns)
    <3>1. i - Len(a) \in 1 .. Len(ns) /\ Len(a) + (i - Len(a)) = i
      BY <2>1, <2>6
    <3> QED
      BY <1>3, <2>1, <2>3, <2>6, <3>1
  <2>7. CASE i \in Len(a) + Len(ns) + 1 .. Len(a) + Len(ns) + Len(b)
    <3> DEFINE k == i - Len(a) - Len(ns)
    <3>0. Len(a) \in Int /\ Len(ns) \in Int /\ Len(b) \in Int
      BY <2>1
    <3>1. k \in 1 .. Len(b) /\ Len(a) + Len(ns) + k = i /\ Len(a) + k = i - Len(ns)
      BY <2>7, <3>0
    <3>2. h.kids[p][i] = b[k] /\ g.kids[p][i - Len(ns)] = b[k]
      BY <2>1, <2>2, <3>1
    <3>3. i > Len(a) + Len(ns) /\ i - Len(ns) \in 1 .. Len(a) + Len(b)
      BY <2>1, <2>7
    <3> QED
      BY <1>3, <2>1, <2>2, <2>7, <3>2, <3>3 DEF Was
  <2> QED
    BY <2>1, <2>4, <2>5, <2>6, <2>7
<1> QED
  BY <1>2, <1>3

LEMMA PutKeepsPlaces ==
  ASSUME NEW g, Good(g), NEW h, Grove(h), NEW p, NEW a, NEW ns, NEW b,
         Halves(g, p, a, b), Becomes(g, h, p, a \o ns \o b),
         Loose(g, ns, p), p \in g.used \cap ElementNode
  PROVE  OnePlace(h)
<1> USE DEF Good
<1>0. /\ ns \in Seq(Node) /\ Len(a) \in Nat /\ Len(ns) \in Nat /\ p \in Node
      /\ h.used = g.used
  BY HalvesFacts, LenProperties DEF Loose, Becomes
<1> DEFINE New(q, i) == q = p /\ i \in Len(a) + 1 .. Len(a) + Len(ns)
           W(q, i) == Was(p, Len(a) + Len(ns), Len(ns), q, i)
<1>1. \A q \in Node : \A i \in DOMAIN h.kids[q] :
        \/ /\ New(q, i) /\ i - Len(a) \in DOMAIN ns
           /\ h.kids[q][i] = ns[i - Len(a)]
        \/ /\ ~New(q, i)
           /\ W(q, i) \in DOMAIN g.kids[q]
           /\ h.kids[q][i] = g.kids[q][W(q, i)]
  BY <1>0, PutPlaces
<1>2. \A q \in Node : \A i \in DOMAIN h.kids[q] : i \in Nat
  BY SMTT(30) DEF Grove
<1>3. ASSUME NEW q \in Node, NEW r \in Node, NEW i \in DOMAIN h.kids[q],
             NEW j \in DOMAIN h.kids[r], h.kids[q][i] = h.kids[r][j]
      PROVE  q = r /\ i = j
  <2>0. i \in Nat /\ j \in Nat
    BY <1>2
  <2>1. CASE New(q, i) /\ New(r, j)
    <3>1. /\ i - Len(a) \in DOMAIN ns /\ j - Len(a) \in DOMAIN ns
          /\ ns[i - Len(a)] = ns[j - Len(a)]
      BY <1>1, <1>3, <2>1
    <3>2. i - Len(a) = j - Len(a)
      BY <3>1 DEF Loose, IsInjective
    <3> QED
      BY <1>0, <2>0, <2>1, <3>2
  <2>2. CASE New(q, i) /\ ~New(r, j)
    <3>1. /\ i - Len(a) \in DOMAIN ns /\ W(r, j) \in DOMAIN g.kids[r]
          /\ ns[i - Len(a)] = g.kids[r][W(r, j)]
      BY <1>1, <1>3, <2>2
    <3> QED
      BY <3>1 DEF Loose, Nowhere
  <2>3. CASE ~New(q, i) /\ New(r, j)
    <3>1. /\ j - Len(a) \in DOMAIN ns /\ W(q, i) \in DOMAIN g.kids[q]
          /\ ns[j - Len(a)] = g.kids[q][W(q, i)]
      BY <1>1, <1>3, <2>3
    <3> QED
      BY <3>1 DEF Loose, Nowhere
  <2>4. CASE ~New(q, i) /\ ~New(r, j)
    <3>1. /\ W(q, i) \in DOMAIN g.kids[q] /\ W(r, j) \in DOMAIN g.kids[r]
          /\ g.kids[q][W(q, i)] = g.kids[r][W(r, j)]
      BY <1>1, <1>3, <2>4
    <3>2. q = r /\ W(q, i) = W(r, j)
      BY <3>1, SamePlace
    <3>3. q = p => i \notin Len(a) + 1 .. Len(a) + Len(ns) /\ j \notin Len(a) + 1 .. Len(a) + Len(ns)
      BY <2>4, <3>2
    <3> QED
      BY <1>0, <2>0, <3>2, <3>3 DEF Was
  <2> QED
    BY <2>1, <2>2, <2>3, <2>4
<1>4. ASSUME NEW q \in Node, h.kids[q] # <<>>
      PROVE  q \in h.used \cap ElementNode
  <2>1. CASE q = p
    BY <1>0, <2>1
  <2>2. CASE q # p
    BY <1>0, <1>4, <2>2 DEF OnePlace, Becomes
  <2> QED
    BY <2>1, <2>2
<1>5. ASSUME NEW q \in Node, NEW i \in DOMAIN h.kids[q]
      PROVE  h.kids[q][i] \in h.used \ {q, Document}
  <2>1. CASE New(q, i)
    BY <1>0, <1>1, <2>1 DEF Loose
  <2>2. CASE ~New(q, i)
    BY <1>0, <1>1, <2>2, KidFacts
  <2> QED
    BY <2>1, <2>2
<1>6. \A q \in Node : ToSet(h.kids[q]) \subseteq h.used \ {q, Document}
  BY <1>5 DEF ToSet
<1> QED
  BY <1>3, <1>4, <1>6 DEF OnePlace

LEMMA PutKeepsNowhere ==
  ASSUME NEW g, Good(g), NEW h, Grove(h), NEW p, NEW a, NEW ns, NEW b,
         Halves(g, p, a, b), Becomes(g, h, p, a \o ns \o b), ns \in Seq(Node),
         NEW n, Nowhere(g, n), \A i \in DOMAIN ns : ns[i] # n
  PROVE  Nowhere(h, n)
BY PutPlaces DEF Nowhere

\* Where the node at index i of the children of q was before the nodes m were taken.
WasBefore(p, l, n, q, i) == IF q = p /\ i > l THEN i + n ELSE i

LEMMA TakePlaces ==
  ASSUME NEW g, Good(g), NEW h, Grove(h), NEW p, NEW a, NEW m, NEW b,
         Thirds(g, p, a, m, b), Becomes(g, h, p, a \o b),
         NEW q \in Node, NEW i \in DOMAIN h.kids[q]
  PROVE  /\ WasBefore(p, Len(a), Len(m), q, i) \in DOMAIN g.kids[q]
         /\ h.kids[q][i] = g.kids[q][WasBefore(p, Len(a), Len(m), q, i)]
         /\ q = p => WasBefore(p, Len(a), Len(m), q, i) \notin Len(a) + 1 .. Len(a) + Len(m)
<1>1. Halves(h, p, a, b)
  BY ThirdsFacts DEF Halves, Becomes
<1>2. CASE q # p
  BY <1>2 DEF Becomes, WasBefore
<1>3. CASE q = p
  <2>0. Len(a) \in Int /\ Len(m) \in Int /\ Len(b) \in Int
        /\ Len(a) >= 0 /\ Len(m) >= 0 /\ Len(b) >= 0
    BY ThirdsFacts
  <2>1. /\ DOMAIN g.kids[p] = 1 .. Len(a) + Len(m) + Len(b)
        /\ \A k \in 1 .. Len(a) : g.kids[p][k] = a[k]
        /\ \A k \in 1 .. Len(b) : g.kids[p][Len(a) + Len(m) + k] = b[k]
    BY ThirdsFacts
  <2>2. /\ DOMAIN h.kids[p] = 1 .. Len(a) + Len(b)
        /\ \A k \in 1 .. Len(a) : h.kids[p][k] = a[k]
        /\ \A k \in 1 .. Len(b) : h.kids[p][Len(a) + k] = b[k]
    BY <1>1, HalvesFacts
  <2>4. i \in 1 .. Len(a) + Len(b)
    BY <1>3, <2>2
  <2>5. CASE i \in 1 .. Len(a)
    <3>1. WasBefore(p, Len(a), Len(m), q, i) = i
      BY <2>0, <2>5 DEF WasBefore
    <3>2. i \in 1 .. Len(a) + Len(m) + Len(b) /\ i \notin Len(a) + 1 .. Len(a) + Len(m)
      BY <2>0, <2>5
    <3> QED
      BY <1>3, <2>1, <2>2, <2>5, <3>1, <3>2
  <2>6. CASE i \in Len(a) + 1 .. Len(a) + Len(b)
    <3> DEFINE k == i - Len(a)
    <3>1. k \in 1 .. Len(b) /\ Len(a) + k = i /\ Len(a) + Len(m) + k = i + Len(m)
      BY <2>0, <2>6
    <3>2. h.kids[p][i] = b[k] /\ g.kids[p][i + Len(m)] = b[k]
      BY <2>1, <2>2, <3>1
    <3>3. /\ i > Len(a) /\ i + Len(m) \in 1 .. Len(a) + Len(m) + Len(b)
          /\ i + Len(m) \notin Len(a) + 1 .. Len(a) + Len(m)
      BY <2>0, <2>6
    <3> QED
      BY <1>3, <2>1, <3>2, <3>3 DEF WasBefore
  <2> QED
    BY <2>0, <2>4, <2>5, <2>6
<1> QED
  BY <1>2, <1>3

LEMMA TakeKeepsPlaces ==
  ASSUME NEW g, Good(g), NEW h, Grove(h), NEW p, NEW a, NEW m, NEW b,
         Thirds(g, p, a, m, b), Becomes(g, h, p, a \o b)
  PROVE  OnePlace(h)
<1> USE DEF Good
<1>0. Len(a) \in Nat /\ Len(m) \in Nat /\ p \in Node /\ h.used = g.used
  BY ThirdsFacts DEF Becomes
<1> DEFINE W(q, i) == WasBefore(p, Len(a), Len(m), q, i)
<1>1. \A q \in Node : \A i \in DOMAIN h.kids[q] :
        W(q, i) \in DOMAIN g.kids[q] /\ h.kids[q][i] = g.kids[q][W(q, i)]
  BY TakePlaces
<1>2. \A q \in Node : \A i \in DOMAIN h.kids[q] : i \in Nat
  BY DEF Grove
<1>3. ASSUME NEW q \in Node, NEW r \in Node, NEW i \in DOMAIN h.kids[q],
             NEW j \in DOMAIN h.kids[r], h.kids[q][i] = h.kids[r][j]
      PROVE  q = r /\ i = j
  <2>1. i \in Nat /\ j \in Nat
    BY <1>2
  <2>2. /\ W(q, i) \in DOMAIN g.kids[q] /\ W(r, j) \in DOMAIN g.kids[r]
        /\ g.kids[q][W(q, i)] = g.kids[r][W(r, j)]
    BY <1>1, <1>3
  <2>3. q = r /\ W(q, i) = W(r, j)
    BY <2>2, SamePlace
  <2> QED
    BY <1>0, <2>1, <2>3 DEF WasBefore
<1>4. ASSUME NEW q \in Node, NEW i \in DOMAIN h.kids[q]
      PROVE  q \in h.used \cap ElementNode /\ h.kids[q][i] \in h.used \ {q, Document}
  BY <1>0, <1>1, KidFacts
<1>5. \A q \in Node : h.kids[q] # <<>> => 1 \in DOMAIN h.kids[q]
  BY EmptySeq DEF Grove
<1>6. \A q \in Node : ToSet(h.kids[q]) \subseteq h.used \ {q, Document}
  BY <1>4 DEF ToSet
<1>7. \A q \in Node : h.kids[q] # <<>> => q \in h.used \cap ElementNode
  BY <1>4, <1>5
<1> QED
  BY <1>3, <1>6, <1>7 DEF OnePlace

LEMMA TakeKeepsNowhere ==
  ASSUME NEW g, Good(g), NEW h, Grove(h), NEW p, NEW a, NEW m, NEW b,
         Thirds(g, p, a, m, b), Becomes(g, h, p, a \o b), NEW n, Nowhere(g, n)
  PROVE  Nowhere(h, n)
BY TakePlaces DEF Nowhere

\* Nodes that are beside each other are different ones, and none of them is their parent.
LEMMA TakenNodes ==
  ASSUME NEW g, Good(g), NEW p, NEW a, NEW m, NEW b, Thirds(g, p, a, m, b)
  PROVE  /\ m \in Seq(Node) /\ IsInjective(m)
         /\ \A i \in DOMAIN m : m[i] \in g.used \ {Document, p}
         /\ m # <<>> => p \in g.used \cap ElementNode
<1> USE DEF Good
<1>1. /\ DOMAIN m = 1 .. Len(m) /\ Len(a) \in Nat /\ Len(m) \in Nat /\ Len(b) \in Nat
      /\ p \in Node /\ m \in Seq(Node)
  BY ThirdsFacts, LenProperties
<1>2. \A i \in 1 .. Len(m) :
        Len(a) + i \in DOMAIN g.kids[p] /\ g.kids[p][Len(a) + i] = m[i]
  BY ThirdsFacts
<1>3. ASSUME NEW i \in 1 .. Len(m), NEW j \in 1 .. Len(m), m[i] = m[j]
      PROVE  i = j
  <2>1. Len(a) + i = Len(a) + j
    BY <1>1, <1>2, <1>3, SamePlace
  <2> QED
    BY <1>1, <2>1
<1>4. \A i \in 1 .. Len(m) :
        m[i] \in g.used \ {Document, p} /\ p \in g.used \cap ElementNode
  BY <1>1, <1>2, KidFacts
<1>5. m # <<>> => 1 \in 1 .. Len(m)
  BY <1>1, EmptySeq
<1> QED
  BY <1>1, <1>3, <1>4, <1>5 DEF IsInjective

LEMMA TakeLoosens ==
  ASSUME NEW g, Good(g), NEW h, Grove(h), NEW p, NEW a, NEW m, NEW b,
         Thirds(g, p, a, m, b), Becomes(g, h, p, a \o b)
  PROVE  Loose(h, m, p)
<1> USE DEF Good
<1>0. Len(a) \in Nat /\ Len(m) \in Nat /\ p \in Node /\ DOMAIN m = 1 .. Len(m)
  BY ThirdsFacts, LenProperties
<1>1. ASSUME NEW k \in DOMAIN m, NEW q \in Node, NEW i \in DOMAIN h.kids[q],
             h.kids[q][i] = m[k]
      PROVE  FALSE
  <2> DEFINE j == WasBefore(p, Len(a), Len(m), q, i)
  <2>1. /\ j \in DOMAIN g.kids[q] /\ g.kids[q][j] = m[k]
        /\ q = p => j \notin Len(a) + 1 .. Len(a) + Len(m)
    BY <1>1, TakePlaces
  <2>2. Len(a) + k \in DOMAIN g.kids[p] /\ g.kids[p][Len(a) + k] = m[k]
    BY <1>0, ThirdsFacts
  <2> HIDE DEF j
  <2>3. q = p /\ j = Len(a) + k
    BY <1>0, <2>1, <2>2, SamePlace
  <2> QED
    BY <1>0, <2>1, <2>3
<1>2. m \in Seq(Node) /\ IsInjective(m) /\ \A i \in DOMAIN m : m[i] \in h.used \ {Document, p}
  BY TakenNodes DEF Becomes
<1> QED
  BY <1>1, <1>2 DEF Loose, Nowhere

\* insert() before what is in b, and takeAsFragment() of m.
IsPut(g, h, p, a, ns, b) ==
  /\ Good(h) /\ Becomes(g, h, p, a \o ns \o b)
  /\ \A n : Nowhere(g, n) /\ n \notin ToSet(ns) => Nowhere(h, n)

IsTake(g, h, p, a, m, b) ==
  /\ Good(h) /\ Becomes(g, h, p, a \o b) /\ Loose(h, m, p)
  /\ \A n : Nowhere(g, n) => Nowhere(h, n)

LEMMA Put ==
  ASSUME NEW g, Good(g), NEW p, NEW a, NEW b, Halves(g, p, a, b),
         p \in g.used \cap ElementNode, NEW ns, Loose(g, ns, p)
  PROVE  IsPut(g, Insert(g, Before(p, b), ns), p, a, ns, b)
<1> USE DEF Good
<1>1. ns \in Seq(Node) /\ p \in Node /\ a \in Seq(Node) /\ b \in Seq(Node)
  BY HalvesFacts DEF Loose
<1>2. a \o ns \o b \in Seq(Node)
  BY <1>1, ThreePieces DEF ThreeOf
<1>3. PICK s \in Seq(Node) : s = a \o ns \o b
  BY <1>2
<1>4. PICK h : h = With(g, p, s)
  OBVIOUS
<1>5. Insert(g, Before(p, b), ns) = h
  BY <1>1, <1>3, <1>4, InsertedAt
<1>6. Grove(h) /\ Becomes(g, h, p, s)
  BY <1>1, <1>4, WithBecomes
<1>7. Becomes(g, h, p, a \o ns \o b)
  BY <1>3, <1>6
<1>8. OnePlace(h)
  BY <1>6, <1>7, PutKeepsPlaces
<1>9. ASSUME NEW n, Nowhere(g, n), n \notin ToSet(ns)
      PROVE  Nowhere(h, n)
  <2>1. \A i \in DOMAIN ns : ns[i] # n
    BY <1>9 DEF ToSet
  <2> QED
    BY <1>1, <1>6, <1>7, <1>9, <2>1, PutKeepsNowhere
<1> QED
  BY <1>5, <1>6, <1>7, <1>8, <1>9 DEF IsPut

LEMMA Take ==
  ASSUME NEW g, Good(g), NEW p, NEW a, NEW m, NEW b, Thirds(g, p, a, m, b)
  PROVE  IsTake(g, RemoveNodes(g, m), p, a, m, b)
<1> USE DEF Good
<1>1. m \in Seq(Node) /\ p \in Node /\ a \in Seq(Node) /\ b \in Seq(Node)
  BY ThirdsFacts
<1>2. a \o b \in Seq(Node)
  BY <1>1, TwoPieces DEF TwoOf
<1>3. PICK s \in Seq(Node) : s = a \o b
  BY <1>2
<1>4. PICK h : h = With(g, p, s)
  OBVIOUS
<1>5. RemoveNodes(g, m) = h
  BY <1>1, <1>3, <1>4, RemovedAt
<1>6. Grove(h) /\ Becomes(g, h, p, s)
  BY <1>1, <1>4, WithBecomes
<1>7. Becomes(g, h, p, a \o b)
  BY <1>3, <1>6
<1>8. OnePlace(h)
  BY <1>6, <1>7, TakeKeepsPlaces
<1>9. \A n : Nowhere(g, n) => Nowhere(h, n)
  BY <1>6, <1>7, TakeKeepsNowhere
<1>10. Loose(h, m, p)
  BY <1>6, <1>7, TakeLoosens
<1> QED
  BY <1>5, <1>6, <1>7, <1>8, <1>9, <1>10 DEF IsTake

-----------------------------------------------------------------------------
\* What is below nodes.

Below(g, ns) == {n \in Node : \A all \in SUBSET Node : ns \subseteq all /\ Closed(g, all) => n \in all}

\* Of any elements at all, one is a child of none of them.
LEMMA AnyElements ==
  ASSUME NEW g, NoCycles(g), NEW ns \in SUBSET ElementNode, ns # {}
  PROVE  \E n \in ns : \A p \in ns : n \notin ToSet(g.kids[p])
<1> DEFINE inner == {n \in ns : g.kids[n] # <<>>}
<1>1. \A p \in ns \ inner : ToSet(g.kids[p]) = {}
  BY DEF ToSet
<1>2. CASE inner = {}
  BY <1>1, <1>2
<1>3. CASE inner # {}
  <2>1. inner \in SUBSET {n \in ElementNode : g.kids[n] # <<>>}
    OBVIOUS
  <2>2. PICK n \in inner : \A p \in inner : n \notin ToSet(g.kids[p])
    BY <1>3, <2>1 DEF NoCycles
  <2> QED
    BY <1>1, <2>2
<1> QED
  BY <1>2, <1>3

LEMMA BelowFacts ==
  ASSUME NEW g, Grove(g), NEW ns \in SUBSET Node
  PROVE  /\ Below(g, ns) \in SUBSET Node /\ ns \subseteq Below(g, ns)
         /\ Closed(g, Below(g, ns))
         /\ \A all \in SUBSET Node : ns \subseteq all /\ Closed(g, all) => Below(g, ns) \subseteq all
<1>1. \A n \in Node : ToSet(g.kids[n]) \subseteq Node
  BY ElementOfSeq DEF ToSet, Grove
<1> QED
  BY <1>1 DEF Below, Closed

LEMMA BelowMore ==
  ASSUME NEW g, Grove(g), NEW ns \in SUBSET Node, NEW ms \in SUBSET Node,
         ns \subseteq Below(g, ms)
  PROVE  Below(g, ns) \subseteq Below(g, ms)
BY BelowFacts

\* What is below nodes and none of them is a child of one that is.
LEMMA BelowParent ==
  ASSUME NEW g, Grove(g), NEW ns \in SUBSET Node, NEW n \in Below(g, ns), n \notin ns
  PROVE  \E p \in Below(g, ns) : n \in ToSet(g.kids[p])
<1>1. SUFFICES ASSUME \A p \in Below(g, ns) : n \notin ToSet(g.kids[p])
               PROVE  FALSE
  OBVIOUS
<1> DEFINE all == Below(g, ns) \ {n}
<1>2. all \in SUBSET Node /\ ns \subseteq all
  BY BelowFacts
<1>3. Closed(g, all)
  BY <1>1, BelowFacts DEF Closed
<1>4. Below(g, ns) \subseteq all
  BY <1>2, <1>3, BelowFacts
<1> QED
  BY <1>4

LEMMA ParentIsElement ==
  ASSUME NEW g, Good(g), NEW p \in Node, NEW n \in ToSet(g.kids[p])
  PROVE  p \in ElementNode /\ n \in Node
<1> USE DEF Good
<1>1. PICK i \in DOMAIN g.kids[p] : g.kids[p][i] = n
  BY DEF ToSet
<1> QED
  BY <1>1, KidFacts

\* No node is below its children.
LEMMA NoLoop ==
  ASSUME NEW g, Good(g), NoCycles(g), NEW p \in Node
  PROVE  p \notin Below(g, ToSet(g.kids[p]))
<1>0. Grove(g) /\ OnePlace(g) /\ \A n \in Node : ToSet(g.kids[n]) \in SUBSET Node
  BY ParentIsElement DEF Good
<1> DEFINE K == ToSet(g.kids[p])
           ns == {n \in ElementNode : n \in Below(g, {p}) /\ p \in Below(g, {n})}
<1>1. SUFFICES ASSUME p \in Below(g, K) PROVE FALSE
  OBVIOUS
<1>2. K \in SUBSET Node /\ {p} \in SUBSET Node /\ K \subseteq Below(g, {p}) /\ p \in Below(g, {p})
  BY <1>0, BelowFacts DEF Closed
<1>3. ASSUME NEW q \in Node, NEW n \in ToSet(g.kids[q]), p \in Below(g, {n})
      PROVE  p \in Below(g, {q})
  <2>1. {q} \in SUBSET Node /\ {n} \in SUBSET Node
    BY <1>0, <1>3
  <2>2. {n} \subseteq Below(g, {q})
    BY <1>0, <2>1, BelowFacts DEF Closed
  <2> QED
    BY <1>0, <1>3, <2>1, <2>2, BelowMore
<1>4. PICK c \in Below(g, K) : p \in ToSet(g.kids[c])
  <2>1. p \notin K
    BY <1>0 DEF OnePlace
  <2> QED
    BY <1>0, <1>1, <1>2, <2>1, BelowParent
<1>5. c \in Node /\ c \in ns /\ ns # {}
  <2>1. c \in Node /\ c \in Below(g, {p})
    BY <1>0, <1>2, <1>4, BelowFacts, BelowMore
  <2>2. p \in Below(g, {c})
    BY <1>2, <1>3, <1>4, <2>1
  <2>3. c \in ElementNode
    BY <1>4, <2>1, ParentIsElement
  <2> QED
    BY <2>1, <2>2, <2>3
<1>6. PICK n \in ns : \A q \in ns : n \notin ToSet(g.kids[q])
  BY <1>5, AnyElements
<1>7. CASE n = p
  BY <1>4, <1>5, <1>6, <1>7
<1>8. CASE n # p
  <2>1. PICK q \in Below(g, {p}) : n \in ToSet(g.kids[q])
    BY <1>0, <1>2, <1>6, <1>8, BelowParent
  <2>2. q \in Node
    BY <1>0, <1>2, <2>1, BelowFacts
  <2>3. p \in Below(g, {q}) /\ q \in ElementNode
    BY <1>3, <1>6, <2>1, <2>2, ParentIsElement
  <2> QED
    BY <1>6, <2>1, <2>3
<1> QED
  BY <1>7, <1>8

\* Nor is a child of p below what is below another, nor p below a child of it.
LEMMA NotBelowSibling ==
  ASSUME NEW g, Good(g), NoCycles(g), NEW p \in Node, NEW ns \in SUBSET Node,
         ns \subseteq Below(g, ToSet(g.kids[p])), NEW n \in ToSet(g.kids[p]), n \notin ns
  PROVE  n \notin Below(g, ns) /\ p \notin Below(g, ns)
<1>0. Grove(g) /\ OnePlace(g) /\ \A q \in Node : ToSet(g.kids[q]) \in SUBSET Node
  BY ParentIsElement DEF Good
<1>1. p \notin Below(g, ns)
  BY <1>0, BelowMore, NoLoop
<1>2. ASSUME n \in Below(g, ns) PROVE FALSE
  <2>1. PICK q \in Below(g, ns) : n \in ToSet(g.kids[q])
    BY <1>0, <1>2, BelowParent
  <2>2. q \in Node
    BY <1>0, BelowFacts
  <2>3. q = p
    <3>1. PICK i \in DOMAIN g.kids[p] : g.kids[p][i] = n
      BY DEF ToSet
    <3>2. PICK j \in DOMAIN g.kids[q] : g.kids[q][j] = n
      BY <2>1 DEF ToSet
    <3> QED
      BY <1>0, <2>2, <3>1, <3>2, SamePlace
  <2> QED
    BY <1>1, <2>1, <2>3
<1> QED
  BY <1>1, <1>2

\* Nodes that are in a set that holds all that is below them are put in p, which is not.
LEMMA NoNewCycles ==
  ASSUME NEW g, NoCycles(g), NEW h, NEW p \in Node, NEW all, Closed(g, all), p \notin all,
         \A q \in Node \ {p} : ToSet(h.kids[q]) \subseteq ToSet(g.kids[q]),
         ToSet(h.kids[p]) \subseteq ToSet(g.kids[p]) \cup all
  PROVE  NoCycles(h)
<1>1. SUFFICES ASSUME NEW ns \in SUBSET ElementNode, ns # {}
               PROVE  \E n \in ns : \A q \in ns : n \notin ToSet(h.kids[q])
  BY DEF NoCycles
<1>2. \A q \in ns : q \in Node
  BY DEF Node
<1>3. CASE ns \subseteq all
  <2>1. PICK n \in ns : \A q \in ns : n \notin ToSet(g.kids[q])
    BY <1>1, AnyElements
  <2>2. p \notin ns
    BY <1>3
  <2> QED
    BY <1>2, <2>1, <2>2
<1>4. CASE ~(ns \subseteq all)
  <2> DEFINE rest == ns \ all
  <2>1. rest \in SUBSET ElementNode /\ rest # {}
    BY <1>4
  <2>2. PICK n \in rest : \A q \in rest : n \notin ToSet(g.kids[q])
    BY <2>1, AnyElements
  <2>3. \A q \in ns : n \notin ToSet(g.kids[q])
    BY <2>2 DEF Closed
  <2>4. \A q \in ns : n \notin ToSet(h.kids[q])
    BY <1>2, <2>2, <2>3
  <2> QED
    BY <2>2, <2>4
<1> QED
  BY <1>3, <1>4

LEMMA LessNoCycles ==
  ASSUME NEW g, NoCycles(g), NEW h,
         \A q \in Node : ToSet(h.kids[q]) \subseteq ToSet(g.kids[q])
  PROVE  NoCycles(h)
<1>1. SUFFICES ASSUME NEW ns \in SUBSET ElementNode, ns # {}
               PROVE  \E n \in ns : \A p \in ns : n \notin ToSet(h.kids[p])
  BY DEF NoCycles
<1>2. PICK n \in ns : \A p \in ns : n \notin ToSet(g.kids[p])
  BY <1>1, AnyElements
<1>3. \A p \in ns : p \in Node
  BY DEF Node
<1> QED
  BY <1>2, <1>3

\* A child of p does not have p as its own.
LEMMA NotEachOther ==
  ASSUME NEW g, NoCycles(g), NEW p \in ElementNode, NEW n \in ElementNode,
         n \in ToSet(g.kids[p])
  PROVE  p \notin ToSet(g.kids[n])
<1>1. {p, n} \in SUBSET ElementNode /\ {p, n} # {}
  OBVIOUS
<1>2. PICK m \in {p, n} : \A q \in {p, n} : m \notin ToSet(g.kids[q])
  BY <1>1, AnyElements
<1> QED
  BY <1>2

LEMMA ToSetPieces ==
  ASSUME NEW a \in Seq(Node), NEW m \in Seq(Node), NEW b \in Seq(Node)
  PROVE  /\ ToSet(a \o m \o b) = ToSet(a) \cup ToSet(m) \cup ToSet(b)
         /\ ToSet(a \o b) = ToSet(a) \cup ToSet(b)
<1>1. ASSUME NEW c \in Seq(Node), NEW d \in Seq(Node)
      PROVE  ToSet(c \o d) = ToSet(c) \cup ToSet(d)
  <2>1. /\ DOMAIN c = 1 .. Len(c) /\ DOMAIN d = 1 .. Len(d)
        /\ Len(c) \in Nat /\ Len(d) \in Nat
    BY LenProperties
  <2>2. /\ c \o d \in Seq(Node) /\ Len(c \o d) = Len(c) + Len(d)
        /\ \A i \in 1 .. Len(c) : (c \o d)[i] = c[i]
        /\ \A i \in 1 .. Len(d) : (c \o d)[Len(c) + i] = d[i]
    BY TwoPieces DEF TwoOf
  <2>3. DOMAIN (c \o d) = 1 .. Len(c) + Len(d)
    BY <2>2, LenProperties
  <2>4. ASSUME NEW i \in 1 .. Len(c) + Len(d)
        PROVE  (c \o d)[i] \in ToSet(c) \cup ToSet(d)
    <3>1. CASE i \in 1 .. Len(c)
      BY <2>1, <2>2, <3>1 DEF ToSet
    <3>2. CASE i \notin 1 .. Len(c)
      <4>1. i - Len(c) \in 1 .. Len(d) /\ Len(c) + (i - Len(c)) = i
        BY <2>1, <3>2
      <4> QED
        BY <2>1, <2>2, <4>1 DEF ToSet
    <3> QED
      BY <3>1, <3>2
  <2>5. ASSUME NEW i \in 1 .. Len(c)
        PROVE  c[i] \in ToSet(c \o d)
    <3>1. i \in 1 .. Len(c) + Len(d)
      BY <2>1
    <3> QED
      BY <2>2, <2>3, <3>1 DEF ToSet
  <2>6. ASSUME NEW i \in 1 .. Len(d)
        PROVE  d[i] \in ToSet(c \o d)
    <3>1. Len(c) + i \in 1 .. Len(c) + Len(d)
      BY <2>1
    <3> QED
      BY <2>2, <2>3, <3>1 DEF ToSet
  <2> QED
    BY <2>1, <2>3, <2>4, <2>5, <2>6 DEF ToSet
<1>2. a \o m \in Seq(Node)
  BY ConcatProperties
<1> QED
  BY <1>1, <1>2

LEMMA ThirdsToSet ==
  ASSUME NEW g, NEW p, NEW a, NEW m, NEW b, Thirds(g, p, a, m, b)
  PROVE  ToSet(g.kids[p]) = ToSet(a) \cup ToSet(m) \cup ToSet(b)
BY ToSetPieces DEF Thirds

LEMMA HalvesToSet ==
  ASSUME NEW g, NEW p, NEW a, NEW b, Halves(g, p, a, b)
  PROVE  ToSet(g.kids[p]) = ToSet(a) \cup ToSet(b)
BY ToSetPieces DEF Halves

LEMMA PutNoCycles ==
  ASSUME NEW g, NoCycles(g), NEW h, NEW p, NEW a, NEW ns, NEW b, Halves(g, p, a, b),
         ns \in Seq(Node), Becomes(g, h, p, a \o ns \o b),
         NEW all, Closed(g, all), p \notin all, ToSet(ns) \subseteq all
  PROVE  NoCycles(h)
<1>1. /\ p \in Node /\ a \in Seq(Node) /\ b \in Seq(Node)
      /\ g.kids[p] = a \o b /\ h.kids[p] = a \o ns \o b
      /\ \A q \in Node \ {p} : h.kids[q] = g.kids[q]
  BY DEF Halves, Becomes
<1>2. ToSet(h.kids[p]) \subseteq ToSet(g.kids[p]) \cup all
  BY <1>1, ToSetPieces
<1> QED
  BY <1>1, <1>2, NoNewCycles

LEMMA TakeNoCycles ==
  ASSUME NEW g, NoCycles(g), NEW h, NEW p, NEW a, NEW m, NEW b, Thirds(g, p, a, m, b),
         Becomes(g, h, p, a \o b)
  PROVE  NoCycles(h)
<1>1. /\ p \in Node /\ a \in Seq(Node) /\ m \in Seq(Node) /\ b \in Seq(Node)
      /\ g.kids[p] = a \o m \o b /\ h.kids[p] = a \o b
      /\ \A q \in Node \ {p} : h.kids[q] = g.kids[q]
  BY DEF Thirds, Becomes
<1>2. ToSet(h.kids[p]) \subseteq ToSet(g.kids[p])
  BY <1>1, ToSetPieces
<1>3. \A q \in Node : ToSet(h.kids[q]) \subseteq ToSet(g.kids[q])
  BY <1>1, <1>2
<1> QED
  BY <1>3, LessNoCycles

-----------------------------------------------------------------------------
\* The places that commands are about.

LEMMA PlacePieces ==
  ASSUME NEW g, Good(g), NEW n \in Node, Placed(g, n)
  PROVE  \E p, a, b : Thirds(g, p, a, <<n>>, b)
<1> USE DEF Good
<1>0. PICK p \in Node : \E i \in DOMAIN g.kids[p] : g.kids[p][i] = n
  BY PlaceOf
<1>1. PICK i \in DOMAIN g.kids[p] : g.kids[p][i] = n
  BY <1>0
<1> DEFINE s == g.kids[p]
<1>2. s \in Seq(Node) /\ i \in 1 .. Len(s) /\ i \in i .. Len(s)
  BY DEF Grove
<1>3. /\ SubSeq(s, 1, i - 1) \in Seq(Node) /\ SubSeq(s, i, i) \in Seq(Node)
      /\ SubSeq(s, i + 1, Len(s)) \in Seq(Node)
      /\ s = SubSeq(s, 1, i - 1) \o SubSeq(s, i, i) \o SubSeq(s, i + 1, Len(s))
      /\ Len(SubSeq(s, i, i)) = i - i + 1
  BY <1>2, CutSeq
<1>4. SubSeq(s, i, i) = <<n>>
  <2>1. Len(SubSeq(s, i, i)) = 1 /\ SubSeq(s, i, i)[1] = n
    BY <1>1, <1>2, <1>3
  <2>2. PICK m \in Seq(Node) : m = SubSeq(s, i, i)
    BY <1>3
  <2>3. <<n>> \in Seq(Node) /\ Len(<<n>>) = 1 /\ <<n>>[1] = n
    OBVIOUS
  <2>4. Len(m) = Len(<<n>>) /\ \A k \in 1 .. Len(m) : m[k] = <<n>>[k]
    BY <2>1, <2>2, <2>3
  <2>5. m = <<n>>
    BY <2>3, <2>4, SeqEqual
  <2> QED
    BY <2>2, <2>5
<1> QED
  BY <1>3, <1>4 DEF Thirds

LEMMA RowPieces ==
  ASSUME NEW g, Good(g), NEW p \in Node, NEW ns, Neighbours(g, p, ns)
  PROVE  ns # <<>> /\ \E a, b : Thirds(g, p, a, ns, b)
<1> USE DEF Good
<1> DEFINE s == g.kids[p]
<1>1. s \in Seq(Node) /\ DOMAIN s = 1 .. Len(s)
  BY LenProperties DEF Grove
<1>6. PICK i \in 1 .. Len(s) : \E j \in i .. Len(s) : ns = SubSeq(s, i, j)
  BY <1>1 DEF Neighbours
<1>2. PICK j \in i .. Len(s) : ns = SubSeq(s, i, j)
  BY <1>6
<1>3. /\ SubSeq(s, 1, i - 1) \in Seq(Node) /\ SubSeq(s, i, j) \in Seq(Node)
      /\ SubSeq(s, j + 1, Len(s)) \in Seq(Node)
      /\ s = SubSeq(s, 1, i - 1) \o SubSeq(s, i, j) \o SubSeq(s, j + 1, Len(s))
      /\ Len(SubSeq(s, i, j)) = j - i + 1
  BY <1>1, CutSeq
<1>4. Len(ns) # 0
  BY <1>2, <1>3
<1>5. ns # <<>>
  BY <1>4
<1> QED
  BY <1>2, <1>3, <1>5 DEF Thirds

LEMMA PosPieces ==
  ASSUME NEW g, Good(g), NEW q, InElement(g, q)
  PROVE  \E a, b : Halves(g, q.node, a, b) /\ q.at = At(b, 1)
<1> USE DEF Good
<1> DEFINE p == q.node
           s == g.kids[p]
<1>1. p \in Node /\ s \in Seq(Node) /\ DOMAIN s = 1 .. Len(s)
  BY LenProperties DEF InElement, Grove
<1>2. CASE q.at = Null
  <2>1. <<>> \in Seq(Node) /\ s = s \o <<>>
    BY <1>1, ConcatEmptySeq
  <2>2. At(<<>>, 1) = Null
    BY DEF At
  <2> QED
    BY <1>1, <1>2, <2>1, <2>2 DEF Halves
<1>3. CASE q.at # Null
  <2>1. PICK i \in 1 .. Len(s) : s[i] = q.at
    BY <1>1, <1>3 DEF InElement, ToSet
  <2>2. i - 1 \in 0 .. Len(s) /\ i - 1 + 1 = i /\ Len(s) \in Nat
    BY <1>1, LenProperties
  <2> DEFINE a == SubSeq(s, 1, i - 1)
             b == SubSeq(s, i - 1 + 1, Len(s))
  <2>3. a \in Seq(Node) /\ b \in Seq(Node) /\ s = a \o b /\ Len(a) = i - 1 /\ Len(b) = Len(s) - (i - 1)
    BY <1>1, <2>2, SplitSeq
  <2>4. Halves(g, p, a, b)
    BY <1>1, <2>3 DEF Halves
  <2> HIDE DEF a, b, p, s
  <2>5. Len(b) >= 1 /\ 1 \in 1 .. Len(b) /\ Len(a) + 1 = i
    BY <1>1, <2>2, <2>3
  <2>6. g.kids[p][Len(a) + 1] = b[1]
    BY <2>4, <2>5, HalvesFacts
  <2>7. At(b, 1) = b[1]
    BY <2>3, <2>5, LenProperties DEF At
  <2>8. b[1] = q.at
    BY <2>1, <2>5, <2>6 DEF s
  <2> QED
    BY <2>4, <2>7, <2>8 DEF p
<1> QED
  BY <1>2, <1>3

\* What is after the last node of a row.
LEMMA AfterRow ==
  ASSUME NEW g, Good(g), NEW p, NEW a, NEW m, NEW b, Thirds(g, p, a, m, b), m # <<>>
  PROVE  /\ AfterNode(g, Last(m)) = Before(p, b)
         /\ Parent(g, Last(m)) = p /\ NextSibling(g, Last(m)) = At(b, 1)
<1> USE DEF Good
<1>0. /\ p \in Node /\ p # Null /\ m \in Seq(Node) /\ b \in Seq(Node)
      /\ Len(a) \in Nat /\ Len(m) \in Nat /\ Len(b) \in Nat
  BY ThirdsFacts, NodeFacts
<1>1. Len(m) \in 1 .. Len(m)
  BY <1>0, EmptySeq
<1> DEFINE k == Len(a) + Len(m)
<1>2. k \in DOMAIN g.kids[p] /\ g.kids[p][k] = Last(m)
  BY <1>0, <1>1, ThirdsFacts DEF Last
<1>3. Parent(g, g.kids[p][k]) = p /\ Index(g, g.kids[p][k]) = k
  BY <1>0, <1>2, ParentOf, IndexOf
<1>4. NextSibling(g, Last(m)) = At(g.kids[p], k + 1)
  BY <1>0, <1>2, <1>3 DEF NextSibling, Siblings
<1>5. At(g.kids[p], k + 1) = At(b, 1)
  <2>1. DOMAIN g.kids[p] = 1 .. k + Len(b) /\ DOMAIN b = 1 .. Len(b)
    BY <1>0, ThirdsFacts, LenProperties
  <2>2. 1 \in 1 .. Len(b) => g.kids[p][k + 1] = b[1]
    BY ThirdsFacts
  <2>3. k + 1 \in 1 .. k + Len(b) <=> 1 \in 1 .. Len(b)
    BY <1>0
  <2> QED
    BY <2>1, <2>2, <2>3 DEF At
<1> QED
  BY <1>2, <1>3, <1>4, <1>5 DEF AfterNode, Before

LEMMA AfterOne ==
  ASSUME NEW g, Good(g), NEW p, NEW a, NEW n, NEW b, Thirds(g, p, a, <<n>>, b)
  PROVE  /\ AfterNode(g, n) = Before(p, b)
         /\ Parent(g, n) = p /\ NextSibling(g, n) = At(b, 1)
         /\ p \in g.used \cap ElementNode /\ n \in g.used \ {Document, p} /\ n \in Node
<1>1. <<n>> # <<>> /\ Last(<<n>>) = n /\ 1 \in DOMAIN <<n>> /\ <<n>>[1] = n
  BY DEF Last
<1>2. /\ \A i \in DOMAIN <<n>> : <<n>>[i] \in g.used \ {Document, p}
      /\ p \in g.used \cap ElementNode
  BY <1>1, TakenNodes
<1>3. <<n>> \in Seq(Node)
  BY ThirdsFacts
<1> QED
  BY <1>1, <1>2, <1>3, AfterRow, SMTT(30)

LEMMA InsertPos ==
  ASSUME NEW g, NEW q, NEW b, NEW ns, q.at = At(b, 1)
  PROVE  Insert(g, q, ns) = Insert(g, Before(q.node, b), ns)
BY DEF Insert, Before, Pos

\* A node that is apart can be put anywhere but in itself.
LEMMA ApartLoose ==
  ASSUME NEW g, Good(g), NEW n, Apart(g, n), NEW p, n # p
  PROVE  Loose(g, <<n>>, p) /\ n \in Node
<1>1. n \in Node /\ n \in g.used /\ n # Document /\ Nowhere(g, n)
  BY ApartNowhere DEF Good
<1>2. <<n>> \in Seq(Node) /\ DOMAIN <<n>> = {1} /\ <<n>>[1] = n
  BY <1>1
<1> QED
  BY <1>1, <1>2 DEF Loose, IsInjective

LEMMA PutPieces ==
  ASSUME NEW g, NEW h, NEW p, NEW a, NEW ns, NEW b, Halves(g, p, a, b), ns \in Seq(Node),
         IsPut(g, h, p, a, ns, b)
  PROVE  Thirds(h, p, a, ns, b)
BY HalvesFacts DEF Thirds, IsPut, Becomes

LEMMA TakePieces ==
  ASSUME NEW g, NEW h, NEW p, NEW a, NEW m, NEW b, Thirds(g, p, a, m, b),
         IsTake(g, h, p, a, m, b)
  PROVE  Halves(h, p, a, b)
BY ThirdsFacts DEF Halves, IsTake, Becomes

\* Nodes that are put can be taken, and those that are taken can be put back.
LEMMA PutTaken ==
  ASSUME NEW g, Good(g), NEW p, NEW a, NEW b, Halves(g, p, a, b),
         p \in g.used \cap ElementNode, NEW ns, Loose(g, ns, p)
  PROVE  RemoveNodes(Insert(g, Before(p, b), ns), ns) = g
<1>1. PICK h : h = Insert(g, Before(p, b), ns)
  OBVIOUS
<1>2. IsPut(g, h, p, a, ns, b) /\ Thirds(h, p, a, ns, b) /\ Good(h)
  BY <1>1, Put, PutPieces DEF Loose, IsPut
<1>3. PICK k : k = RemoveNodes(h, ns)
  OBVIOUS
<1>4. IsTake(h, k, p, a, ns, b)
  BY <1>2, <1>3, Take
<1>5. k.kids[p] = g.kids[p] /\ \A q \in Node \ {p} : k.kids[q] = g.kids[q]
  BY <1>2, <1>4 DEF IsPut, IsTake, Becomes, Halves
<1>6. Grove(k) /\ Grove(g) /\ k.data = g.data /\ k.used = g.used
  BY <1>2, <1>4 DEF IsPut, IsTake, Becomes, Good
<1>7. \A q \in Node : k.kids[q] = g.kids[q]
  BY <1>5
<1>8. k = g
  BY <1>6, <1>7, SameGrove
<1> QED
  BY <1>1, <1>3, <1>8

LEMMA TakenPut ==
  ASSUME NEW g, Good(g), NEW p, NEW a, NEW m, NEW b, Thirds(g, p, a, m, b),
         p \in g.used \cap ElementNode
  PROVE  Insert(RemoveNodes(g, m), Before(p, b), m) = g
<1>1. PICK h : h = RemoveNodes(g, m)
  OBVIOUS
<1>2. IsTake(g, h, p, a, m, b) /\ Halves(h, p, a, b) /\ Good(h) /\ Loose(h, m, p)
  BY <1>1, Take, TakePieces DEF IsTake
<1>3. p \in h.used \cap ElementNode
  BY <1>2 DEF IsTake, Becomes
<1>4. PICK k : k = Insert(h, Before(p, b), m)
  OBVIOUS
<1>5. IsPut(h, k, p, a, m, b)
  BY <1>2, <1>3, <1>4, Put
<1>6. k.kids[p] = g.kids[p] /\ \A q \in Node \ {p} : k.kids[q] = g.kids[q]
  BY <1>2, <1>5 DEF IsPut, IsTake, Becomes, Thirds
<1>7. Grove(k) /\ Grove(g) /\ k.data = g.data /\ k.used = g.used
  BY <1>2, <1>5 DEF IsPut, IsTake, Becomes, Good
<1>8. \A q \in Node : k.kids[q] = g.kids[q]
  BY <1>6
<1>9. k = g
  BY <1>7, <1>8, SameGrove
<1> QED
  BY <1>1, <1>4, <1>9

-----------------------------------------------------------------------------
\* The commands, each with its Execute and its Unexecute.

Inverts(g, c) ==
  /\ Good(Execute(g, c)) /\ NoCycles(Execute(g, c))
  /\ Unexecute(Execute(g, c), c) = g

LEMMA InsertInverts ==
  ASSUME NEW g, Good(g), NoCycles(g), NEW c, c.op \in {"insert", "paste"},
         InElement(g, c.pos), c.nodes \in Seq(Node), IsInjective(c.nodes),
         \A i \in DOMAIN c.nodes : Apart(g, c.nodes[i]),
         Separate(g, ToSet(c.nodes), c.pos.node)
  PROVE  Inverts(g, c)
<1> DEFINE p == c.pos.node
           ns == c.nodes
<1>1. Execute(g, c) = Insert(g, c.pos, ns) /\ \A h : Unexecute(h, c) = RemoveNodes(h, ns)
  BY DEF Execute, Unexecute
<1>2. PICK a, b : Halves(g, p, a, b) /\ c.pos.at = At(b, 1)
  BY PosPieces
<1>3. Insert(g, c.pos, ns) = Insert(g, Before(p, b), ns)
  BY <1>2, InsertPos
<1>4. Loose(g, ns, p)
  BY ApartNowhere DEF Loose, Good, Separate, ToSet
<1>5. p \in g.used \cap ElementNode
  BY DEF InElement
<1>6. PICK h : h = Insert(g, Before(p, b), ns)
  OBVIOUS
<1>7. Good(h) /\ Becomes(g, h, p, a \o ns \o b)
  BY <1>2, <1>4, <1>5, <1>6, Put DEF IsPut
<1>8. NoCycles(h)
  <2>1. PICK below \in SUBSET (Node \ {p}) : Closed(g, ToSet(ns) \cup below)
    BY DEF Separate
  <2>2. PICK all : all = ToSet(ns) \cup below /\ Closed(g, all)
    BY <2>1
  <2>3. p \notin all /\ ToSet(ns) \subseteq all
    BY <2>1, <2>2 DEF Separate
  <2> QED
    BY <1>2, <1>7, <2>2, <2>3, PutNoCycles
<1>9. RemoveNodes(h, ns) = g
  BY <1>2, <1>4, <1>5, <1>6, PutTaken
<1> QED
  BY <1>1, <1>3, <1>6, <1>7, <1>8, <1>9 DEF Inverts

LEMMA TakeInverts ==
  ASSUME NEW g, Good(g), NoCycles(g), NEW c, c.op = "take", NEW p \in Node, Neighbours(g, p, c.nodes),
         c.pos = AfterNode(g, Last(c.nodes))
  PROVE  Inverts(g, c)
<1>1. Execute(g, c) = RemoveNodes(g, c.nodes) /\ \A h : Unexecute(h, c) = Insert(h, c.pos, c.nodes)
  BY DEF Execute, Unexecute
<1>2. PICK a, b : Thirds(g, p, a, c.nodes, b)
  BY RowPieces
<1>3. c.pos = Before(p, b) /\ p \in g.used \cap ElementNode
  BY <1>2, RowPieces, AfterRow, TakenNodes
<1>4. Good(RemoveNodes(g, c.nodes)) /\ NoCycles(RemoveNodes(g, c.nodes))
  BY <1>2, Take, TakeNoCycles DEF IsTake
<1>5. Insert(RemoveNodes(g, c.nodes), c.pos, c.nodes) = g
  BY <1>2, <1>3, TakenPut
<1> QED
  BY <1>1, <1>4, <1>5 DEF Inverts

LEMMA DataFacts ==
  ASSUME NEW g, Good(g), NEW n \in Node, NEW d \in Seq(Name \cup Char)
  PROVE  /\ Good(SetData(g, n, d)) /\ SetData(g, n, d).data[n] = d
         /\ SetData(g, n, d).kids = g.kids /\ SetData(g, n, d).used = g.used
         /\ \A m \in Node \ {n} : SetData(g, n, d).data[m] = g.data[m]
         /\ NoCycles(g) => NoCycles(SetData(g, n, d))
<1> DEFINE h == SetData(g, n, d)
<1>1. /\ h.kids = g.kids /\ h.used = g.used /\ h.data[n] = d /\ Grove(h)
      /\ \A m \in Node \ {n} : h.data[m] = g.data[m]
  BY DEF SetData, Good, Grove
<1> HIDE DEF h
<1>2. OnePlace(h)
  BY <1>1 DEF Good, OnePlace
<1>3. NoCycles(g) => NoCycles(h)
  BY <1>1 DEF NoCycles
<1> QED
  BY <1>1, <1>2, <1>3 DEF h, Good

LEMMA DataBack ==
  ASSUME NEW g, Good(g), NEW n \in Node, NEW d \in Seq(Name \cup Char)
  PROVE  SetData(SetData(g, n, d), n, g.data[n]) = g
BY DEF SetData, Good, Grove

LEMMA DataOf ==
  ASSUME NEW g, Good(g), NEW n \in Node
  PROVE  g.data[n] \in Seq(Name \cup Char)
BY DEF Good, Grove

\* The n elements of s after the first i are between two pieces.
Middle(S, s, i, n) ==
  /\ SubSeq(s, 1, i) \in Seq(S) /\ Len(SubSeq(s, 1, i)) = i
  /\ SubSeq(s, i + 1, i + n) \in Seq(S) /\ Len(SubSeq(s, i + 1, i + n)) = n
  /\ SubSeq(s, i + n + 1, Len(s)) \in Seq(S)
  /\ s = SubSeq(s, 1, i) \o SubSeq(s, i + 1, i + n) \o SubSeq(s, i + n + 1, Len(s))

LEMMA MiddleSeq ==
  ASSUME NEW S, NEW s \in Seq(S), NEW i \in Nat, NEW n \in Nat, i + n <= Len(s)
  PROVE  Middle(S, s, i, n)
<1>1. Len(s) \in Nat /\ i \in 0 .. Len(s) /\ i \in Int /\ n \in Int
  BY LenProperties
<1>2. CASE n = 0
  <2>1. i + n = i
    BY <1>1, <1>2
  <2>2. SubSeq(s, i + 1, i) = <<>>
    BY <1>1
  <2>3. /\ SubSeq(s, 1, i) \in Seq(S) /\ SubSeq(s, i + 1, Len(s)) \in Seq(S)
        /\ s = SubSeq(s, 1, i) \o SubSeq(s, i + 1, Len(s)) /\ Len(SubSeq(s, 1, i)) = i
    BY <1>1, SplitSeq
  <2>4. SubSeq(s, 1, i) \o <<>> = SubSeq(s, 1, i) /\ <<>> \in Seq(S) /\ Len(<<>>) = 0
    BY <2>3, ConcatEmptySeq
  <2> QED
    BY <1>2, <2>1, <2>2, <2>3, <2>4 DEF Middle
<1>3. CASE n # 0
  <2> DEFINE j == i + 1
             k == i + n
  <2>1. j \in 1 .. Len(s) /\ k \in j .. Len(s) /\ j - 1 = i /\ k - j + 1 = n
    BY <1>1, <1>3
  <2> HIDE DEF j, k
  <2>2. /\ SubSeq(s, 1, j - 1) \in Seq(S) /\ SubSeq(s, j, k) \in Seq(S)
        /\ SubSeq(s, k + 1, Len(s)) \in Seq(S)
        /\ s = SubSeq(s, 1, j - 1) \o SubSeq(s, j, k) \o SubSeq(s, k + 1, Len(s))
        /\ Len(SubSeq(s, j, k)) = k - j + 1 /\ Len(SubSeq(s, 1, j - 1)) = j - 1
    BY <2>1, CutSeq
  <2> QED
    BY <2>1, <2>2 DEF j, k, Middle
<1> QED
  BY <1>2, <1>3

\* The n elements of s after the first i are replaced.
InPlace(s, i, n, new) == SubSeq(s, 1, i) \o new \o SubSeq(s, i + n + 1, Len(s))

\* The text r is s with new in place of old, and the reverse.
Swapped(S, s, i, old, new, r) ==
  /\ r \in Seq(S) /\ InPlace(s, i, Len(old), new) = r /\ InPlace(r, i, Len(new), old) = s

LEMMA SwapText ==
  ASSUME NEW S, NEW s \in Seq(S), NEW i \in Nat, NEW n \in Nat, i + n <= Len(s),
         NEW new \in Seq(S), NEW old, old = SubSeq(s, i + 1, i + n)
  PROVE  Swapped(S, s, i, old, new, InPlace(s, i, n, new))
<1>1. PICK a, b : a = SubSeq(s, 1, i) /\ b = SubSeq(s, i + n + 1, Len(s))
  OBVIOUS
<1>2. /\ a \in Seq(S) /\ Len(a) = i /\ old \in Seq(S) /\ Len(old) = n /\ b \in Seq(S)
      /\ s = a \o old \o b
  <2>1. Middle(S, s, i, n)
    BY MiddleSeq
  <2> QED
    BY <1>1, <2>1 DEF Middle
<1>3. ThreeOf(S, a, new, b)
  BY <1>2, ThreePieces
<1>4. InPlace(s, i, n, new) = a \o new \o b
  BY <1>1 DEF InPlace
<1>5. /\ a \o new \o b \in Seq(S) /\ SubSeq(a \o new \o b, 1, i) = a
      /\ SubSeq(a \o new \o b, i + Len(new) + 1, Len(a \o new \o b)) = b
  BY <1>2, <1>3 DEF ThreeOf
<1>6. InPlace(a \o new \o b, i, Len(new), old) = a \o old \o b
  BY <1>5 DEF InPlace
<1> QED
  BY <1>2, <1>4, <1>5, <1>6 DEF Swapped

\* What Fits asks of a change of a text.
TextFits(g, c) ==
  /\ c.op \in {"insertText", "removeText", "replaceText"}
  /\ IsText(c.pos.node) /\ c.pos.at \in 0 .. TextLength(g, c.pos.node)
  /\ \E n \in 0 .. TextLength(g, c.pos.node) - c.pos.at :
       c.old = SubSeq(g.data[c.pos.node], c.pos.at + 1, c.pos.at + n)
  /\ c.new \in Seq(Name \cup Char)

LEMMA TextInverts ==
  ASSUME NEW g, Good(g), NoCycles(g), NEW c, TextFits(g, c)
  PROVE  Inverts(g, c)
<1>1. /\ c.op \in {"insertText", "removeText", "replaceText"}
      /\ IsText(c.pos.node) /\ c.pos.at \in 0 .. TextLength(g, c.pos.node)
      /\ c.new \in Seq(Name \cup Char)
  BY DEF TextFits
<1>2. PICK n \in 0 .. TextLength(g, c.pos.node) - c.pos.at :
        c.old = SubSeq(g.data[c.pos.node], c.pos.at + 1, c.pos.at + n)
  BY DEF TextFits
<1>3. PICK t, s, i : t = c.pos.node /\ s = g.data[t] /\ i = c.pos.at
  OBVIOUS
<1>4. /\ t \in Node /\ s \in Seq(Name \cup Char)
      /\ i \in Nat /\ n \in Nat /\ i + n <= Len(s)
  <2>1. t \in Node /\ s \in Seq(Name \cup Char)
    BY <1>3, <1>1, DataOf DEF IsText, Node
  <2>2. i \in 0 .. Len(s) /\ n \in 0 .. Len(s) - i /\ Len(s) \in Nat
    BY <1>2, <1>3, <1>1, <2>1, LenProperties DEF TextLength
  <2> QED
    BY <2>1, <2>2
<1>5. PICK r : Swapped(Name \cup Char, s, i, c.old, c.new, r)
  <2>1. PICK new, old :
          /\ new \in Seq(Name \cup Char) /\ new = c.new
          /\ old = c.old /\ old = SubSeq(s, i + 1, i + n)
    BY <1>2, <1>3, <1>1
  <2>2. Swapped(Name \cup Char, s, i, old, new, InPlace(s, i, n, new))
    BY <1>4, <2>1, SwapText
  <2> QED
    BY <2>1, <2>2
<1>6. r \in Seq(Name \cup Char) /\ InPlace(r, i, Len(c.new), c.old) = s
  BY <1>5 DEF Swapped
<1>7. Replaced(g, c.pos, c.old, c.new) = r
  BY <1>3, <1>5 DEF Replaced, InPlace, Swapped
<1>8. PICK h : h = SetData(g, t, r)
  OBVIOUS
<1>9. Good(h) /\ NoCycles(h) /\ h.data[t] = r
  BY <1>4, <1>6, <1>8, DataFacts
<1>10. Replaced(h, c.pos, c.new, c.old) = s
  BY <1>3, <1>6, <1>9 DEF Replaced, InPlace
<1>11. Execute(g, c) = h /\ Unexecute(h, c) = SetData(h, t, s)
  BY <1>3, <1>7, <1>8, <1>10, <1>1 DEF Execute, Unexecute
<1>12. SetData(h, t, s) = g
  <2>1. SetData(SetData(g, t, r), t, g.data[t]) = g
    BY <1>4, <1>6, DataBack
  <2> QED
    BY <1>3, <1>8, <2>1
<1> QED
  BY <1>9, <1>11, <1>12 DEF Inverts

LEMMA LeftHalf ==
  ASSUME NEW g, NEW p, NEW a, NEW m, NEW b, Thirds(g, p, a, m, b)
  PROVE  Halves(g, p, a \o m, b)
<1>1. a \in Seq(Node) /\ m \in Seq(Node)
  BY DEF Thirds
<1>2. a \o m \in Seq(Node)
  BY <1>1, ConcatProperties
<1> QED
  BY <1>2 DEF Thirds, Halves

LEMMA SplitTextInverts ==
  ASSUME NEW g, Good(g), NoCycles(g), NEW c, c.op = "splitText",
         IsText(c.pos.node), Placed(g, c.pos.node),
         c.pos.at \in 1 .. TextLength(g, c.pos.node) - 1,
         IsText(c.split), Apart(g, c.split),
         g.data[c.split] = SubSeq(g.data[c.pos.node], c.pos.at + 1, TextLength(g, c.pos.node))
  PROVE  Inverts(g, c)
<1> DEFINE D == Name \cup Char
           t == c.pos.node
           new == c.split
           s == g.data[t]
           i == c.pos.at
           s1 == SubSeq(s, 1, i)
           s2 == SubSeq(s, i + 1, Len(s))
<1>1. t \in Node /\ s \in Seq(D) /\ Len(s) \in Nat /\ i \in 0 .. Len(s) /\ TextLength(g, t) = Len(s)
  BY LenProperties, DataOf DEF IsText, Node, TextLength
<1>2. s1 \in Seq(D) /\ s2 \in Seq(D) /\ s = s1 \o s2
  BY <1>1, SplitSeq
<1>3. PICK p, a, b : Thirds(g, p, a, <<t>>, b)
  BY <1>1, PlacePieces
<1>4. /\ AfterNode(g, t) = Before(p, b) /\ p \in g.used \cap ElementNode
      /\ Halves(g, p, a \o <<t>>, b)
  BY <1>3, AfterOne, LeftHalf
<1> HIDE DEF s, i, t, s1, s2, D
<1>5. new # p /\ new # t
  <2>1. new # p
    BY <1>4, NodesAssumption DEF IsText, TextNode, ElementNode
  <2>2. Parent(g, t) = p /\ p # Null
    BY <1>3, AfterOne, NodeFacts, ThirdsFacts
  <2> QED
    BY <2>1, <2>2 DEF Apart, t
<1>6. Loose(g, <<new>>, p) /\ new \in Node
  BY <1>5, ApartLoose
<1>7. PICK h : h = Insert(g, Before(p, b), <<new>>)
  OBVIOUS
<1>8. Good(h) /\ h.data = g.data /\ NoCycles(h)
  <2>1. Good(h) /\ Becomes(g, h, p, a \o <<t>> \o <<new>> \o b)
    BY <1>4, <1>6, <1>7, Put DEF IsPut
  <2>2. g.kids[new] = <<>>
    BY <1>6, NodesAssumption DEF Good, OnePlace, IsText, TextNode, ElementNode
  <2>3. Closed(g, {new}) /\ ToSet(<<new>>) \subseteq {new}
    BY <2>2 DEF Closed, ToSet
  <2>4. PICK e : e = a \o <<t>>
    OBVIOUS
  <2>5. <<new>> \in Seq(Node)
    BY <1>6
  <2>6. NoCycles(h)
    BY <1>4, <1>5, <2>1, <2>3, <2>4, <2>5, PutNoCycles
  <2> QED
    BY <2>1, <2>6 DEF Becomes
<1>9. PICK k : k = SetData(h, t, s1)
  OBVIOUS
<1>10. Good(k) /\ k.data[t] = s1 /\ k.data[new] = s2 /\ NoCycles(k)
  <2>1. /\ Good(k) /\ k.data[t] = s1 /\ k.kids = h.kids
        /\ \A m \in Node \ {t} : k.data[m] = h.data[m]
    BY <1>1, <1>2, <1>8, <1>9, DataFacts DEF D
  <2>2. g.data[new] = s2
    BY <1>1 DEF s2, s, i, t
  <2> QED
    BY <1>5, <1>6, <1>8, <2>1, <2>2 DEF NoCycles
<1>11. SetData(k, t, s) = h
  BY <1>1, <1>2, <1>8, <1>9, DataBack DEF D, s
<1>12. RemoveNodes(h, <<new>>) = g
  BY <1>4, <1>6, <1>7, PutTaken
<1>13. Execute(g, c) = k /\ Unexecute(k, c) = RemoveNodes(SetData(k, t, s1 \o s2), <<new>>)
  BY <1>4, <1>7, <1>9, <1>10 DEF Execute, Unexecute, s, i, t, s1
<1> QED
  BY <1>2, <1>10, <1>11, <1>12, <1>13 DEF Inverts

-----------------------------------------------------------------------------
\* Commands that move nodes from one element to another.

\* A sequence that begins with n.
LEMMA FirstOf ==
  ASSUME NEW b \in Seq(Node), NEW n \in Node, At(b, 1) = n
  PROVE  \E r \in Seq(Node) : b = <<n>> \o r
<1>1. 1 \in DOMAIN b /\ b[1] = n
  BY NodeFacts DEF At
<1>2. b # <<>> /\ Head(b) = n /\ Tail(b) \in Seq(Node)
  BY <1>1, EmptySeq
<1>3. b = <<n>> \o Tail(b)
  BY <1>2, HeadTailProperties
<1> QED
  BY <1>2, <1>3

LEMMA NextPieces ==
  ASSUME NEW g, Good(g), NEW p, NEW a, NEW n, NEW b, Thirds(g, p, a, <<n>>, b),
         NEW m \in Node, NextSibling(g, n) = m
  PROVE  \E r \in Seq(Node) : /\ Thirds(g, p, a, <<n>>, <<m>> \o r)
                              /\ Thirds(g, p, a \o <<n>>, <<m>>, r)
<1>1. /\ a \in Seq(Node) /\ b \in Seq(Node) /\ <<n>> \in Seq(Node) /\ p \in Node
      /\ g.kids[p] = a \o <<n>> \o b
  BY DEF Thirds
<1>2. At(b, 1) = m
  BY AfterOne
<1>3. PICK r \in Seq(Node) : b = <<m>> \o r
  BY <1>1, <1>2, FirstOf
<1>4. PICK c : c = a \o <<n>> /\ c \in Seq(Node)
  BY <1>1, ConcatProperties
<1>5. <<m>> \in Seq(Node)
  OBVIOUS
<1>6. c \o (<<m>> \o r) = c \o <<m>> \o r
  BY <1>4, <1>5, ConcatAssociative, SMTT(30)
<1>7. Thirds(g, p, c, <<m>>, r)
  BY <1>1, <1>3, <1>4, <1>5, <1>6 DEF Thirds
<1> QED
  BY <1>3, <1>4, <1>7

LEMMA NextDiffers ==
  ASSUME NEW g, Good(g), NEW n \in Node, Placed(g, n), NextSibling(g, n) # Null
  PROVE  NextSibling(g, n) # n
<1> USE DEF Good
<1>1. PICK p \in Node : \E i \in DOMAIN g.kids[p] : g.kids[p][i] = n
  BY PlaceOf
<1>2. PICK i \in DOMAIN g.kids[p] : g.kids[p][i] = n
  BY <1>1
<1>3. Parent(g, n) = p /\ Index(g, n) = i /\ i \in Nat
  <2>1. Parent(g, g.kids[p][i]) = p /\ Index(g, g.kids[p][i]) = i
    BY ParentOf, IndexOf
  <2>2. i \in Nat
    BY DEF Grove
  <2> QED
    BY <1>2, <2>1, <2>2
<1>4. NextSibling(g, n) = At(g.kids[p], i + 1)
  BY <1>3, NodeFacts DEF NextSibling, Siblings
<1>5. SUFFICES ASSUME At(g.kids[p], i + 1) = n
               PROVE  FALSE
  BY <1>4
<1>6. i + 1 \in DOMAIN g.kids[p] /\ g.kids[p][i + 1] = n
  BY <1>5, NodeFacts DEF At
<1>7. i + 1 = i
  BY <1>2, <1>6, SamePlace
<1> QED
  BY <1>3, <1>7

LEMMA ThirdsMembers ==
  ASSUME NEW g, NEW p, NEW a, NEW n, NEW b, Thirds(g, p, a, <<n>>, b)
  PROVE  n \in ToSet(g.kids[p])
<1>1. PICK m : m = <<n>> /\ Thirds(g, p, a, m, b)
  OBVIOUS
<1>2. Thirds(g, p, a, m, b) /\ n \in ToSet(m)
  BY <1>1 DEF ToSet
<1> QED
  BY <1>2, ThirdsToSet

\* All the children of a node.
LEMMA AllKids ==
  ASSUME NEW g, Good(g), NEW p \in Node
  PROVE  /\ g.kids[p] \in Seq(Node)
         /\ Thirds(g, p, <<>>, g.kids[p], <<>>)
         /\ Halves(g, p, g.kids[p], <<>>)
<1>1. PICK s \in Seq(Node) : s = g.kids[p]
  BY DEF Good, Grove
<1>2. <<>> \in Seq(Node) /\ <<>> \o s = s /\ s \o <<>> = s
  BY ConcatEmptySeq
<1> QED
  BY <1>1, <1>2 DEF Thirds, Halves

\* All the children of p are taken; nodes are put after the children of p.
IsTakeAll(g, h, p) ==
  /\ Good(h) /\ Becomes(g, h, p, <<>>) /\ Loose(h, g.kids[p], p)
  /\ \A n : Nowhere(g, n) => Nowhere(h, n)

IsPutEnd(g, h, p, ns) ==
  /\ Good(h) /\ Becomes(g, h, p, g.kids[p] \o ns)
  /\ \A n : Nowhere(g, n) /\ n \notin ToSet(ns) => Nowhere(h, n)

LEMMA TakeAll ==
  ASSUME NEW g, Good(g), NEW p \in Node
  PROVE  IsTakeAll(g, RemoveNodes(g, g.kids[p]), p)
<1>1. PICK s \in Seq(Node) : s = g.kids[p] /\ Thirds(g, p, <<>>, s, <<>>)
  BY AllKids
<1>2. PICK h : h = RemoveNodes(g, s)
  OBVIOUS
<1>3. IsTake(g, h, p, <<>>, s, <<>>)
  BY <1>1, <1>2, Take
<1>4. <<>> \o <<>> = <<>>
  OBVIOUS
<1>5. IsTakeAll(g, h, p)
  BY <1>1, <1>3, <1>4 DEF IsTake, IsTakeAll
<1> QED
  BY <1>1, <1>2, <1>5

LEMMA PutEnd ==
  ASSUME NEW g, Good(g), NEW p, p \in g.used \cap ElementNode, NEW ns, Loose(g, ns, p)
  PROVE  IsPutEnd(g, Insert(g, Pos(p, Null), ns), p, ns)
<1>0. p \in Node /\ ns \in Seq(Node)
  BY DEF Node, Loose
<1>1. PICK s \in Seq(Node) : s = g.kids[p] /\ Halves(g, p, s, <<>>)
  BY <1>0, AllKids
<1>2. Before(p, <<>>) = Pos(p, Null)
  BY DEF Before, At
<1>3. PICK h : h = Insert(g, Before(p, <<>>), ns)
  OBVIOUS
<1>4. IsPut(g, h, p, s, ns, <<>>)
  BY <1>1, <1>3, Put
<1>5. PICK c \in Seq(Node) : c = s \o ns
  BY <1>0, ConcatProperties
<1>6. c \o <<>> = c
  BY ConcatEmptySeq
<1>7. s \o ns \o <<>> = s \o ns
  BY <1>5, <1>6
<1>8. IsPutEnd(g, h, p, ns)
  BY <1>1, <1>4, <1>7 DEF IsPut, IsPutEnd
<1> QED
  BY <1>2, <1>3, <1>8

\* They can be taken again; and those that were taken be put back.
LEMMA PutEndTaken ==
  ASSUME NEW g, Good(g), NEW p, p \in g.used \cap ElementNode, NEW ns, Loose(g, ns, p)
  PROVE  RemoveNodes(Insert(g, Pos(p, Null), ns), ns) = g
<1>1. Halves(g, p, g.kids[p], <<>>)
  BY AllKids DEF Node
<1>2. Before(p, <<>>) = Pos(p, Null)
  BY DEF Before, At
<1>3. PICK s : s = g.kids[p]
  OBVIOUS
<1>4. RemoveNodes(Insert(g, Before(p, <<>>), ns), ns) = g
  BY <1>1, <1>3, PutTaken
<1> QED
  BY <1>2, <1>4

LEMMA TakeAllPut ==
  ASSUME NEW g, Good(g), NEW p, p \in g.used \cap ElementNode
  PROVE  Insert(RemoveNodes(g, g.kids[p]), Pos(p, Null), g.kids[p]) = g
<1>1. PICK s : s = g.kids[p]
  OBVIOUS
<1>2. Thirds(g, p, <<>>, s, <<>>)
  BY <1>1, AllKids DEF Node
<1>3. Before(p, <<>>) = Pos(p, Null)
  BY DEF Before, At
<1>4. Insert(RemoveNodes(g, s), Before(p, <<>>), s) = g
  BY <1>2, TakenPut
<1> QED
  BY <1>1, <1>3, <1>4

\* What was taken can be put in another node but those that were taken.
LEMMA LooseIn ==
  ASSUME NEW g, NEW ns, NEW p, Loose(g, ns, p), NEW q, q \notin ToSet(ns)
  PROVE  Loose(g, ns, q)
BY DEF Loose, ToSet

\* A child of p is in no other node.
LEMMA OnlyThere ==
  ASSUME NEW g, Good(g), NEW p, NEW a, NEW n, NEW b, Thirds(g, p, a, <<n>>, b),
         NEW q \in Node, q # p
  PROVE  n \notin ToSet(g.kids[q])
<1> USE DEF Good
<1>1. SUFFICES ASSUME NEW i \in DOMAIN g.kids[q], g.kids[q][i] = n
               PROVE  FALSE
  BY DEF ToSet
<1>2. Parent(g, n) = q
  BY <1>1, ParentOf
<1>3. Parent(g, n) = p
  BY AfterOne
<1> QED
  BY <1>2, <1>3

LEMMA NotInItself ==
  ASSUME NEW g, Good(g), NEW p \in Node
  PROVE  p \notin ToSet(g.kids[p])
BY DEF Good, OnePlace

LEMMA NowhereNot ==
  ASSUME NEW g, NEW n, Nowhere(g, n), NEW p \in Node
  PROVE  n \notin ToSet(g.kids[p])
BY DEF Nowhere, ToSet

LEMMA JoinTextsInverts ==
  ASSUME NEW g, Good(g), NoCycles(g), NEW c, c.op = "join", IsText(c.first), IsText(c.second),
         Placed(g, c.first), NextSibling(g, c.first) = c.second,
         c.at = TextLength(g, c.first)
  PROVE  Inverts(g, c)
<1>1. PICK n, m, s, r : n = c.first /\ m = c.second /\ s = g.data[n] /\ r = g.data[m]
  OBVIOUS
<1>2. n \in Node /\ m \in Node /\ s \in Seq(Name \cup Char) /\ r \in Seq(Name \cup Char)
  BY <1>1, DataOf DEF IsText, Node
<1>3. PICK p, a, b : Thirds(g, p, a, <<n>>, b)
  BY <1>1, <1>2, PlacePieces
<1>4. PICK d \in Seq(Node) : /\ Thirds(g, p, a, <<n>>, <<m>> \o d)
                             /\ Thirds(g, p, a \o <<n>>, <<m>>, d)
  BY <1>1, <1>2, <1>3, NextPieces
<1>5. PICK e : e = a \o <<n>>
  OBVIOUS
<1>6. p \in g.used \cap ElementNode
  BY <1>3, AfterOne
<1>7. TwoOf(Name \cup Char, s, r)
  BY <1>2, TwoPieces
<1>8. PICK h : h = SetData(g, n, s \o r)
  OBVIOUS
<1>9. Good(h) /\ h.kids = g.kids /\ h.used = g.used /\ h.data[n] = s \o r /\ NoCycles(h)
  <2>1. PICK t \in Seq(Name \cup Char) : t = s \o r
    BY <1>7 DEF TwoOf
  <2> QED
    BY <1>2, <1>8, <2>1, DataFacts, ZenonT(30)
<1>10. Thirds(h, p, e, <<m>>, d) /\ p \in h.used \cap ElementNode
  BY <1>4, <1>5, <1>6, <1>9 DEF Thirds
<1>11. PICK k : k = RemoveNodes(h, <<m>>)
  OBVIOUS
<1>12. IsTake(h, k, p, e, <<m>>, d) /\ Insert(k, Before(p, d), <<m>>) = h
  BY <1>9, <1>10, <1>11, Take, TakenPut
<1>13. Good(k) /\ k.data = h.data /\ Thirds(k, p, a, <<n>>, d) /\ NoCycles(k)
  <2>1. NoCycles(k)
    BY <1>9, <1>10, <1>12, TakeNoCycles DEF IsTake
  <2> QED
    BY <1>4, <1>5, <1>12, <2>1 DEF IsTake, Becomes, Thirds
<1>14. AfterNode(k, n) = Before(p, d)
  BY <1>13, AfterOne
<1>15. Execute(g, c) = k
  BY <1>1, <1>8, <1>11 DEF Execute
<1>16. Unexecute(k, c) = SetData(h, n, SubSeq(s \o r, 1, Len(s)))
  BY <1>1, <1>9, <1>12, <1>13, <1>14 DEF Unexecute, TextLength
<1>17. SubSeq(s \o r, 1, Len(s)) = s
  BY <1>7 DEF TwoOf
<1>18. SetData(h, n, s) = g
  <2>1. SetData(SetData(g, n, s \o r), n, g.data[n]) = g
    BY <1>2, <1>7, DataBack DEF TwoOf
  <2> QED
    BY <1>1, <1>8, <2>1
<1> QED
  BY <1>13, <1>15, <1>16, <1>17, <1>18 DEF Inverts

LEMMA JoinElementsInverts ==
  ASSUME NEW g, Good(g), NoCycles(g), NEW c, c.op = "join", ~IsText(c.first), ~IsText(c.second),
         Placed(g, c.first), c.second \in Node, NextSibling(g, c.first) = c.second,
         c.at = Len(g.kids[c.first])
  PROVE  Inverts(g, c)
<1>1. PICK n, m, s, r : n = c.first /\ m = c.second /\ s = g.kids[n] /\ r = g.kids[m]
  OBVIOUS
<1>2. n \in Node /\ m \in Node /\ s \in Seq(Node) /\ r \in Seq(Node)
  BY <1>1, AllKids DEF Placed
<1>3. PICK p, a, b : Thirds(g, p, a, <<n>>, b)
  BY <1>1, <1>2, PlacePieces
<1>4. PICK d \in Seq(Node) : /\ Thirds(g, p, a, <<n>>, <<m>> \o d)
                             /\ Thirds(g, p, a \o <<n>>, <<m>>, d)
  BY <1>1, <1>2, <1>3, NextPieces
<1>5. PICK e : e = a \o <<n>>
  OBVIOUS
<1>6. /\ p \in g.used \cap ElementNode /\ n \in g.used \cap ElementNode /\ p # n
      /\ m \in g.used \cap ElementNode /\ p # m
  <2>1. n \in ElementNode /\ m \in ElementNode
    BY <1>1, <1>2 DEF IsText, Node
  <2> QED
    BY <1>3, <1>4, <2>1, AfterOne
<1>7. n \notin ToSet(r) /\ n # m
  <2>1. n \notin ToSet(r)
    BY <1>1, <1>2, <1>3, <1>6, OnlyThere
  <2>3. n # m
    BY <1>1, <1>2, NextDiffers, NodeFacts
  <2> QED
    BY <2>1, <2>3
<1>8. PICK h : h = RemoveNodes(g, r)
  OBVIOUS
<1>9. /\ IsTakeAll(g, h, m) /\ Loose(h, r, n) /\ Good(h)
      /\ Insert(h, Pos(m, Null), r) = g
  <2>1. IsTakeAll(g, h, m) /\ Insert(h, Pos(m, Null), r) = g
    BY <1>1, <1>2, <1>6, <1>8, TakeAll, TakeAllPut
  <2>2. Loose(h, r, m)
    BY <1>1, <2>1 DEF IsTakeAll
  <2>3. Loose(h, r, n)
    BY <1>7, <2>2, LooseIn
  <2> QED
    BY <2>1, <2>3 DEF IsTakeAll
<1>10. PICK k : k = Insert(h, Pos(n, Null), r)
  OBVIOUS
<1>11. /\ IsPutEnd(h, k, n, r) /\ Good(k) /\ k.used = g.used /\ k.kids[n] = s \o r
       /\ k.kids[p] = g.kids[p] /\ RemoveNodes(k, r) = h
  <2>1. n \in h.used \cap ElementNode /\ h.kids[n] = s /\ h.kids[p] = g.kids[p] /\ h.used = g.used
    BY <1>1, <1>2, <1>3, <1>6, <1>7, <1>9, ThirdsFacts DEF IsTakeAll, Becomes
  <2>2. IsPutEnd(h, k, n, r) /\ RemoveNodes(k, r) = h
    BY <1>9, <1>10, <2>1, PutEnd, PutEndTaken
  <2> QED
    BY <1>3, <1>6, <2>1, <2>2, ThirdsFacts DEF IsPutEnd, Becomes
<1>12. Thirds(k, p, e, <<m>>, d) /\ p \in k.used \cap ElementNode
  BY <1>4, <1>5, <1>6, <1>11 DEF Thirds
<1>13. PICK l : l = RemoveNodes(k, <<m>>)
  OBVIOUS
<1>14. IsTake(k, l, p, e, <<m>>, d) /\ Insert(l, Before(p, d), <<m>>) = k
  BY <1>11, <1>12, <1>13, Take, TakenPut
<1>15. Good(l) /\ l.kids[n] = s \o r /\ Thirds(l, p, a, <<n>>, d)
  BY <1>2, <1>4, <1>5, <1>6, <1>11, <1>14 DEF IsTake, Becomes, Thirds
<1>16. AfterNode(l, n) = Before(p, d)
  BY <1>15, AfterOne
<1>17. Execute(g, c) = l
  BY <1>1, <1>8, <1>10, <1>13 DEF Execute, Move
<1>18. Joined(l, c) = r
  <2>1. TwoOf(Node, s, r)
    BY <1>2, TwoPieces
  <2> QED
    BY <1>1, <1>15, <2>1 DEF Joined, TwoOf
<1>19. Unexecute(l, c) = Insert(RemoveNodes(k, r), Pos(m, Null), r)
  BY <1>1, <1>14, <1>16, <1>18 DEF Unexecute, Move
<1>20. NoCycles(l)
  <2>1. PICK all : all = Below(g, ToSet(r))
    OBVIOUS
  <2>2. n \in ToSet(g.kids[p]) /\ m \in ToSet(g.kids[p])
    BY <1>4, <1>5, ThirdsMembers
  <2>3. /\ Grove(g) /\ ToSet(r) \in SUBSET Node /\ ToSet(g.kids[p]) \in SUBSET Node
        /\ p \in Node
    BY <1>1, <1>2, <1>3, ThirdsFacts, ParentIsElement DEF Good
  <2>4. ToSet(r) \subseteq Below(g, ToSet(g.kids[p]))
    BY <1>1, <2>2, <2>3, BelowFacts DEF Closed
  <2>5. n \notin all /\ Closed(g, all) /\ ToSet(r) \subseteq all
    BY <1>7, <2>1, <2>2, <2>3, <2>4, NotBelowSibling, BelowFacts
  <2>6. ToSet(l.kids[n]) \subseteq ToSet(g.kids[n]) \cup all
    BY <1>1, <1>2, <1>15, <2>5, ToSetPieces
  <2>7. ASSUME NEW q \in Node \ {n} PROVE ToSet(l.kids[q]) \subseteq ToSet(g.kids[q])
    <3>1. CASE q = p
      <4>1. Halves(l, p, e, d)
        BY <1>12, <1>14, TakePieces
      <4>2. PICK f : f = <<m>> /\ Thirds(g, p, e, f, d)
        BY <1>4, <1>5
      <4>3. Thirds(g, p, e, f, d)
        BY <4>2
      <4> QED
        BY <3>1, <4>1, <4>3, ThirdsToSet, HalvesToSet
    <3>2. CASE q # p /\ q = m
      <4>1. l.kids[q] = <<>>
        BY <1>7, <1>9, <1>11, <1>14, <3>2 DEF IsTake, IsPutEnd, IsTakeAll, Becomes
      <4> QED
        BY <4>1 DEF ToSet
    <3>3. CASE q # p /\ q # m
      <4>1. h.kids[q] = g.kids[q]
        BY <1>9, <3>3 DEF IsTakeAll, Becomes
      <4>2. k.kids[q] = h.kids[q]
        BY <1>11 DEF IsPutEnd, Becomes
      <4>3. l.kids[q] = k.kids[q]
        BY <1>14, <3>3 DEF IsTake, Becomes
      <4> QED
        BY <4>1, <4>2, <4>3
    <3> QED
      BY <3>1, <3>2, <3>3
  <2> QED
    BY <1>2, <2>5, <2>6, <2>7, NoNewCycles
<1> QED
  BY <1>9, <1>11, <1>15, <1>17, <1>19, <1>20 DEF Inverts

\* The grove h is g with the node new in place of elem, and with its children.
IsRename(g, h, p, a, elem, new, b) ==
  /\ Good(h) /\ Thirds(h, p, a, <<new>>, b)
  /\ h.kids[elem] = <<>> /\ h.kids[new] = g.kids[elem]
  /\ \A q \in Node \ {p, elem, new} : h.kids[q] = g.kids[q]
  /\ h.data = g.data /\ h.used = g.used
  /\ Loose(h, <<elem>>, p) /\ NoCycles(h)

LEMMA RenameSteps ==
  ASSUME NEW g, Good(g), NoCycles(g), NEW p, NEW a, NEW elem, NEW b, Thirds(g, p, a, <<elem>>, b),
         elem \in ElementNode, NEW new \in ElementNode, Loose(g, <<new>>, p), new # elem,
         g.kids[new] = <<>>, NEW f, f.op = "rename", f.elem = elem, f.newElem = new
  PROVE  IsRename(g, Execute(g, f), p, a, elem, new, b)
<1>1. PICK s : s = g.kids[elem]
  OBVIOUS
<1>2. /\ elem \in Node /\ new \in Node /\ elem # p /\ new # p /\ p \in Node
      /\ p \in g.used \cap ElementNode /\ elem \in g.used /\ new \in g.used
      /\ Nowhere(g, new) /\ s \in Seq(Node) /\ AfterNode(g, elem) = Before(p, b)
      /\ <<new>> \in Seq(Node)
  <2>1. 1 \in DOMAIN <<new>> /\ <<new>>[1] = new
    OBVIOUS
  <2>2. Nowhere(g, new) /\ new \in g.used \ {Document, p}
    BY <2>1 DEF Loose
  <2> QED
    BY <1>1, <2>2, AfterOne, AllKids, ThirdsFacts DEF Node
<1>3. elem \notin ToSet(s) /\ new \notin ToSet(s)
  BY <1>1, <1>2, NotInItself, NowhereNot
<1>4. PICK h : h = RemoveNodes(g, <<elem>>)
  OBVIOUS
<1>5. IsTake(g, h, p, a, <<elem>>, b) /\ Good(h) /\ Halves(h, p, a, b)
  BY <1>4, Take, TakePieces DEF IsTake
<1>6. /\ h.kids[elem] = s /\ h.kids[new] = <<>> /\ h.used = g.used /\ h.data = g.data
      /\ h.kids[p] = a \o b
      /\ \A q \in Node \ {p} : h.kids[q] = g.kids[q]
      /\ Nowhere(h, new) /\ Nowhere(h, elem)
  <2>1. 1 \in DOMAIN <<elem>> /\ <<elem>>[1] = elem
    OBVIOUS
  <2>2. Nowhere(h, elem)
    BY <1>5, <2>1 DEF IsTake, Loose
  <2> QED
    BY <1>1, <1>2, <1>5, <2>2 DEF IsTake, Becomes
<1>7. PICK k : k = RemoveNodes(h, s)
  OBVIOUS
<1>8. IsTakeAll(h, k, elem) /\ Good(k) /\ Loose(k, s, new)
  <2>1. IsTakeAll(h, k, elem)
    BY <1>2, <1>5, <1>6, <1>7, TakeAll
  <2>2. Loose(k, s, elem)
    BY <1>6, <2>1 DEF IsTakeAll
  <2> QED
    BY <1>3, <2>1, <2>2, LooseIn DEF IsTakeAll
<1>9. /\ k.kids[elem] = <<>> /\ k.kids[new] = <<>> /\ k.kids[p] = a \o b
      /\ k.used = g.used /\ k.data = g.data
      /\ \A q \in Node \ {p, elem} : k.kids[q] = g.kids[q]
      /\ Nowhere(k, new) /\ Nowhere(k, elem)
  BY <1>2, <1>6, <1>8 DEF IsTakeAll, Becomes
<1>10. PICK l : l = Insert(k, Pos(new, Null), s)
  OBVIOUS
<1>11. IsPutEnd(k, l, new, s) /\ Good(l)
  BY <1>2, <1>8, <1>9, <1>10, PutEnd DEF IsPutEnd
<1>12. <<>> \o s = s
  BY <1>2, ConcatEmptySeq
<1>13. /\ l.kids[elem] = <<>> /\ l.kids[new] = s /\ l.kids[p] = a \o b
       /\ l.used = g.used /\ l.data = g.data
       /\ \A q \in Node \ {p, elem, new} : l.kids[q] = g.kids[q]
       /\ Nowhere(l, new) /\ Nowhere(l, elem)
  BY <1>2, <1>3, <1>9, <1>11, <1>12 DEF IsPutEnd, Becomes
<1>14. Halves(l, p, a, b) /\ Loose(l, <<new>>, p) /\ p \in l.used \cap ElementNode
  BY <1>2, <1>5, <1>13 DEF Halves, Loose
<1>15. PICK m : m = Insert(l, Before(p, b), <<new>>)
  OBVIOUS
<1>16. IsPut(l, m, p, a, <<new>>, b) /\ Thirds(m, p, a, <<new>>, b) /\ Good(m)
  BY <1>2, <1>11, <1>14, <1>15, Put, PutPieces DEF IsPut
<1>17. /\ m.kids[elem] = <<>> /\ m.kids[new] = s
       /\ m.used = g.used /\ m.data = g.data
       /\ \A q \in Node \ {p, elem, new} : m.kids[q] = g.kids[q]
  BY <1>2, <1>13, <1>16 DEF IsPut, Becomes
<1>18. Loose(m, <<elem>>, p)
  <2>1. elem \notin ToSet(<<new>>)
    BY DEF ToSet
  <2>2. Nowhere(m, elem)
    BY <1>13, <1>16, <2>1 DEF IsPut
  <2>3. Loose(h, <<elem>>, p)
    BY <1>5 DEF IsTake
  <2>4. \A i \in DOMAIN <<elem>> : <<elem>>[i] = elem
    OBVIOUS
  <2> QED
    BY <1>6, <1>17, <2>2, <2>3, <2>4 DEF Loose
<1>19. Execute(g, f) = m
  BY <1>1, <1>2, <1>4, <1>7, <1>10, <1>15 DEF Execute, Move
<1>20. NoCycles(l)
  <2>1. Closed(g, Node \ {new})
    BY <1>2, ParentIsElement, NowhereNot DEF Closed
  <2>2. ToSet(s) \subseteq Node \ {new}
    BY <1>1, <1>2, <1>3, ParentIsElement
  <2>3. \A q \in Node \ {new} : ToSet(l.kids[q]) \subseteq ToSet(g.kids[q])
    <3>1. ToSet(l.kids[p]) \subseteq ToSet(g.kids[p])
      <4>1. PICK r : r = <<elem>> /\ Thirds(g, p, a, r, b)
        OBVIOUS
      <4>2. Thirds(g, p, a, r, b)
        BY <4>1
      <4>3. Halves(l, p, a, b)
        BY <1>14
      <4> QED
        BY <4>2, <4>3, ThirdsToSet, HalvesToSet
    <3>2. ToSet(l.kids[elem]) = {}
      BY <1>13 DEF ToSet
    <3> QED
      BY <1>2, <1>13, <3>1, <3>2
  <2> QED
    BY <1>2, <1>13, <2>1, <2>2, <2>3, NoNewCycles
<1>21. NoCycles(m)
  <2>1. PICK all : all = Below(g, {elem}) \cup {new}
    OBVIOUS
  <2>2. /\ Grove(g) /\ {elem} \in SUBSET Node /\ ToSet(g.kids[p]) \in SUBSET Node
        /\ elem \in ToSet(g.kids[p])
    BY <1>2, ThirdsMembers, ParentIsElement DEF Good
  <2>3. Below(g, {elem}) \in SUBSET Node /\ Closed(g, Below(g, {elem})) /\ elem \in Below(g, {elem})
    BY <2>2, BelowFacts
  <2>4. p \notin all
    <3>1. {elem} \subseteq Below(g, ToSet(g.kids[p]))
      BY <2>2, BelowFacts
    <3>2. Below(g, {elem}) \subseteq Below(g, ToSet(g.kids[p]))
      BY <2>2, <3>1, BelowMore
    <3> QED
      BY <1>2, <2>1, <3>2, NoLoop
  <2>5. Closed(l, all)
    <3>1. ToSet(l.kids[new]) \subseteq Below(g, {elem})
      BY <1>1, <1>13, <2>3 DEF Closed
    <3>2. ASSUME NEW q \in Below(g, {elem}), q # new
          PROVE  ToSet(l.kids[q]) \subseteq Below(g, {elem})
      <4>1. CASE q = elem
        BY <1>13, <4>1 DEF ToSet
      <4>2. CASE q # elem
        <5>1. q # p
          BY <2>1, <2>4
        <5> QED
          BY <1>13, <2>3, <3>2, <4>2, <5>1 DEF Closed
      <4> QED
        BY <4>1, <4>2
    <3> QED
      BY <2>1, <3>1, <3>2 DEF Closed
  <2>6. ToSet(<<new>>) \subseteq all
    BY <2>1 DEF ToSet
  <2> QED
    BY <1>2, <1>14, <1>16, <1>20, <2>4, <2>5, <2>6, PutNoCycles DEF IsPut
<1> QED
  BY <1>1, <1>16, <1>17, <1>18, <1>19, <1>21 DEF IsRename

LEMMA HasKids ==
  ASSUME NEW g, NEW p, NEW a, NEW n, NEW b, Thirds(g, p, a, <<n>>, b)
  PROVE  g.kids[p] # <<>>
<1>1. PICK m : Thirds(g, p, a, m, b) /\ Len(m) = 1
  OBVIOUS
<1>2. Thirds(g, p, a, m, b)
  BY <1>1
<1>3. /\ Len(g.kids[p]) = Len(a) + Len(m) + Len(b)
      /\ Len(a) \in Nat /\ Len(b) \in Nat
  BY <1>2, ThirdsFacts
<1>4. Len(g.kids[p]) # 0
  BY <1>1, <1>3
<1> QED
  BY <1>4

LEMMA RenameInverts ==
  ASSUME NEW g, Good(g), NoCycles(g), NEW c, c.op = "rename", c.elem \in ElementNode, Placed(g, c.elem),
         Blank(g, c.newElem)
  PROVE  Inverts(g, c)
<1>1. PICK elem, new : elem = c.elem /\ new = c.newElem
  OBVIOUS
<1>2. /\ elem \in Node /\ elem \in ElementNode /\ new \in ElementNode /\ new \in Node
      /\ g.kids[new] = <<>>
  BY <1>1 DEF Node, Blank
<1>3. PICK p, a, b : Thirds(g, p, a, <<elem>>, b)
  BY <1>1, <1>2, PlacePieces
<1>4. new # elem
  BY <1>1 DEF Placed, Blank, Apart
<1>5. new # p
  BY <1>2, <1>3, HasKids
<1>6. Loose(g, <<new>>, p)
  BY <1>1, <1>5, ApartLoose DEF Blank
<1>7. PICK h : h = Execute(g, c)
  OBVIOUS
<1>8. IsRename(g, h, p, a, elem, new, b)
  BY <1>1, <1>2, <1>3, <1>4, <1>6, <1>7, RenameSteps
<1>9. PICK f : f = [op |-> "rename", elem |-> new, newElem |-> elem]
  OBVIOUS
<1>10. IsRename(h, Execute(h, f), p, a, new, elem, b)
  <2>1. f.op = "rename" /\ f.elem = new /\ f.newElem = elem
    BY <1>9
  <2>2. /\ Good(h) /\ NoCycles(h) /\ Thirds(h, p, a, <<new>>, b) /\ Loose(h, <<elem>>, p)
        /\ h.kids[elem] = <<>>
    BY <1>8 DEF IsRename
  <2> QED
    BY <1>2, <1>4, <2>1, <2>2, RenameSteps
<1>11. Unexecute(h, c) = Execute(h, f)
  BY <1>1, <1>9 DEF Unexecute, Execute
<1>12. PICK k : k = Execute(h, f)
  OBVIOUS
<1>13. /\ Grove(k) /\ Grove(g) /\ k.data = g.data /\ k.used = g.used
       /\ k.kids[p] = g.kids[p] /\ k.kids[elem] = g.kids[elem] /\ k.kids[new] = g.kids[new]
       /\ \A q \in Node \ {p, elem, new} : k.kids[q] = g.kids[q]
  BY <1>2, <1>3, <1>8, <1>10, <1>12 DEF IsRename, Thirds, Good
<1>14. \A q \in Node : k.kids[q] = g.kids[q]
  BY <1>13
<1>15. k = g
  BY <1>13, <1>14, SameGrove
<1> QED
  BY <1>7, <1>8, <1>11, <1>12, <1>15 DEF Inverts, IsRename

\* The children of e from the one before which the position is.
LEMMA TailRange ==
  ASSUME NEW g, Good(g), NEW e, NEW r, NEW m, Halves(g, e, r, m),
         NEW q, q.node = e, q.at = At(m, 1)
  PROVE  m = IF q.at = Null THEN <<>> ELSE SiblingRange(g, q.at, LastChild(g, e))
<1>0. /\ e \in Node /\ m \in Seq(Node) /\ Len(r) \in Nat /\ Len(m) \in Nat
      /\ DOMAIN g.kids[e] = 1 .. Len(r) + Len(m) /\ Len(g.kids[e]) = Len(r) + Len(m)
  BY HalvesFacts
<1>1. CASE m = <<>>
  BY <1>1 DEF At
<1>2. CASE m # <<>>
  <2>1. 1 \in 1 .. Len(m) /\ DOMAIN m = 1 .. Len(m)
    BY <1>0, <1>2, EmptySeq, LenProperties
  <2>2. q.at = m[1] /\ m[1] # Null
    BY <1>0, <2>1, NodeFacts, ElementOfSeq DEF At
  <2>3. Len(r) + 1 \in DOMAIN g.kids[e] /\ g.kids[e][Len(r) + 1] = m[1]
    BY <1>0, <2>1, HalvesFacts
  <2>4. /\ Parent(g, g.kids[e][Len(r) + 1]) = e
        /\ Index(g, g.kids[e][Len(r) + 1]) = Len(r) + 1
    BY <1>0, <2>3, ParentOf, IndexOf DEF Good
  <2>5. Len(r) + Len(m) \in DOMAIN g.kids[e]
    BY <1>0, <2>1
  <2>6. Index(g, g.kids[e][Len(r) + Len(m)]) = Len(r) + Len(m)
    BY <1>0, <2>5, IndexOf DEF Good
  <2>7. LastChild(g, e) = g.kids[e][Len(r) + Len(m)]
    BY <1>0, <2>5 DEF LastChild, At
  <2>8. SiblingRange(g, q.at, LastChild(g, e)) = SubSeq(g.kids[e], Len(r) + 1, Len(g.kids[e]))
    BY <1>0, <2>2, <2>3, <2>4, <2>6, <2>7 DEF SiblingRange, Siblings
  <2>9. SubSeq(g.kids[e], Len(r) + 1, Len(g.kids[e])) = m
    BY HalvesFacts
  <2> QED
    BY <2>2, <2>8, <2>9
<1> QED
  BY <1>1, <1>2

\* What is put after a node: it is a child of the same element.
LEMMA BlankAfter ==
  ASSUME NEW g, Good(g), NoCycles(g), NEW p, NEW a, NEW b, Halves(g, p, a, b),
         p \in g.used \cap ElementNode, NEW n, Blank(g, n), n # p,
         NEW h, h = Insert(g, Before(p, b), <<n>>)
  PROVE  /\ Good(h) /\ NoCycles(h) /\ Thirds(h, p, a, <<n>>, b)
         /\ \A q \in Node \ {p} : h.kids[q] = g.kids[q]
         /\ h.data = g.data /\ h.used = g.used /\ h.kids[n] = <<>>
<1>1. Loose(g, <<n>>, p) /\ n \in Node /\ g.kids[n] = <<>>
  BY ApartLoose DEF Blank
<1>2. <<n>> \in Seq(Node)
  BY <1>1
<1>3. IsPut(g, h, p, a, <<n>>, b) /\ Thirds(h, p, a, <<n>>, b)
  BY <1>1, <1>2, Put, PutPieces
<1>4. Becomes(g, h, p, a \o <<n>> \o b)
  BY <1>3 DEF IsPut
<1>5. Closed(g, {n}) /\ ToSet(<<n>>) \subseteq {n}
  BY <1>1 DEF Closed, ToSet
<1>6. NoCycles(h)
  BY <1>2, <1>4, <1>5, PutNoCycles
<1> QED
  BY <1>1, <1>3, <1>4, <1>6 DEF IsPut, Becomes

LEMMA SplitElementInverts ==
  ASSUME NEW g, Good(g), NoCycles(g), NEW c, c.op = "splitElement",
         InElement(g, c.pos), Placed(g, c.pos.node), Blank(g, c.split)
  PROVE  Inverts(g, c)
<1>1. PICK e, new : e = c.pos.node /\ new = c.split
  OBVIOUS
<1>2. /\ e \in Node /\ e \in ElementNode /\ new \in ElementNode /\ new \in Node
      /\ new \in g.used /\ g.kids[new] = <<>> /\ new # e /\ Nowhere(g, new)
  <2>1. Apart(g, new) /\ new \in ElementNode /\ g.kids[new] = <<>>
    BY <1>1 DEF Blank
  <2>2. new \in g.used /\ Nowhere(g, new)
    BY <2>1, ApartNowhere DEF Good
  <2>3. new # e
    BY <1>1, <2>1 DEF Apart, Placed
  <2>4. e \in ElementNode
    BY <1>1 DEF InElement
  <2> QED
    BY <2>1, <2>2, <2>3, <2>4 DEF Node
<1>3. PICK p, a, b : Thirds(g, p, a, <<e>>, b)
  BY <1>1, <1>2, PlacePieces
<1>4. PICK r, m : Halves(g, e, r, m) /\ c.pos.at = At(m, 1)
  BY <1>1, PosPieces
<1>5. PICK d : d = a \o <<e>> /\ Halves(g, p, d, b)
  BY <1>3, LeftHalf
<1>6. /\ p \in Node /\ p \in g.used \cap ElementNode /\ e \in g.used /\ e # p /\ new # p
      /\ AfterNode(g, e) = Before(p, b) /\ r \in Seq(Node) /\ m \in Seq(Node)
  BY <1>2, <1>3, <1>4, AfterOne, HasKids, ThirdsFacts, HalvesFacts
<1>7. new \notin ToSet(m) /\ e \notin ToSet(m)
  BY <1>2, <1>4, NowhereNot, NotInItself, HalvesToSet
<1>8. PICK h : h = Insert(g, Before(p, b), <<new>>)
  OBVIOUS
<1>9. /\ Good(h) /\ NoCycles(h) /\ Thirds(h, p, d, <<new>>, b)
      /\ \A q \in Node \ {p} : h.kids[q] = g.kids[q]
      /\ h.data = g.data /\ h.used = g.used /\ h.kids[new] = <<>>
  BY <1>1, <1>5, <1>6, <1>8, BlankAfter, SMTT(30)
<1>10. PICK k : k = RemoveNodes(h, m)
  OBVIOUS
<1>11. /\ Thirds(h, e, r, m, <<>>) /\ r \o <<>> = r /\ h.kids[e] = r \o m
  <2>1. h.kids[e] = r \o m
    BY <1>2, <1>4, <1>6, <1>9 DEF Halves
  <2>2. r \o m \in Seq(Node)
    BY <1>6, ConcatProperties
  <2>3. r \o m \o <<>> = r \o m /\ r \o <<>> = r /\ <<>> \in Seq(Node)
    BY <1>6, <2>2, ConcatEmptySeq
  <2> QED
    BY <1>2, <1>6, <2>1, <2>3 DEF Thirds
<1>12. /\ Good(k) /\ Loose(k, m, new) /\ k.kids[e] = r
       /\ \A q \in Node \ {e} : k.kids[q] = h.kids[q]
       /\ k.data = g.data /\ k.used = g.used
  <2>1. IsTake(h, k, e, r, m, <<>>)
    BY <1>9, <1>10, <1>11, Take
  <2>2. Loose(k, m, new)
    BY <1>7, <2>1, LooseIn DEF IsTake
  <2> QED
    BY <1>9, <1>11, <2>1, <2>2 DEF IsTake, Becomes
<1>13. PICK l : l = Insert(k, Pos(new, Null), m)
  OBVIOUS
<1>14. /\ Good(l) /\ l.kids[new] = m
       /\ \A q \in Node \ {new} : l.kids[q] = k.kids[q]
       /\ l.data = g.data /\ l.used = g.used
  <2>1. IsPutEnd(k, l, new, m)
    BY <1>2, <1>12, <1>13, PutEnd
  <2>2. k.kids[new] = <<>>
    BY <1>2, <1>9, <1>12
  <2>3. <<>> \o m = m
    BY <1>6, ConcatEmptySeq
  <2> QED
    BY <1>12, <2>1, <2>2, <2>3 DEF IsPutEnd, Becomes
<1>15. NoCycles(l)
  <2>1. PICK all : all = Below(h, ToSet(m))
    OBVIOUS
  <2>2. new \in ToSet(h.kids[p]) /\ e \in ToSet(h.kids[p])
    <3>1. e \in ToSet(g.kids[p]) /\ e # new
      BY <1>2, <1>3, ThirdsMembers
    <3>2. ToSet(g.kids[p]) = ToSet(d) \cup ToSet(b)
      BY <1>5, HalvesToSet
    <3>3. PICK f : f = <<new>> /\ Thirds(h, p, d, f, b)
      BY <1>9
    <3>4. Thirds(h, p, d, f, b)
      BY <3>3
    <3>5. ToSet(h.kids[p]) = ToSet(d) \cup ToSet(f) \cup ToSet(b)
      BY <3>4, ThirdsToSet
    <3> QED
      BY <1>9, <3>1, <3>2, <3>5, ThirdsMembers
  <2>3. /\ Grove(h) /\ ToSet(h.kids[p]) \in SUBSET Node /\ ToSet(m) \in SUBSET Node
        /\ ToSet(m) \subseteq ToSet(h.kids[e])
    <3>1. ToSet(m) \subseteq ToSet(h.kids[e])
      BY <1>2, <1>4, <1>6, <1>9, HalvesToSet
    <3> QED
      BY <1>2, <1>6, <1>9, <3>1, ParentIsElement DEF Good
  <2>4. ToSet(m) \subseteq Below(h, ToSet(h.kids[p]))
    BY <2>2, <2>3, BelowFacts DEF Closed
  <2>5. new \notin all /\ Closed(h, all) /\ ToSet(m) \subseteq all
    BY <1>6, <1>7, <1>9, <2>1, <2>2, <2>3, <2>4, NotBelowSibling, BelowFacts
  <2>6. \A q \in Node \ {new} : ToSet(l.kids[q]) \subseteq ToSet(h.kids[q])
    <3>1. ToSet(l.kids[e]) \subseteq ToSet(h.kids[e])
      BY <1>2, <1>6, <1>11, <1>12, <1>14, ToSetPieces
    <3> QED
      BY <1>12, <1>14, <3>1
  <2>7. ToSet(l.kids[new]) \subseteq ToSet(h.kids[new]) \cup all
    BY <1>14, <2>5
  <2> QED
    BY <1>2, <1>9, <2>5, <2>6, <2>7, NoNewCycles
<1>16. Execute(g, c) = l
  <2>1. m = IF c.pos.at = Null THEN <<>> ELSE SiblingRange(g, c.pos.at, LastChild(g, e))
    BY <1>1, <1>4, TailRange
  <2> QED
    BY <1>1, <1>6, <1>8, <1>10, <1>13, <2>1 DEF Execute, Move
\* Undone: the new element is taken, and what was moved to it is put back.
<1>17. PICK x : x = RemoveNodes(l, <<new>>)
  OBVIOUS
<1>18. Thirds(l, p, d, <<new>>, b)
  <2>1. l.kids[p] = h.kids[p]
    BY <1>6, <1>12, <1>14
  <2> QED
    BY <1>9, <2>1 DEF Thirds
<1>19. /\ Good(x) /\ x.kids[p] = g.kids[p] /\ x.kids[new] = m
       /\ \A q \in Node \ {p} : x.kids[q] = l.kids[q]
       /\ x.data = g.data /\ x.used = g.used
  <2>1. IsTake(l, x, p, d, <<new>>, b)
    BY <1>14, <1>17, <1>18, Take
  <2> QED
    BY <1>2, <1>5, <1>6, <1>14, <2>1 DEF IsTake, Becomes, Halves
<1>20. PICK y : y = RemoveNodes(x, m)
  OBVIOUS
<1>21. /\ Good(y) /\ Loose(y, m, e) /\ y.kids[new] = <<>>
       /\ \A q \in Node \ {new} : y.kids[q] = x.kids[q]
       /\ y.data = g.data /\ y.used = g.used
  <2>1. IsTakeAll(x, y, new)
    BY <1>2, <1>19, <1>20, TakeAll
  <2>2. Loose(y, m, new)
    BY <1>19, <2>1 DEF IsTakeAll
  <2>3. Loose(y, m, e)
    BY <1>7, <2>2, LooseIn
  <2> QED
    BY <1>19, <2>1, <2>3 DEF IsTakeAll, Becomes
<1>22. PICK z : z = Insert(y, Pos(e, Null), m)
  OBVIOUS
<1>23. /\ Good(z) /\ z.kids[e] = r \o m
       /\ \A q \in Node \ {e} : z.kids[q] = y.kids[q]
       /\ z.data = g.data /\ z.used = g.used
  <2>1. IsPutEnd(y, z, e, m)
    BY <1>2, <1>6, <1>21, <1>22, PutEnd
  <2>2. y.kids[e] = r
    BY <1>2, <1>6, <1>12, <1>14, <1>19, <1>21
  <2> QED
    BY <1>21, <2>1, <2>2 DEF IsPutEnd, Becomes
<1>24. Unexecute(l, c) = z
  BY <1>1, <1>14, <1>17, <1>20, <1>22 DEF Unexecute, Move
<1>25. z = g
  <2>1. z.kids[e] = g.kids[e] /\ z.kids[p] = g.kids[p] /\ z.kids[new] = g.kids[new]
    BY <1>2, <1>4, <1>6, <1>19, <1>21, <1>23 DEF Halves
  <2>2. ASSUME NEW q \in Node \ {e, p, new} PROVE z.kids[q] = g.kids[q]
    BY <1>9, <1>12, <1>14, <1>19, <1>21, <1>23
  <2>3. \A q \in Node : z.kids[q] = g.kids[q]
    BY <2>1, <2>2
  <2> QED
    BY <1>23, <2>3, SameGrove DEF Good
<1> QED
  BY <1>14, <1>15, <1>16, <1>24, <1>25 DEF Inverts

LEMMA UntagInverts ==
  ASSUME NEW g, Good(g), NoCycles(g), NEW c, c.op = "untag",
         c.elem \in ElementNode, Placed(g, c.elem), c.nodes = g.kids[c.elem],
         c.pos = AfterNode(g, c.elem)
  PROVE  Inverts(g, c)
<1>1. PICK e, m : e = c.elem /\ m = g.kids[e]
  OBVIOUS
<1>2. e \in Node /\ e \in ElementNode /\ m \in Seq(Node) /\ c.nodes = m
  BY <1>1, AllKids DEF Node
<1>3. PICK p, a, b : Thirds(g, p, a, <<e>>, b)
  BY <1>1, <1>2, PlacePieces
<1>4. /\ p \in Node /\ p \in g.used \cap ElementNode /\ e \in g.used /\ e # p
      /\ c.pos = Before(p, b) /\ a \in Seq(Node) /\ b \in Seq(Node)
  BY <1>1, <1>2, <1>3, AfterOne, ThirdsFacts
<1>5. p \notin ToSet(m) /\ e \notin ToSet(m)
  BY <1>1, <1>2, <1>3, <1>4, ThirdsMembers, NotEachOther, NotInItself
<1>6. PICK h : h = RemoveNodes(g, <<e>>)
  OBVIOUS
<1>7. /\ Good(h) /\ h.kids[p] = a \o b /\ Nowhere(h, e)
      /\ \A q \in Node \ {p} : h.kids[q] = g.kids[q]
      /\ h.data = g.data /\ h.used = g.used
  <2>1. IsTake(g, h, p, a, <<e>>, b)
    BY <1>3, <1>6, Take
  <2>2. 1 \in DOMAIN <<e>> /\ <<e>>[1] = e
    OBVIOUS
  <2>3. Nowhere(h, e)
    BY <2>1, <2>2 DEF IsTake, Loose
  <2> QED
    BY <2>1, <2>3 DEF IsTake, Becomes
<1>8. PICK k : k = RemoveNodes(h, m)
  OBVIOUS
<1>9. /\ Good(k) /\ Loose(k, m, p) /\ k.kids[e] = <<>> /\ Nowhere(k, e)
      /\ \A q \in Node \ {e} : k.kids[q] = h.kids[q]
      /\ k.data = g.data /\ k.used = g.used
  <2>1. h.kids[e] = m
    BY <1>1, <1>2, <1>4, <1>7
  <2>2. IsTakeAll(h, k, e)
    BY <1>2, <1>7, <1>8, <2>1, TakeAll
  <2>3. Loose(k, m, e)
    BY <2>1, <2>2 DEF IsTakeAll
  <2>4. Loose(k, m, p)
    BY <1>5, <2>3, LooseIn
  <2> QED
    BY <1>7, <2>2, <2>4 DEF IsTakeAll, Becomes
<1>10. Halves(k, p, a, b)
  BY <1>4, <1>7, <1>9 DEF Halves
<1>11. PICK l : l = Insert(k, Before(p, b), m)
  OBVIOUS
<1>12. /\ Good(l) /\ Thirds(l, p, a, m, b) /\ Nowhere(l, e) /\ l.kids[e] = <<>>
       /\ \A q \in Node \ {p} : l.kids[q] = k.kids[q]
       /\ l.data = g.data /\ l.used = g.used
  <2>1. IsPut(k, l, p, a, m, b) /\ Thirds(l, p, a, m, b)
    BY <1>2, <1>4, <1>9, <1>10, <1>11, Put, PutPieces
  <2>2. Nowhere(l, e)
    BY <1>5, <1>9, <2>1 DEF IsPut
  <2> QED
    BY <1>2, <1>4, <1>9, <2>1, <2>2 DEF IsPut, Becomes
<1>13. NoCycles(l)
  <2>1. PICK all : all = Below(g, {e})
    OBVIOUS
  <2>2. /\ Grove(g) /\ {e} \in SUBSET Node /\ ToSet(g.kids[p]) \in SUBSET Node
        /\ e \in ToSet(g.kids[p])
    BY <1>2, <1>3, <1>4, ThirdsMembers, ParentIsElement DEF Good
  <2>3. Closed(g, all) /\ e \in all /\ ToSet(m) \subseteq all
    BY <1>1, <2>1, <2>2, BelowFacts DEF Closed
  <2>4. p \notin all
    <3>1. {e} \subseteq Below(g, ToSet(g.kids[p]))
      BY <2>2, BelowFacts
    <3>2. Below(g, {e}) \subseteq Below(g, ToSet(g.kids[p]))
      BY <2>2, <3>1, BelowMore
    <3> QED
      BY <1>4, <2>1, <3>2, NoLoop
  <2>5. ToSet(l.kids[p]) \subseteq ToSet(g.kids[p]) \cup all
    <3>1. PICK f : f = <<e>> /\ Thirds(g, p, a, f, b)
      BY <1>3
    <3>2. Thirds(g, p, a, f, b)
      BY <3>1
    <3> QED
      BY <1>12, <2>3, <3>2, ThirdsToSet
  <2>6. \A q \in Node \ {p} : ToSet(l.kids[q]) \subseteq ToSet(g.kids[q])
    <3>1. ToSet(l.kids[e]) = {}
      BY <1>12 DEF ToSet
    <3> QED
      BY <1>7, <1>9, <1>12, <3>1
  <2> QED
    BY <1>4, <2>3, <2>4, <2>5, <2>6, NoNewCycles
<1>14. Execute(g, c) = l
  BY <1>1, <1>2, <1>4, <1>6, <1>8, <1>11 DEF Execute, Move
\* Undone: the element is put after what it contained, which is moved back to it.
<1>15. PICK d : d = a \o m /\ Halves(l, p, d, b)
  BY <1>12, LeftHalf
<1>16. Loose(l, <<e>>, p) /\ <<e>> \in Seq(Node)
  <2>1. <<e>> \in Seq(Node) /\ DOMAIN <<e>> = {1} /\ <<e>>[1] = e
    BY <1>2
  <2>2. e # Document
    BY <1>3, AfterOne
  <2> QED
    BY <1>4, <1>12, <2>1, <2>2 DEF Loose, IsInjective
<1>17. PICK x : x = Insert(l, Before(p, b), <<e>>)
  OBVIOUS
<1>18. /\ Good(x) /\ x.kids[p] = d \o <<e>> \o b
       /\ \A q \in Node \ {p} : x.kids[q] = l.kids[q]
       /\ x.data = g.data /\ x.used = g.used
  <2>1. IsPut(l, x, p, d, <<e>>, b)
    BY <1>4, <1>12, <1>15, <1>16, <1>17, Put
  <2> QED
    BY <1>12, <2>1 DEF IsPut, Becomes
<1>19. PICK b1 : b1 = <<e>> \o b /\ Thirds(x, p, a, m, b1)
  <2>1. PICK f \in Seq(Node) : f = <<e>>
    BY <1>16
  <2>2. f \o b \in Seq(Node) /\ d \in Seq(Node)
    BY <1>2, <1>4, <1>15, ConcatProperties
  <2>3. d \o f \o b = d \o (f \o b)
    BY <1>4, <2>2, ConcatAssociative
  <2>4. x.kids[p] = a \o m \o (f \o b)
    BY <1>15, <1>18, <2>1, <2>3
  <2> QED
    BY <1>2, <1>4, <2>1, <2>2, <2>4 DEF Thirds
<1>20. PICK y : y = RemoveNodes(x, m)
  OBVIOUS
<1>21. /\ Good(y) /\ Loose(y, m, e) /\ y.kids[p] = a \o b1
       /\ \A q \in Node \ {p} : y.kids[q] = x.kids[q]
       /\ y.data = g.data /\ y.used = g.used
  <2>1. IsTake(x, y, p, a, m, b1)
    BY <1>18, <1>19, <1>20, Take
  <2>2. Loose(y, m, e)
    BY <1>5, <2>1, LooseIn DEF IsTake
  <2> QED
    BY <1>18, <2>1, <2>2 DEF IsTake, Becomes
<1>22. y.kids[p] = g.kids[p]
  <2>1. PICK f \in Seq(Node) : f = <<e>>
    BY <1>16
  <2>2. a \o f \o b = a \o (f \o b)
    BY <1>4, ConcatAssociative
  <2> QED
    BY <1>3, <1>19, <1>21, <2>1, <2>2 DEF Thirds
<1>23. PICK z : z = Insert(y, Pos(e, Null), m)
  OBVIOUS
<1>24. /\ Good(z) /\ z.kids[e] = m
       /\ \A q \in Node \ {e} : z.kids[q] = y.kids[q]
       /\ z.data = g.data /\ z.used = g.used
  <2>1. IsPutEnd(y, z, e, m)
    BY <1>2, <1>4, <1>21, <1>23, PutEnd
  <2>2. y.kids[e] = <<>>
    BY <1>2, <1>4, <1>12, <1>18, <1>21
  <2>3. <<>> \o m = m
    BY <1>2, ConcatEmptySeq
  <2> QED
    BY <1>21, <2>1, <2>2, <2>3 DEF IsPutEnd, Becomes
<1>25. Unexecute(l, c) = z
  BY <1>1, <1>2, <1>4, <1>17, <1>20, <1>23 DEF Unexecute, Move
<1>26. z = g
  <2>1. z.kids[e] = g.kids[e] /\ z.kids[p] = g.kids[p]
    BY <1>1, <1>4, <1>22, <1>24
  <2>2. ASSUME NEW q \in Node \ {e, p} PROVE z.kids[q] = g.kids[q]
    BY <1>7, <1>9, <1>12, <1>18, <1>21, <1>24
  <2>3. \A q \in Node : z.kids[q] = g.kids[q]
    BY <2>1, <2>2
  <2> QED
    BY <1>24, <2>3, SameGrove DEF Good
<1> QED
  BY <1>12, <1>13, <1>14, <1>25, <1>26 DEF Inverts

LEMMA TagInverts ==
  ASSUME NEW g, Good(g), NoCycles(g), NEW c, c.op = "tag",
         NEW p \in Node, Neighbours(g, p, c.nodes), Blank(g, c.tag)
  PROVE  Inverts(g, c)
<1>1. PICK t, m : t = c.tag /\ m = c.nodes
  OBVIOUS
<1>2. PICK a, b : Thirds(g, p, a, m, b)
  BY <1>1, RowPieces
<1>3. /\ m # <<>> /\ m \in Seq(Node) /\ a \in Seq(Node) /\ b \in Seq(Node)
      /\ p \in g.used \cap ElementNode /\ AfterNode(g, Last(m)) = Before(p, b)
      /\ g.kids[p] = a \o m \o b
  <2>1. m # <<>>
    BY <1>1, RowPieces
  <2>2. p \in g.used \cap ElementNode /\ AfterNode(g, Last(m)) = Before(p, b)
    BY <1>2, <2>1, TakenNodes, AfterRow
  <2> QED
    BY <1>2, <2>1, <2>2 DEF Thirds
<1>4. /\ t \in ElementNode /\ t \in Node /\ t \in g.used /\ g.kids[t] = <<>>
      /\ Nowhere(g, t) /\ t # Document /\ <<t>> \in Seq(Node)
  <2>1. t \in ElementNode /\ Apart(g, t) /\ g.kids[t] = <<>>
    BY <1>1 DEF Blank
  <2>2. t \in Node /\ t \in g.used /\ t # Document /\ Nowhere(g, t)
    BY <2>1, ApartNowhere DEF Good
  <2>3. <<t>> \in Seq(Node)
    BY <2>2
  <2> QED
    BY <2>1, <2>2, <2>3
<1>5. t # p /\ t \notin ToSet(m)
  <2>1. a \o m \o b # <<>>
    <3>1. Len(m) # 0 /\ Len(g.kids[p]) = Len(a) + Len(m) + Len(b)
          /\ Len(a) \in Nat /\ Len(b) \in Nat /\ Len(m) \in Nat
      BY <1>2, <1>3, ThirdsFacts, EmptySeq
    <3> QED
      BY <1>3, <3>1
  <2>2. ToSet(m) \subseteq ToSet(g.kids[p])
    BY <1>2, ThirdsToSet
  <2> QED
    BY <1>3, <1>4, <2>1, <2>2, NowhereNot
<1>6. PICK d : d = a \o m /\ Halves(g, p, d, b)
  BY <1>2, LeftHalf
<1>7. PICK h : h = Insert(g, Before(p, b), <<t>>)
  OBVIOUS
<1>8. /\ Good(h) /\ NoCycles(h) /\ Thirds(h, p, d, <<t>>, b)
      /\ \A q \in Node \ {p} : h.kids[q] = g.kids[q]
      /\ h.data = g.data /\ h.used = g.used /\ h.kids[t] = <<>>
  <2>1. Blank(g, t) /\ t # p /\ p \in g.used \cap ElementNode /\ Halves(g, p, d, b)
    BY <1>1, <1>3, <1>5, <1>6
  <2> QED
    BY <1>7, <2>1, BlankAfter
<1>9. PICK b1 : b1 = <<t>> \o b /\ Thirds(h, p, a, m, b1)
  <2>1. PICK f \in Seq(Node) : f = <<t>>
    BY <1>4
  <2>2. f \o b \in Seq(Node) /\ d \in Seq(Node)
    BY <1>3, <1>6, ConcatProperties
  <2>3. d \o f \o b = d \o (f \o b)
    BY <1>3, <2>2, ConcatAssociative, SMTT(30)
  <2>4. h.kids[p] = a \o m \o (f \o b)
    BY <1>6, <1>8, <2>1, <2>3 DEF Thirds
  <2> QED
    BY <1>3, <2>1, <2>2, <2>4 DEF Thirds
<1>10. PICK k : k = RemoveNodes(h, m)
  OBVIOUS
<1>11. /\ Good(k) /\ Loose(k, m, t) /\ k.kids[p] = a \o b1
       /\ \A q \in Node \ {p} : k.kids[q] = h.kids[q]
       /\ k.data = g.data /\ k.used = g.used
  <2>1. IsTake(h, k, p, a, m, b1)
    BY <1>8, <1>9, <1>10, Take
  <2>2. Loose(k, m, t)
    BY <1>5, <2>1, LooseIn DEF IsTake
  <2> QED
    BY <1>8, <2>1, <2>2 DEF IsTake, Becomes
<1>12. PICK l : l = Insert(k, Pos(t, Null), m)
  OBVIOUS
<1>13. /\ Good(l) /\ l.kids[t] = m
       /\ \A q \in Node \ {t} : l.kids[q] = k.kids[q]
       /\ l.data = g.data /\ l.used = g.used
  <2>1. IsPutEnd(k, l, t, m)
    BY <1>4, <1>11, <1>12, PutEnd
  <2>2. k.kids[t] = <<>>
    BY <1>4, <1>5, <1>8, <1>11
  <2>3. <<>> \o m = m
    BY <1>3, ConcatEmptySeq
  <2> QED
    BY <1>11, <2>1, <2>2, <2>3 DEF IsPutEnd, Becomes
<1>14. NoCycles(l)
  <2>1. PICK all : all = Below(h, ToSet(m))
    OBVIOUS
  <2>2. t \in ToSet(h.kids[p]) /\ ToSet(m) \subseteq ToSet(h.kids[p])
    BY <1>8, <1>9, ThirdsMembers, ThirdsToSet
  <2>3. Grove(h) /\ ToSet(h.kids[p]) \in SUBSET Node /\ ToSet(m) \in SUBSET Node
    BY <1>8, <2>2, ParentIsElement DEF Good
  <2>4. ToSet(m) \subseteq Below(h, ToSet(h.kids[p]))
    BY <2>2, <2>3, BelowFacts
  <2>5. t \notin all /\ Closed(h, all) /\ ToSet(m) \subseteq all
    BY <1>5, <1>8, <2>1, <2>2, <2>3, <2>4, NotBelowSibling, BelowFacts
  <2>6. \A q \in Node \ {t} : ToSet(l.kids[q]) \subseteq ToSet(h.kids[q])
    <3>1. Thirds(h, p, a, m, b1)
      BY <1>9
    <3>2. Halves(k, p, a, b1)
      BY <1>11, <3>1 DEF Halves, Thirds
    <3>3. ToSet(k.kids[p]) \subseteq ToSet(h.kids[p])
      BY <3>1, <3>2, HalvesToSet, ThirdsToSet
    <3> QED
      BY <1>11, <1>13, <3>3
  <2>7. ToSet(l.kids[t]) \subseteq ToSet(h.kids[t]) \cup all
    BY <1>13, <2>5
  <2> QED
    BY <1>4, <1>8, <2>5, <2>6, <2>7, NoNewCycles
<1>15. Execute(g, c) = l
  BY <1>1, <1>3, <1>7, <1>10, <1>12 DEF Execute, Move
\* Undone: the tag is taken, and what is in it is put where the tag was.
<1>16. Thirds(l, p, a, <<t>>, b)
  <2>1. l.kids[p] = a \o b1
    BY <1>3, <1>5, <1>11, <1>13
  <2>2. PICK f \in Seq(Node) : f = <<t>>
    BY <1>4
  <2>3. a \o f \o b = a \o (f \o b)
    BY <1>3, ConcatAssociative, SMTT(30)
  <2> QED
    BY <1>3, <1>9, <2>1, <2>2, <2>3 DEF Thirds
<1>17. AfterNode(l, t) = Before(p, b)
  BY <1>13, <1>16, AfterOne
<1>18. PICK x : x = RemoveNodes(l, <<t>>)
  OBVIOUS
<1>19. /\ Good(x) /\ x.kids[p] = a \o b /\ x.kids[t] = m
       /\ \A q \in Node \ {p} : x.kids[q] = l.kids[q]
       /\ x.data = g.data /\ x.used = g.used
  <2>1. IsTake(l, x, p, a, <<t>>, b)
    BY <1>13, <1>16, <1>18, Take
  <2> QED
    BY <1>4, <1>5, <1>13, <2>1 DEF IsTake, Becomes
<1>20. PICK y : y = RemoveNodes(x, m)
  OBVIOUS
<1>21. /\ Good(y) /\ Loose(y, m, p) /\ y.kids[t] = <<>>
       /\ \A q \in Node \ {t} : y.kids[q] = x.kids[q]
       /\ y.data = g.data /\ y.used = g.used
  <2>1. IsTakeAll(x, y, t)
    BY <1>4, <1>19, <1>20, TakeAll
  <2>2. p \notin ToSet(m)
    <3>1. ToSet(m) \subseteq ToSet(g.kids[p])
      BY <1>2, ThirdsToSet
    <3> QED
      BY <3>1, NotInItself
  <2>3. Loose(y, m, p)
    BY <1>19, <2>1, <2>2, LooseIn DEF IsTakeAll
  <2> QED
    BY <1>19, <2>1, <2>3 DEF IsTakeAll, Becomes
<1>22. Halves(y, p, a, b)
  BY <1>3, <1>5, <1>19, <1>21 DEF Halves
<1>23. PICK z : z = Insert(y, Before(p, b), m)
  OBVIOUS
<1>24. /\ Good(z) /\ z.kids[p] = g.kids[p]
       /\ \A q \in Node \ {p} : z.kids[q] = y.kids[q]
       /\ z.data = g.data /\ z.used = g.used
  <2>1. IsPut(y, z, p, a, m, b)
    BY <1>3, <1>21, <1>22, <1>23, Put
  <2> QED
    BY <1>3, <1>21, <2>1 DEF IsPut, Becomes
<1>25. Unexecute(l, c) = z
  BY <1>1, <1>17, <1>18, <1>20, <1>23 DEF Unexecute
<1>26. z = g
  <2>1. z.kids[t] = g.kids[t]
    BY <1>4, <1>5, <1>21, <1>24
  <2>2. ASSUME NEW q \in Node \ {t, p} PROVE z.kids[q] = g.kids[q]
    BY <1>8, <1>11, <1>13, <1>19, <1>21, <1>24
  <2>3. \A q \in Node : z.kids[q] = g.kids[q]
    BY <1>24, <2>1, <2>2
  <2> QED
    BY <1>24, <2>3, SameGrove DEF Good
<1> QED
  BY <1>13, <1>14, <1>15, <1>25, <1>26 DEF Inverts

-----------------------------------------------------------------------------
\* Every command.

\* The operations of the commands.
Operation ==
  {"insertText", "removeText", "replaceText", "insert", "paste", "take", "join",
   "splitText", "splitElement", "rename", "untag", "tag"}

\* A command that fits the grove it is executed on, and whose preconditions hold there,
\* leaves a grove again, in which no node is at two places, in a text, in itself or
\* below itself; and undoing it brings back the grove that there was.
THEOREM CommandsAreUndone ==
  ASSUME NEW g, Grove(g), Forest(g), NEW c, Fits(g, c), CanExecute(g, c)
  PROVE  /\ Grove(Execute(g, c)) /\ Forest(Execute(g, c))
         /\ Unexecute(Execute(g, c), c) = g
<1>1. Good(g) /\ NoCycles(g)
  BY DEF Good, Forest
<1>2. SUFFICES Inverts(g, c)
  BY DEF Inverts, Good, Forest
<1>3. CASE c.op \in {"insertText", "removeText", "replaceText"}
  <2>1. TextFits(g, c)
    BY <1>3 DEF Fits, TextFits
  <2> QED
    BY <1>1, <2>1, TextInverts
<1>4. CASE c.op \in {"insert", "paste"}
  <2>1. /\ InElement(g, c.pos) /\ c.nodes \in Seq(Node) /\ IsInjective(c.nodes)
        /\ \A i \in DOMAIN c.nodes : Apart(g, c.nodes[i])
        /\ Separate(g, ToSet(c.nodes), c.pos.node)
    BY <1>4 DEF Fits
  <2> QED
    BY <1>1, <1>4, <2>1, InsertInverts
<1>5. CASE c.op = "take"
  <2>1. (\E p \in Node : Neighbours(g, p, c.nodes)) /\ c.pos = AfterNode(g, Last(c.nodes))
    BY <1>5 DEF Fits
  <2> QED
    BY <1>1, <1>5, <2>1, TakeInverts
<1>6. CASE c.op = "join"
  <2>1. /\ Placed(g, c.first) /\ c.second \in Node
        /\ c.at = IF IsText(c.first) THEN TextLength(g, c.first) ELSE Len(g.kids[c.first])
    BY <1>6 DEF Fits
  <2>2. IsText(c.first) = IsText(c.second) /\ NextSibling(g, c.first) = c.second
    BY <1>6 DEF CanExecute
  <2>3. CASE IsText(c.first)
    BY <1>1, <1>6, <2>1, <2>2, <2>3, JoinTextsInverts
  <2>4. CASE ~IsText(c.first)
    BY <1>1, <1>6, <2>1, <2>2, <2>4, JoinElementsInverts
  <2> QED
    BY <2>3, <2>4
<1>7. CASE c.op = "splitText"
  <2>1. /\ IsText(c.pos.node) /\ Placed(g, c.pos.node)
        /\ IsText(c.split) /\ Apart(g, c.split)
        /\ g.data[c.split] =
             SubSeq(g.data[c.pos.node], c.pos.at + 1, TextLength(g, c.pos.node))
    BY <1>7 DEF Fits
  <2>2. c.pos.at \in 1 .. TextLength(g, c.pos.node) - 1
    BY <1>7 DEF CanExecute
  <2> QED
    BY <1>1, <1>7, <2>1, <2>2, SplitTextInverts
<1>8. CASE c.op = "splitElement"
  <2>1. InElement(g, c.pos) /\ Placed(g, c.pos.node) /\ Blank(g, c.split)
    BY <1>8 DEF Fits
  <2> QED
    BY <1>1, <1>8, <2>1, SplitElementInverts
<1>9. CASE c.op = "rename"
  <2>1. c.elem \in ElementNode /\ Placed(g, c.elem) /\ Blank(g, c.newElem)
    BY <1>9 DEF Fits
  <2> QED
    BY <1>1, <1>9, <2>1, RenameInverts
<1>10. CASE c.op = "untag"
  <2>1. /\ c.elem \in ElementNode /\ Placed(g, c.elem)
        /\ c.nodes = g.kids[c.elem] /\ c.pos = AfterNode(g, c.elem)
    BY <1>10 DEF Fits
  <2> QED
    BY <1>1, <1>10, <2>1, UntagInverts
<1>11. CASE c.op = "tag"
  <2>1. (\E p \in Node : Neighbours(g, p, c.nodes)) /\ Blank(g, c.tag)
    BY <1>11 DEF Fits
  <2> QED
    BY <1>1, <1>11, <2>1, TagInverts
<1>12. c.op \in Operation
  BY DEF Fits, Operation
<1> QED
  BY <1>3, <1>4, <1>5, <1>6, <1>7, <1>8, <1>9, <1>10, <1>11, <1>12 DEF Operation

-----------------------------------------------------------------------------
\* What the editor makes fits the grove it is made for.

LEMMA NewNodeFacts ==
  ASSUME NEW n \in NewNodes
  PROVE  n \in Node /\ n \in Outside(grove) /\ Apart(grove, n)
BY DEF NewNodes, Outside

LEMMA OutsideApart ==
  ASSUME NEW p, p \in InDocument(grove), NEW ns, ns \subseteq Outside(grove)
  PROVE  Separate(grove, ns, p)
<1>1. Outside(grove) \in SUBSET (Node \ {p}) /\ Closed(grove, Outside(grove))
  BY DEF Outside, Closed
<1>2. ns \cup Outside(grove) = Outside(grove) /\ p \notin ns
  BY <1>1
<1> QED
  BY <1>1, <1>2 DEF Separate

LEMMA PlaceFacts ==
  ASSUME NEW p \in Places
  PROVE  /\ InElement(grove, p) /\ p.node \in InDocument(grove)
         /\ p.node \in Elements
<1>1. PICK n \in Elements : p \in {Pos(n, m) : m \in ToSet(grove.kids[n]) \cup {Null}}
  BY DEF Places, Positions, Elements
<1>2. p.node = n
  BY <1>1 DEF Pos
<1> QED
  BY <1>2 DEF Places, Elements

LEMMA ElementFacts ==
  ASSUME NEW n \in Elements
  PROVE  n \in ElementNode /\ n \in Node /\ Placed(grove, n)
BY DEF Elements, Placed, Node, IsText

LEMMA TextsFit ==
  ASSUME Grove(grove), NEW t \in Texts, NEW i \in 0 .. TextLength(grove, t),
         NEW n \in 0 .. TextLength(grove, t) - i, NEW op \in {"insertText", "removeText", "replaceText"},
         NEW new \in Seq(Name \cup Char)
  PROVE  Fits(grove, ChangeText(op, Pos(t, i), SubSeq(grove.data[t], i + 1, i + n), new))
<1>1. IsText(t)
  BY DEF Texts
<1> QED
  BY <1>1 DEF Fits, ChangeText, Pos

LEMMA NewCharFacts == \A ch \in NewChar : <<ch>> \in Seq(Name \cup Char)
BY NewCharAssumption

LEMMA InsertTextFits ==
  ASSUME Grove(grove), InsertText
  PROVE  \E c : Fits(grove, c) /\ ExecuteAndAdd(c)
<1>1. PICK t \in Texts : \E i \in 0 .. TextLength(grove, t), ch \in NewChar :
        ExecuteAndAdd(ChangeText("insertText", Pos(t, i), <<>>, <<ch>>))
  BY DEF InsertText
<1>2. PICK i \in 0 .. TextLength(grove, t), ch \in NewChar :
        ExecuteAndAdd(ChangeText("insertText", Pos(t, i), <<>>, <<ch>>))
  BY <1>1
<1>3. t \in Node
  BY DEF Texts, Placed
<1>4. grove.data[t] \in Seq(Name \cup Char)
  BY <1>3 DEF Grove
<1>5. TextLength(grove, t) \in Nat /\ SubSeq(grove.data[t], i + 1, i + 0) = <<>>
  BY <1>4, LenProperties DEF TextLength
<1>6. 0 \in 0 .. TextLength(grove, t) - i
  BY <1>5
<1>7. Fits(grove, ChangeText("insertText", Pos(t, i), SubSeq(grove.data[t], i + 1, i + 0), <<ch>>))
  BY <1>6, TextsFit, NewCharFacts
<1> QED
  BY <1>2, <1>5, <1>7

LEMMA RemoveTextFits ==
  ASSUME Grove(grove), RemoveText
  PROVE  \E c : Fits(grove, c) /\ ExecuteAndAdd(c)
<1>1. PICK t \in Texts : \E i \in 0 .. TextLength(grove, t) : \E n \in 0 .. TextLength(grove, t) - i :
        ExecuteAndAdd(ChangeText("removeText", Pos(t, i), SubSeq(grove.data[t], i + 1, i + n), <<>>))
  BY DEF RemoveText
<1>2. PICK i \in 0 .. TextLength(grove, t) : \E n \in 0 .. TextLength(grove, t) - i :
        ExecuteAndAdd(ChangeText("removeText", Pos(t, i), SubSeq(grove.data[t], i + 1, i + n), <<>>))
  BY <1>1
<1>3. PICK n \in 0 .. TextLength(grove, t) - i :
        ExecuteAndAdd(ChangeText("removeText", Pos(t, i), SubSeq(grove.data[t], i + 1, i + n), <<>>))
  BY <1>2
<1>4. Fits(grove, ChangeText("removeText", Pos(t, i), SubSeq(grove.data[t], i + 1, i + n), <<>>))
  <2>1. <<>> \in Seq(Name \cup Char)
    BY EmptySeq
  <2> QED
    BY <2>1, TextsFit
<1> QED
  BY <1>3, <1>4

LEMMA ReplaceTextFits ==
  ASSUME Grove(grove), ReplaceText
  PROVE  \E c : Fits(grove, c) /\ ExecuteAndAdd(c)
<1>1. PICK t \in Texts : \E i \in 0 .. TextLength(grove, t) : \E n \in 1 .. TextLength(grove, t) - i :
        \E ch \in NewChar :
          ExecuteAndAdd(ChangeText("replaceText", Pos(t, i), SubSeq(grove.data[t], i + 1, i + n), <<ch>>))
  BY DEF ReplaceText
<1>2. PICK i \in 0 .. TextLength(grove, t) : \E n \in 1 .. TextLength(grove, t) - i :
        \E ch \in NewChar :
          ExecuteAndAdd(ChangeText("replaceText", Pos(t, i), SubSeq(grove.data[t], i + 1, i + n), <<ch>>))
  BY <1>1
<1>3. PICK n \in 1 .. TextLength(grove, t) - i, ch \in NewChar :
        ExecuteAndAdd(ChangeText("replaceText", Pos(t, i), SubSeq(grove.data[t], i + 1, i + n), <<ch>>))
  BY <1>2
<1>4. n \in 0 .. TextLength(grove, t) - i
  OBVIOUS
<1>5. Fits(grove, ChangeText("replaceText", Pos(t, i), SubSeq(grove.data[t], i + 1, i + n), <<ch>>))
  BY <1>4, TextsFit, NewCharFacts
<1> QED
  BY <1>3, <1>5

LEMMA InsertsFit ==
  ASSUME NEW p \in Places, NEW ns \in Seq(Node), IsInjective(ns),
         \A i \in DOMAIN ns : ns[i] \in NewNodes, NEW op \in {"insert", "paste"}
  PROVE  Fits(grove, InsertNodes(op, p, ns))
<1>1. ToSet(ns) \subseteq Outside(grove) /\ \A i \in DOMAIN ns : Apart(grove, ns[i])
  BY NewNodeFacts DEF ToSet
<1>2. InElement(grove, p) /\ Separate(grove, ToSet(ns), p.node)
  BY <1>1, PlaceFacts, OutsideApart
<1>3. PICK c : c = InsertNodes(op, p, ns)
  OBVIOUS
<1>4. c.op = op /\ c.pos = p /\ c.nodes = ns
  BY <1>3 DEF InsertNodes
<1>5. Fits(grove, c)
  BY <1>1, <1>2, <1>4 DEF Fits
<1> QED
  BY <1>3, <1>5

LEMMA InsertNodeFits ==
  ASSUME InsertNode
  PROVE  \E c : Fits(grove, c) /\ ExecuteAndAdd(c)
<1>1. PICK n \in NewTexts \cup NewElements, p \in Places :
        ExecuteAndAdd(InsertNodes("insert", p, <<n>>))
  BY DEF InsertNode
<1>2. n \in NewNodes /\ n \in Node
  BY NewNodeFacts DEF NewTexts, NewElements
<1>3. PICK ns : ns = <<n>>
  OBVIOUS
<1>4. ns \in Seq(Node) /\ IsInjective(ns) /\ \A i \in DOMAIN ns : ns[i] \in NewNodes
  BY <1>2, <1>3 DEF IsInjective
<1>5. Fits(grove, InsertNodes("insert", p, ns))
  BY <1>4, InsertsFit
<1> QED
  BY <1>1, <1>3, <1>5

LEMMA PasteFragmentFits ==
  ASSUME PasteFragment
  PROVE  \E c : Fits(grove, c) /\ ExecuteAndAdd(c)
<1>1. PICK n \in NewNodes \ (NewTexts \cup NewElements), t \in NewTexts, p \in Places :
        ExecuteAndAdd(InsertNodes("paste", p, <<n, t>>))
  BY DEF PasteFragment
<1>2. n \in NewNodes /\ t \in NewNodes /\ n # t /\ n \in Node /\ t \in Node
  BY NewNodeFacts DEF NewTexts
<1>3. PICK ns : ns = <<n, t>>
  OBVIOUS
<1>4. ns \in Seq(Node) /\ IsInjective(ns) /\ \A i \in DOMAIN ns : ns[i] \in NewNodes
  BY <1>2, <1>3 DEF IsInjective
<1>5. Fits(grove, InsertNodes("paste", p, ns))
  BY <1>4, InsertsFit
<1> QED
  BY <1>1, <1>3, <1>5

LEMMA RowFacts ==
  ASSUME Grove(grove), NEW p \in Node, NEW i \in DOMAIN grove.kids[p],
         NEW j \in i .. Len(grove.kids[p])
  PROVE  /\ j \in DOMAIN grove.kids[p]
         /\ Last(SubSeq(grove.kids[p], i, j)) = grove.kids[p][j]
         /\ Neighbours(grove, p, SubSeq(grove.kids[p], i, j))
<1>1. grove.kids[p] \in Seq(Node)
  BY DEF Grove
<1>2. i \in 1 .. Len(grove.kids[p]) /\ j \in DOMAIN grove.kids[p]
  BY <1>1
<1>3. Last(SubSeq(grove.kids[p], i, j)) = grove.kids[p][j]
  <2>1. PICK s \in Seq(Node) : s = grove.kids[p]
    BY <1>1
  <2>2. i \in 1 .. Len(s) /\ j \in i .. Len(s)
    BY <1>2, <2>1
  <2>3. /\ SubSeq(s, i, j) \in Seq(Node) /\ Len(SubSeq(s, i, j)) = j - i + 1
        /\ SubSeq(s, i, j)[j - i + 1] = s[j]
    BY <2>2, SubSeqProperties
  <2> QED
    BY <2>1, <2>3 DEF Last
<1> QED
  BY <1>2, <1>3 DEF Neighbours

LEMMA RemoveGroupFits ==
  ASSUME Grove(grove), OnePlace(grove), RemoveGroup
  PROVE  \E c : Fits(grove, c) /\ ExecuteAndAdd(c)
<1>1. PICK p \in Elements : \E i \in DOMAIN grove.kids[p] : \E j \in i .. Len(grove.kids[p]) :
        ExecuteAndAdd(TakeNodes(grove, grove.kids[p][i], grove.kids[p][j]))
  BY DEF RemoveGroup
<1>2. PICK i \in DOMAIN grove.kids[p] : \E j \in i .. Len(grove.kids[p]) :
        ExecuteAndAdd(TakeNodes(grove, grove.kids[p][i], grove.kids[p][j]))
  BY <1>1
<1>3. PICK j \in i .. Len(grove.kids[p]) :
        ExecuteAndAdd(TakeNodes(grove, grove.kids[p][i], grove.kids[p][j]))
  BY <1>2
<1>4. p \in Node
  BY ElementFacts
<1>5. /\ j \in DOMAIN grove.kids[p]
      /\ Last(SubSeq(grove.kids[p], i, j)) = grove.kids[p][j]
      /\ Neighbours(grove, p, SubSeq(grove.kids[p], i, j))
  BY <1>4, RowFacts
<1>6. SiblingRange(grove, grove.kids[p][i], grove.kids[p][j]) = SubSeq(grove.kids[p], i, j)
  <2>1. /\ Parent(grove, grove.kids[p][i]) = p
        /\ Index(grove, grove.kids[p][i]) = i /\ Index(grove, grove.kids[p][j]) = j
    BY <1>4, <1>5, ParentOf, IndexOf
  <2> QED
    BY <2>1 DEF SiblingRange, Siblings
<1>7. PICK c : c = TakeNodes(grove, grove.kids[p][i], grove.kids[p][j])
  OBVIOUS
<1>8. /\ c.op = "take" /\ c.nodes = SubSeq(grove.kids[p], i, j)
      /\ c.pos = AfterNode(grove, grove.kids[p][j])
  BY <1>6, <1>7 DEF TakeNodes
<1>9. (\E q \in Node : Neighbours(grove, q, c.nodes)) /\ c.pos = AfterNode(grove, Last(c.nodes))
  BY <1>4, <1>5, <1>8
<1>10. Fits(grove, c)
  BY <1>8, <1>9 DEF Fits
<1> QED
  BY <1>3, <1>7, <1>10

LEMMA JoinNodesFits ==
  ASSUME JoinNodes
  PROVE  \E c : Fits(grove, c) /\ ExecuteAndAdd(c)
<1>1. PICK n \in Texts \cup Inner, m \in Texts \cup Inner : ExecuteAndAdd(Join(grove, n, m, FALSE))
  BY DEF JoinNodes
<1>2. Placed(grove, n) /\ m \in Node
  BY DEF Texts, Inner, Elements, Placed
<1>3. PICK c : c = Join(grove, n, m, FALSE)
  OBVIOUS
<1>4. /\ c.op = "join" /\ c.first = n /\ c.second = m
      /\ c.at = IF IsText(n) THEN TextLength(grove, n) ELSE Len(grove.kids[n])
  BY <1>3 DEF Join
<1>5. Fits(grove, c)
  BY <1>2, <1>4 DEF Fits
<1> QED
  BY <1>1, <1>3, <1>5

LEMMA SplitTextFits ==
  ASSUME Grove(grove), SplitText
  PROVE  \E c : Fits(grove, c) /\ ExecuteAndAdd(c)
<1>1. PICK new \in NewTexts, t \in Texts : \E i \in 0 .. TextLength(grove, t) :
        /\ grove.data[new] = SubSeq(grove.data[t], i + 1, TextLength(grove, t))
        /\ ExecuteAndAdd(SplitNode("splitText", Pos(t, i), new))
  BY DEF SplitText
<1>2. PICK i \in 0 .. TextLength(grove, t) :
        /\ grove.data[new] = SubSeq(grove.data[t], i + 1, TextLength(grove, t))
        /\ ExecuteAndAdd(SplitNode("splitText", Pos(t, i), new))
  BY <1>1
<1>3. IsText(t) /\ Placed(grove, t) /\ IsText(new) /\ Apart(grove, new) /\ i \in Nat
  BY NewNodeFacts DEF Texts, NewTexts
<1>4. PICK c : c = SplitNode("splitText", Pos(t, i), new)
  OBVIOUS
<1>5. c.op = "splitText" /\ c.pos.node = t /\ c.pos.at = i /\ c.split = new
  BY <1>4 DEF SplitNode, Pos
<1>6. Fits(grove, c)
  BY <1>2, <1>3, <1>5 DEF Fits
<1> QED
  BY <1>2, <1>4, <1>6

LEMMA SplitElementFits ==
  ASSUME SplitElement
  PROVE  \E c : Fits(grove, c) /\ ExecuteAndAdd(c)
<1>1. PICK new \in NewElements, p \in Places : ExecuteAndAdd(SplitNode("splitElement", p, new))
  BY DEF SplitElement
<1>2. InElement(grove, p) /\ Placed(grove, p.node) /\ Blank(grove, new)
  BY PlaceFacts, ElementFacts DEF NewElements
<1>3. PICK c : c = SplitNode("splitElement", p, new)
  OBVIOUS
<1>4. c.op = "splitElement" /\ c.pos = p /\ c.split = new
  BY <1>3 DEF SplitNode
<1>5. Fits(grove, c)
  BY <1>2, <1>4 DEF Fits
<1> QED
  BY <1>1, <1>3, <1>5

LEMMA RenameFits ==
  ASSUME Rename
  PROVE  \E c : Fits(grove, c) /\ ExecuteAndAdd(c)
<1>1. PICK new \in NewElements, elem \in Elements :
        ExecuteAndAdd(RenameElement(Pos(elem, Null), elem, new))
  BY DEF Rename
<1>2. elem \in ElementNode /\ Placed(grove, elem) /\ Blank(grove, new)
  BY ElementFacts DEF NewElements
<1>3. PICK c : c = RenameElement(Pos(elem, Null), elem, new)
  OBVIOUS
<1>4. c.op = "rename" /\ c.elem = elem /\ c.newElem = new
  BY <1>3 DEF RenameElement
<1>5. Fits(grove, c)
  BY <1>2, <1>4 DEF Fits
<1> QED
  BY <1>1, <1>3, <1>5

LEMMA UntagElementFits ==
  ASSUME UntagElement
  PROVE  \E c : Fits(grove, c) /\ ExecuteAndAdd(c)
<1>1. PICK elem \in Inner : ExecuteAndAdd(Untag(grove, Pos(elem, Null), elem))
  BY DEF UntagElement
<1>2. elem \in ElementNode /\ Placed(grove, elem)
  BY ElementFacts DEF Inner
<1>3. PICK c : c = Untag(grove, Pos(elem, Null), elem)
  OBVIOUS
<1>4. /\ c.op = "untag" /\ c.elem = elem /\ c.nodes = grove.kids[elem]
      /\ c.pos = AfterNode(grove, elem)
  BY <1>3 DEF Untag
<1>5. Fits(grove, c)
  BY <1>2, <1>4 DEF Fits
<1> QED
  BY <1>1, <1>3, <1>5

LEMMA TagNodesFits ==
  ASSUME Grove(grove), TagNodes
  PROVE  \E c : Fits(grove, c) /\ ExecuteAndAdd(c)
<1>1. PICK tag \in NewElements, p \in Elements :
        \E i \in DOMAIN grove.kids[p] : \E j \in i .. Len(grove.kids[p]) :
          ExecuteAndAdd(ConvertToTag(Pos(p, grove.kids[p][i]), SubSeq(grove.kids[p], i, j), tag))
  BY DEF TagNodes
<1>2. PICK i \in DOMAIN grove.kids[p] : \E j \in i .. Len(grove.kids[p]) :
        ExecuteAndAdd(ConvertToTag(Pos(p, grove.kids[p][i]), SubSeq(grove.kids[p], i, j), tag))
  BY <1>1
<1>3. PICK j \in i .. Len(grove.kids[p]) :
        ExecuteAndAdd(ConvertToTag(Pos(p, grove.kids[p][i]), SubSeq(grove.kids[p], i, j), tag))
  BY <1>2
<1>4. p \in Node /\ Blank(grove, tag)
  BY ElementFacts DEF NewElements
<1>5. Neighbours(grove, p, SubSeq(grove.kids[p], i, j))
  BY <1>4, RowFacts
<1>6. PICK c : c = ConvertToTag(Pos(p, grove.kids[p][i]), SubSeq(grove.kids[p], i, j), tag)
  OBVIOUS
<1>7. c.op = "tag" /\ c.nodes = SubSeq(grove.kids[p], i, j) /\ c.tag = tag
  BY <1>6 DEF ConvertToTag
<1>8. (\E q \in Node : Neighbours(grove, q, c.nodes)) /\ Blank(grove, c.tag)
  BY <1>4, <1>5, <1>7
<1>9. Fits(grove, c)
  BY <1>7, <1>8 DEF Fits
<1> QED
  BY <1>3, <1>6, <1>9

\* Whichever part the editor adds, it fits the grove.
LEMMA BuildFits ==
  ASSUME Grove(grove), Forest(grove), Build
  PROVE  \E c : Fits(grove, c) /\ ExecuteAndAdd(c)
BY InsertTextFits, RemoveTextFits, ReplaceTextFits, InsertNodeFits, PasteFragmentFits,
   RemoveGroupFits, JoinNodesFits, SplitTextFits, SplitElementFits, RenameFits,
   UntagElementFits, TagNodesFits DEF Build, Forest

-----------------------------------------------------------------------------
\* The inductive invariant.

\* A sequence, whatever is in it.
IsSequence(s) == s \in Seq(ToSet(s))

\* The groves of a command are those that its parts, executed one after the other, have
\* left; each part fits the grove before it, and can be executed there.
Chain(command) ==
  /\ IsSequence(command.parts) /\ IsSequence(command.groves)
  /\ Len(command.groves) = Len(command.parts) + 1
  /\ \A i \in 1 .. Len(command.groves) : Grove(command.groves[i]) /\ Forest(command.groves[i])
  /\ \A i \in 1 .. Len(command.parts) :
       /\ Fits(command.groves[i], command.parts[i])
       /\ CanExecute(command.groves[i], command.parts[i])
       /\ command.groves[i + 1] = Execute(command.groves[i], command.parts[i])

\* Each command of the history begins with the grove that the one before it has left.
HistoryInv ==
  /\ Grove(opened) /\ Forest(opened)
  /\ IsSequence(hist)
  /\ done \in 0 .. Len(hist)
  /\ \A k \in 1 .. Len(hist) : Chain(hist[k]) /\ hist[k].groves[1] = GroveAfter(k - 1)

\* The command that is worked on, of which the first at parts are executed.
CurrentInv ==
  /\ Chain(cur)
  /\ at \in 0 .. Len(cur.parts)
  /\ grove = cur.groves[at + 1]

WorkInv ==
  \/ state = "idle" /\ cur = NoCommand /\ at = 0 /\ grove = GroveAfter(done)
  \/ /\ state = "build" /\ CurrentInv
     /\ at = Len(cur.parts) /\ cur.groves[1] = GroveAfter(done)
  \/ state = "give up" /\ CurrentInv /\ cur.groves[1] = GroveAfter(done)
  \/ state = "undo" /\ CurrentInv /\ done > 0 /\ cur = hist[done]
  \/ state = "redo" /\ CurrentInv /\ done < Len(hist) /\ cur = hist[done + 1]

IInv == HistoryInv /\ WorkInv

-----------------------------------------------------------------------------
\* Sequences and chains.

LEMMA FunctionSeq ==
  ASSUME NEW S, NEW n \in Nat, NEW s \in [1 .. n -> S]
  PROVE  s \in Seq(S)
OBVIOUS

LEMMA AppendSequence ==
  ASSUME NEW s, IsSequence(s), NEW e
  PROVE  /\ IsSequence(Append(s, e)) /\ Len(Append(s, e)) = Len(s) + 1 /\ Len(s) \in Nat
         /\ \A i \in 1 .. Len(s) : Append(s, e)[i] = s[i]
         /\ Append(s, e)[Len(s) + 1] = e
<1> DEFINE S == ToSet(s) \cup {e}
           r == Append(s, e)
<1>1. s \in Seq(S) /\ e \in S
  BY DEF IsSequence
<1> HIDE DEF S
<1>2. r \in Seq(S) /\ Len(r) = Len(s) + 1 /\ Len(s) \in Nat
      /\ (\A i \in 1 .. Len(s) : r[i] = s[i]) /\ r[Len(s) + 1] = e
  BY <1>1, AppendProperties, LenProperties
<1>3. r \in Seq(ToSet(r))
  BY <1>2, LenProperties DEF ToSet
<1> QED
  BY <1>2, <1>3 DEF IsSequence

LEMMA PrefixSequence ==
  ASSUME NEW s, IsSequence(s), NEW n \in 0 .. Len(s)
  PROVE  /\ IsSequence(SubSeq(s, 1, n)) /\ Len(SubSeq(s, 1, n)) = n /\ Len(s) \in Nat
         /\ \A i \in 1 .. n : SubSeq(s, 1, n)[i] = s[i]
<1> DEFINE r == SubSeq(s, 1, n)
<1>1. PICK S : S = ToSet(s) /\ s \in Seq(S)
  BY DEF IsSequence
<1>2. Len(s) \in Nat /\ n \in Nat
  BY <1>1, LenProperties
<1>3. r \in Seq(S) /\ Len(r) = n /\ \A i \in 1 .. n : r[i] = s[i]
  BY <1>1, <1>2
<1>4. r \in Seq(ToSet(r))
  <2>1. r \in [1 .. n -> ToSet(r)]
    BY <1>2, <1>3, LenProperties DEF ToSet
  <2> QED
    BY <1>2, <2>1, FunctionSeq
<1> QED
  BY <1>2, <1>3, <1>4 DEF IsSequence

LEMMA EmptySequence == IsSequence(<<>>) /\ Len(<<>>) = 0
BY EmptySeq DEF IsSequence

LEMMA OneSequence == \A e : IsSequence(<<e>>) /\ Len(<<e>>) = 1 /\ <<e>>[1] = e
<1> TAKE e
<1>1. IsSequence(Append(<<>>, e)) /\ Len(Append(<<>>, e)) = Len(<<>>) + 1
      /\ Append(<<>>, e)[Len(<<>>) + 1] = e
  BY EmptySequence, AppendSequence
<1>2. Append(<<>>, e) = <<e>>
  OBVIOUS
<1> QED
  BY <1>1, <1>2, EmptySequence

LEMMA ChainLengths ==
  ASSUME NEW command, Chain(command)
  PROVE  /\ Len(command.parts) \in Nat /\ Len(command.groves) = Len(command.parts) + 1
         /\ Last(command.groves) = command.groves[Len(command.parts) + 1]
<1>1. Len(command.parts) \in Nat
  BY LenProperties DEF Chain, IsSequence
<1> QED
  BY <1>1 DEF Chain, Last

LEMMA ChainOfNone ==
  ASSUME NEW g, Grove(g), Forest(g)
  PROVE  /\ Chain(Command(<<>>, <<g>>)) /\ Command(<<>>, <<g>>).groves[1] = g
         /\ Len(Command(<<>>, <<g>>).parts) = 0
<1>1. PICK command : command = Command(<<>>, <<g>>)
  OBVIOUS
<1>2. PICK groves : groves = <<g>>
  OBVIOUS
<1>3. command.parts = <<>> /\ command.groves = groves
  BY <1>1, <1>2 DEF Command
<1>4. IsSequence(groves) /\ Len(groves) = 1 /\ groves[1] = g
  BY <1>2, OneSequence
<1>5. Chain(command)
  BY <1>3, <1>4, EmptySequence DEF Chain
<1> QED
  BY <1>1, <1>3, <1>4, <1>5, EmptySequence

LEMMA ChainMore ==
  ASSUME NEW command, Chain(command), NEW g, g = command.groves[Len(command.parts) + 1],
         NEW c, Fits(g, c), CanExecute(g, c),
         NEW more, more = Command(Append(command.parts, c), Append(command.groves, Execute(g, c)))
  PROVE  /\ Chain(more) /\ Len(more.parts) = Len(command.parts) + 1
         /\ more.groves[1] = command.groves[1]
         /\ more.groves[Len(more.parts) + 1] = Execute(g, c)
<1>1. PICK n : n = Len(command.parts)
  OBVIOUS
<1>2. n \in Nat /\ Len(command.groves) = n + 1
  BY <1>1, ChainLengths
<1>3. PICK parts, groves : parts = Append(command.parts, c)
                           /\ groves = Append(command.groves, Execute(g, c))
  OBVIOUS
<1>4. more.parts = parts /\ more.groves = groves
  BY <1>3 DEF Command
<1>5. /\ IsSequence(parts) /\ Len(parts) = n + 1
      /\ \A i \in 1 .. n : parts[i] = command.parts[i]
      /\ parts[n + 1] = c
  BY <1>1, <1>3, AppendSequence DEF Chain
<1>6. /\ IsSequence(groves) /\ Len(groves) = n + 2
      /\ \A i \in 1 .. n + 1 : groves[i] = command.groves[i]
      /\ groves[n + 2] = Execute(g, c)
  <2>1. IsSequence(command.groves)
    BY DEF Chain
  <2>2. /\ IsSequence(groves) /\ Len(groves) = Len(command.groves) + 1
        /\ \A i \in 1 .. Len(command.groves) : groves[i] = command.groves[i]
        /\ groves[Len(command.groves) + 1] = Execute(g, c)
    BY <1>3, <2>1, AppendSequence
  <2> QED
    BY <1>2, <2>2
<1>7. Grove(g) /\ Forest(g)
  BY <1>1, <1>2 DEF Chain
<1>8. Grove(Execute(g, c)) /\ Forest(Execute(g, c))
  BY <1>7, CommandsAreUndone
<1>9. \A i \in 1 .. n + 2 : Grove(groves[i]) /\ Forest(groves[i])
  <2> TAKE i \in 1 .. n + 2
  <2>1. CASE i = n + 2
    BY <1>6, <1>8, <2>1
  <2>2. CASE i \in 1 .. n + 1
    BY <1>2, <1>6, <2>2 DEF Chain
  <2> QED
    BY <1>2, <2>1, <2>2
<1>10. \A i \in 1 .. n + 1 : /\ Fits(groves[i], parts[i]) /\ CanExecute(groves[i], parts[i])
                             /\ groves[i + 1] = Execute(groves[i], parts[i])
  <2> TAKE i \in 1 .. n + 1
  <2>1. CASE i = n + 1
    <3>1. groves[i] = g /\ parts[i] = c /\ groves[i + 1] = Execute(g, c)
      BY <1>1, <1>2, <1>5, <1>6, <2>1
    <3> QED
      BY <3>1
  <2>2. CASE i \in 1 .. n
    <3>1. groves[i] = command.groves[i] /\ groves[i + 1] = command.groves[i + 1]
          /\ parts[i] = command.parts[i]
      BY <1>2, <1>5, <1>6, <2>2, SMTT(30)
    <3> QED
      BY <1>1, <2>2, <3>1 DEF Chain
  <2> QED
    BY <1>2, <2>1, <2>2
<1>11. Chain(more)
  BY <1>2, <1>4, <1>5, <1>6, <1>9, <1>10 DEF Chain
<1> QED
  BY <1>1, <1>2, <1>4, <1>5, <1>6, <1>11

\* The part before the grove i + 1 leads to it, and back.
LEMMA ChainSteps ==
  ASSUME NEW command, Chain(command), NEW i \in 1 .. Len(command.parts)
  PROVE  /\ CanExecute(command.groves[i], command.parts[i])
         /\ Execute(command.groves[i], command.parts[i]) = command.groves[i + 1]
         /\ Unexecute(command.groves[i + 1], command.parts[i]) = command.groves[i]
<1>1. /\ Fits(command.groves[i], command.parts[i])
      /\ CanExecute(command.groves[i], command.parts[i])
      /\ command.groves[i + 1] = Execute(command.groves[i], command.parts[i])
  BY DEF Chain
<1>2. Grove(command.groves[i]) /\ Forest(command.groves[i])
  BY ChainLengths DEF Chain
<1> QED
  BY <1>1, <1>2, CommandsAreUndone

-----------------------------------------------------------------------------
\* The invariant holds at first, and every step keeps it.

LEMMA InitInv == Init => IInv
<1> SUFFICES ASSUME Init PROVE IInv
  OBVIOUS
<1>1. Grove(opened) /\ Forest(opened) /\ grove = opened
  BY DocumentsAssumption DEF Init
<1>2. IsSequence(hist) /\ Len(hist) = 0 /\ done = 0
  BY EmptySequence DEF Init
<1>3. HistoryInv
  BY <1>1, <1>2 DEF HistoryInv
<1>4. WorkInv
  BY <1>1, <1>2 DEF Init, WorkInv, GroveAfter
<1> QED
  BY <1>3, <1>4 DEF IInv

\* The grove after any of the commands is one in which a node is in one place at most.
LEMMA GrovesAfter ==
  ASSUME HistoryInv, NEW i \in 0 .. Len(hist)
  PROVE  Grove(GroveAfter(i)) /\ Forest(GroveAfter(i))
<1>1. CASE i = 0
  BY <1>1 DEF HistoryInv, GroveAfter
<1>2. CASE i # 0
  <2>1. i \in 1 .. Len(hist)
    BY <1>2
  <2>2. Chain(hist[i])
    BY <2>1 DEF HistoryInv
  <2>3. PICK command : command = hist[i]
    OBVIOUS
  <2>4. GroveAfter(i) = command.groves[Len(command.parts) + 1]
    BY <1>2, <2>2, <2>3, ChainLengths DEF GroveAfter
  <2>5. Len(command.parts) + 1 \in 1 .. Len(command.groves)
    BY <2>2, <2>3, ChainLengths
  <2> QED
    BY <2>2, <2>3, <2>4, <2>5 DEF Chain
<1> QED
  BY <1>1, <1>2

LEMMA GroveInv ==
  ASSUME IInv
  PROVE  Grove(grove) /\ Forest(grove)
<1>1. CASE state = "idle"
  <2>1. grove = GroveAfter(done) /\ done \in 0 .. Len(hist)
    BY <1>1 DEF IInv, HistoryInv, WorkInv
  <2> QED
    BY <2>1, GrovesAfter DEF IInv
<1>2. CASE CurrentInv
  <2>1. at + 1 \in 1 .. Len(cur.groves)
    BY <1>2, ChainLengths DEF CurrentInv
  <2> QED
    BY <1>2, <2>1 DEF CurrentInv, Chain
<1> QED
  BY <1>1, <1>2 DEF IInv, WorkInv

\* As long as the history and what was opened stay, so does what its commands have left.
LEMMA SameHistory ==
  ASSUME HistoryInv, UNCHANGED <<opened, hist>>, done' \in 0 .. Len(hist)
  PROVE  HistoryInv' /\ \A i : GroveAfter(i)' = GroveAfter(i)
<1>1. \A i : GroveAfter(i)' = GroveAfter(i)
  BY DEF GroveAfter
<1> QED
  BY <1>1 DEF HistoryInv

LEMMA BeginBuildInv ==
  ASSUME IInv, BeginBuild
  PROVE  IInv'
<1>1. /\ state = "idle" /\ cur' = Command(<<>>, <<grove>>) /\ at' = 0 /\ state' = "build"
      /\ UNCHANGED <<grove, opened, hist, done>>
  BY DEF BeginBuild, BeginWork
<1>2. /\ Chain(cur') /\ cur'.groves[1] = grove /\ Len(cur'.parts) = 0
  BY <1>1, GroveInv, ChainOfNone
<1>3. HistoryInv' /\ \A i : GroveAfter(i)' = GroveAfter(i)
  BY <1>1, SameHistory DEF IInv, HistoryInv
<1>4. grove = GroveAfter(done)
  BY <1>1 DEF IInv, WorkInv
<1>5. CurrentInv'
  BY <1>1, <1>2 DEF CurrentInv
<1> QED
  BY <1>1, <1>2, <1>3, <1>4, <1>5 DEF IInv, WorkInv

LEMMA BuildInv ==
  ASSUME IInv, Build
  PROVE  IInv'
<1>1. PICK c : Fits(grove, c) /\ ExecuteAndAdd(c)
  BY GroveInv, BuildFits
<1>2. /\ state = "build" /\ Chain(cur) /\ grove = cur.groves[Len(cur.parts) + 1]
      /\ at = Len(cur.parts) /\ cur.groves[1] = GroveAfter(done)
  BY DEF Build, IInv, WorkInv, CurrentInv
<1>3. UNCHANGED <<opened, hist, done>>
  BY <1>1 DEF ExecuteAndAdd
<1>4. HistoryInv' /\ GroveAfter(done)' = GroveAfter(done)
  BY <1>3, SameHistory DEF IInv, HistoryInv
<1>5. CASE CanExecute(grove, c)
  <2>1. /\ grove' = Execute(grove, c) /\ at' = at + 1 /\ state' = state
        /\ cur' = Command(Append(cur.parts, c), Append(cur.groves, Execute(grove, c)))
    BY <1>1, <1>5 DEF ExecuteAndAdd
  <2>2. /\ Chain(cur') /\ Len(cur'.parts) = Len(cur.parts) + 1
        /\ cur'.groves[1] = cur.groves[1]
        /\ cur'.groves[Len(cur'.parts) + 1] = Execute(grove, c)
    <3>1. PICK g, command, more : g = grove /\ command = cur /\ more = cur'
      OBVIOUS
    <3>2. Chain(command) /\ g = command.groves[Len(command.parts) + 1]
      BY <1>2, <3>1
    <3>3. Fits(g, c) /\ CanExecute(g, c)
      BY <1>1, <1>5, <3>1
    <3>4. more = Command(Append(command.parts, c), Append(command.groves, Execute(g, c)))
      BY <2>1, <3>1
    <3>5. /\ Chain(more) /\ Len(more.parts) = Len(command.parts) + 1
          /\ more.groves[1] = command.groves[1]
          /\ more.groves[Len(more.parts) + 1] = Execute(g, c)
      BY <3>2, <3>3, <3>4, ChainMore, SMTT(30)
    <3> QED
      BY <3>1, <3>5
  <2>3. at' = Len(cur'.parts) /\ at' \in 0 .. Len(cur'.parts)
    BY <1>2, <2>1, <2>2, ChainLengths
  <2>4. CurrentInv'
    BY <2>1, <2>2, <2>3 DEF CurrentInv
  <2> QED
    BY <1>2, <1>3, <1>4, <2>1, <2>2, <2>3, <2>4 DEF IInv, WorkInv
<1>6. CASE ~CanExecute(grove, c)
  <2>1. state' = "give up" /\ UNCHANGED <<grove, cur, at>>
    BY <1>1, <1>6 DEF ExecuteAndAdd
  <2>2. CurrentInv
    BY DEF Build, IInv, WorkInv
  <2>3. CurrentInv'
    BY <2>1, <2>2 DEF CurrentInv
  <2> QED
    BY <1>2, <1>3, <1>4, <2>1, <2>3 DEF IInv, WorkInv
<1> QED
  BY <1>5, <1>6

LEMMA AddInv ==
  ASSUME IInv, Add
  PROVE  IInv'
<1>1. /\ state = "build" /\ hist' = Append(SubSeq(hist, 1, done), cur) /\ done' = done + 1
      /\ cur' = NoCommand /\ at' = 0 /\ state' = "idle" /\ UNCHANGED <<grove, opened>>
  BY DEF Add, EndWork
<1>2. /\ Chain(cur) /\ grove = cur.groves[Len(cur.parts) + 1]
      /\ cur.groves[1] = GroveAfter(done)
  BY <1>1 DEF IInv, WorkInv, CurrentInv
<1>3. /\ Grove(opened) /\ Forest(opened) /\ IsSequence(hist) /\ done \in 0 .. Len(hist)
      /\ \A k \in 1 .. Len(hist) : Chain(hist[k]) /\ hist[k].groves[1] = GroveAfter(k - 1)
  BY DEF IInv, HistoryInv
<1>4. PICK kept, last, n : kept = SubSeq(hist, 1, done) /\ last = cur /\ n = done
  OBVIOUS
<1>5. /\ IsSequence(kept) /\ Len(kept) = done /\ Len(hist) \in Nat
      /\ \A i \in 1 .. done : kept[i] = hist[i]
  BY <1>3, <1>4, PrefixSequence
<1>6. /\ IsSequence(hist') /\ Len(hist') = done + 1
      /\ \A i \in 1 .. done : hist'[i] = hist[i]
      /\ hist'[done + 1] = cur
  <2>1. hist' = Append(kept, last)
    BY <1>1, <1>4
  <2>2. /\ IsSequence(Append(kept, last)) /\ Len(Append(kept, last)) = Len(kept) + 1
        /\ \A i \in 1 .. Len(kept) : Append(kept, last)[i] = kept[i]
        /\ Append(kept, last)[Len(kept) + 1] = last
    BY <1>5, AppendSequence
  <2> QED
    BY <1>4, <1>5, <2>1, <2>2
<1>7. \A i \in 0 .. done : GroveAfter(i)' = GroveAfter(i)
  BY <1>1, <1>5, <1>6 DEF GroveAfter
<1>8. GroveAfter(done)' = grove
  <2>1. done' # 0 /\ done' = done + 1
    BY <1>1, <1>3, <1>5
  <2>2. Last(cur.groves) = grove
    BY <1>2, ChainLengths
  <2> QED
    BY <1>6, <2>1, <2>2 DEF GroveAfter
<1>9. \A k \in 1 .. done + 1 : Chain(hist'[k]) /\ hist'[k].groves[1] = GroveAfter(k - 1)'
  <2> TAKE k \in 1 .. done + 1
  <2>1. CASE k = done + 1
    <3>1. k - 1 = done /\ done \in 0 .. done
      BY <1>3, <1>5, <2>1
    <3> QED
      BY <1>2, <1>6, <1>7, <2>1, <3>1
  <2>2. CASE k \in 1 .. done
    <3>1. k \in 1 .. Len(hist) /\ k - 1 \in 0 .. done
      BY <1>3, <1>5, <2>2
    <3> QED
      BY <1>3, <1>6, <1>7, <2>2, <3>1
  <2> QED
    BY <1>3, <1>5, <2>1, <2>2
<1>10. HistoryInv'
  BY <1>1, <1>3, <1>5, <1>6, <1>9 DEF HistoryInv
<1>11. WorkInv'
  BY <1>1, <1>8 DEF WorkInv
<1> QED
  BY <1>10, <1>11 DEF IInv

LEMMA ForgetInv ==
  ASSUME IInv, Forget
  PROVE  IInv'
<1>1. /\ state \in {"build", "give up"} /\ at = 0 /\ cur' = NoCommand /\ at' = 0 /\ state' = "idle"
      /\ UNCHANGED <<grove, opened, hist, done>>
  BY DEF Forget, EndWork
<1>2. grove = GroveAfter(done)
  <2>1. CurrentInv /\ cur.groves[1] = GroveAfter(done)
    BY <1>1 DEF IInv, WorkInv
  <2>2. at + 1 = 1
    <3>1. at = 0
      BY <1>1
    <3> QED
      BY <3>1
  <2> QED
    BY <2>1, <2>2 DEF CurrentInv
<1>3. HistoryInv' /\ GroveAfter(done)' = GroveAfter(done)
  BY <1>1, SameHistory DEF IInv, HistoryInv
<1> QED
  BY <1>1, <1>2, <1>3 DEF IInv, WorkInv

\* A command of the history begins and ends with what was before it and after it.
LEMMA HistoryCommand ==
  ASSUME HistoryInv, NEW k \in 1 .. Len(hist), NEW command, command = hist[k]
  PROVE  /\ Chain(command) /\ Len(command.parts) \in Nat
         /\ command.groves[1] = GroveAfter(k - 1)
         /\ command.groves[Len(command.parts) + 1] = GroveAfter(k)
<1>1. Chain(command) /\ command.groves[1] = GroveAfter(k - 1)
  BY DEF HistoryInv
<1>2. GroveAfter(k) = Last(command.groves)
  BY DEF GroveAfter
<1> QED
  BY <1>1, <1>2, ChainLengths

LEMMA BeginUndoInv ==
  ASSUME IInv, BeginUndo
  PROVE  IInv'
<1>1. /\ state = "idle" /\ done > 0 /\ cur' = hist[done] /\ at' = Len(hist[done].parts)
      /\ state' = "undo" /\ UNCHANGED <<grove, opened, hist, done>>
  BY DEF BeginUndo, BeginWork
<1>2. HistoryInv /\ grove = GroveAfter(done) /\ done \in 1 .. Len(hist)
  BY <1>1 DEF IInv, HistoryInv, WorkInv
<1>3. /\ Chain(cur') /\ Len(cur'.parts) \in Nat /\ cur'.groves[Len(cur'.parts) + 1] = grove
  BY <1>1, <1>2, HistoryCommand
<1>4. CurrentInv'
  BY <1>1, <1>3 DEF CurrentInv
<1>5. HistoryInv'
  BY <1>1, <1>2, SameHistory
<1> QED
  BY <1>1, <1>4, <1>5 DEF IInv, WorkInv

LEMMA UnexecutePartInv ==
  ASSUME IInv, UnexecutePart
  PROVE  IInv'
<1>1. /\ state \in {"undo", "give up"} /\ at > 0 /\ grove' = Unexecute(grove, cur.parts[at])
      /\ at' = at - 1 /\ UNCHANGED <<opened, hist, done, cur, state>>
  BY DEF UnexecutePart
<1>2. CurrentInv
  BY <1>1 DEF IInv, WorkInv
<1>3. Chain(cur) /\ at \in 0 .. Len(cur.parts) /\ grove = cur.groves[at + 1]
  BY <1>2 DEF CurrentInv
<1>4. Len(cur.parts) \in Nat
  BY <1>3, ChainLengths
<1>5. PICK i, n : i = at /\ n = Len(cur.parts)
  OBVIOUS
<1>6. i \in 1 .. n /\ i - 1 \in 0 .. n /\ i - 1 + 1 = i
  <2>1. i \in 0 .. n /\ i > 0 /\ n \in Nat
    BY <1>1, <1>3, <1>4, <1>5
  <2> QED
    BY <2>1
<1>7. Chain(cur) /\ at \in 1 .. Len(cur.parts) /\ grove = cur.groves[at + 1]
      /\ Len(cur.parts) \in Nat
  BY <1>3, <1>4, <1>5, <1>6
<1>8. grove' = cur.groves[at]
  BY <1>1, <1>7, ChainSteps
<1>9. at' + 1 = at /\ at' \in 0 .. Len(cur.parts)
  BY <1>1, <1>5, <1>6
<1>10. CurrentInv'
  BY <1>1, <1>7, <1>8, <1>9 DEF CurrentInv
<1>11. HistoryInv' /\ GroveAfter(done)' = GroveAfter(done)
  BY <1>1, SameHistory DEF IInv, HistoryInv
<1> QED
  BY <1>1, <1>10, <1>11 DEF IInv, WorkInv

LEMMA EndUndoInv ==
  ASSUME IInv, EndUndo
  PROVE  IInv'
<1>1. /\ state = "undo" /\ at = 0 /\ done' = done - 1 /\ cur' = NoCommand /\ at' = 0
      /\ state' = "idle" /\ UNCHANGED <<grove, opened, hist>>
  BY DEF EndUndo, EndWork
<1>2. HistoryInv /\ grove = cur.groves[1] /\ cur = hist[done] /\ done > 0
  BY <1>1 DEF IInv, WorkInv, CurrentInv
<1>3. PICK n : n = done - 1 /\ done \in 1 .. Len(hist) /\ n \in 0 .. Len(hist)
  BY <1>2 DEF HistoryInv
<1>4. grove = GroveAfter(n)
  BY <1>2, <1>3, HistoryCommand
<1>5. HistoryInv' /\ GroveAfter(n)' = grove
  BY <1>1, <1>2, <1>3, <1>4, SameHistory
<1> QED
  BY <1>1, <1>3, <1>5 DEF IInv, WorkInv, GroveAfter

LEMMA BeginRedoInv ==
  ASSUME IInv, BeginRedo
  PROVE  IInv'
<1>1. /\ state = "idle" /\ done < Len(hist) /\ cur' = hist[done + 1] /\ at' = 0
      /\ state' = "redo" /\ UNCHANGED <<grove, opened, hist, done>>
  BY DEF BeginRedo, BeginWork
<1>2. HistoryInv /\ grove = GroveAfter(done)
  BY <1>1 DEF IInv, WorkInv
<1>3. PICK k : k = done + 1 /\ k \in 1 .. Len(hist) /\ k - 1 = done
  <2>1. done \in 0 .. Len(hist) /\ done < Len(hist)
    BY <1>1, <1>2 DEF HistoryInv
  <2> QED
    BY <2>1
<1>4. PICK command : command = hist[k]
  OBVIOUS
<1>5. /\ Chain(cur') /\ Len(cur'.parts) \in Nat /\ cur'.groves[1] = grove
  <2>1. Chain(command) /\ Len(command.parts) \in Nat /\ command.groves[1] = GroveAfter(k - 1)
    BY <1>2, <1>3, <1>4, HistoryCommand
  <2> QED
    BY <1>1, <1>2, <1>3, <1>4, <2>1
<1>6. CurrentInv'
  BY <1>1, <1>5 DEF CurrentInv
<1>7. HistoryInv'
  BY <1>1, <1>2, SameHistory DEF HistoryInv
<1> QED
  BY <1>1, <1>6, <1>7 DEF IInv, WorkInv

LEMMA ExecutePartInv ==
  ASSUME IInv, ExecutePart
  PROVE  IInv'
<1> DEFINE c == cur.parts[at + 1]
<1>1. /\ state = "redo" /\ at < Len(cur.parts) /\ UNCHANGED <<opened, hist, done, cur>>
      /\ CanExecute(grove, c) => grove' = Execute(grove, c) /\ at' = at + 1 /\ state' = state
  BY DEF ExecutePart
<1>2. CurrentInv
  BY <1>1 DEF IInv, WorkInv
<1>3. Chain(cur) /\ at + 1 \in 1 .. Len(cur.parts) /\ grove = cur.groves[at + 1]
      /\ Len(cur.parts) \in Nat
  BY <1>1, <1>2, ChainLengths DEF CurrentInv
<1>4. grove' = cur.groves[at + 1 + 1] /\ at' = at + 1 /\ state' = state
  BY <1>1, <1>3, ChainSteps
<1>5. at' \in 0 .. Len(cur.parts)
  BY <1>3, <1>4
<1>6. CurrentInv'
  BY <1>1, <1>3, <1>4, <1>5 DEF CurrentInv
<1>7. HistoryInv'
  BY <1>1, SameHistory DEF IInv, HistoryInv
<1> QED
  BY <1>1, <1>4, <1>6, <1>7 DEF IInv, WorkInv

LEMMA EndRedoInv ==
  ASSUME IInv, EndRedo
  PROVE  IInv'
<1>1. /\ state = "redo" /\ at = Len(cur.parts) /\ done' = done + 1 /\ cur' = NoCommand /\ at' = 0
      /\ state' = "idle" /\ UNCHANGED <<grove, opened, hist>>
  BY DEF EndRedo, EndWork
<1>2. HistoryInv /\ grove = cur.groves[Len(cur.parts) + 1] /\ cur = hist[done + 1]
      /\ done < Len(hist)
  BY <1>1 DEF IInv, WorkInv, CurrentInv
<1>3. PICK n : n = done + 1 /\ n \in 1 .. Len(hist) /\ n \in 0 .. Len(hist)
  BY <1>2 DEF HistoryInv
<1>4. grove = GroveAfter(n)
  BY <1>2, <1>3, HistoryCommand
<1>5. HistoryInv' /\ GroveAfter(n)' = grove
  BY <1>1, <1>2, <1>3, <1>4, SameHistory
<1> QED
  BY <1>1, <1>3, <1>5 DEF IInv, WorkInv, GroveAfter

LEMMA NextInv == IInv /\ [Next]_vars => IInv'
<1> SUFFICES ASSUME IInv, [Next]_vars PROVE IInv'
  OBVIOUS
<1>1. CASE UNCHANGED vars
  <2>1. HistoryInv' /\ GroveAfter(done)' = GroveAfter(done)
    BY <1>1, SameHistory DEF vars, IInv, HistoryInv
  <2>2. CurrentInv => CurrentInv'
    BY <1>1 DEF vars, CurrentInv
  <2> QED
    BY <1>1, <2>1, <2>2 DEF vars, IInv, WorkInv
<1>2. CASE Next
  BY <1>2, BeginBuildInv, BuildInv, AddInv, ForgetInv, BeginUndoInv, UnexecutePartInv,
     EndUndoInv, BeginRedoInv, ExecutePartInv, EndRedoInv DEF Next
<1> QED
  BY <1>1, <1>2

-----------------------------------------------------------------------------
\* What follows for every behaviour.

LEMMA SpecInv == Spec => []IInv
BY InitInv, NextInv, PTL DEF Spec

LEMMA InvType == IInv => TypeOK
<1> SUFFICES ASSUME IInv PROVE TypeOK
  OBVIOUS
<1>1. Grove(grove) /\ Grove(opened) /\ done \in 0 .. Len(hist)
  BY GroveInv DEF IInv, HistoryInv
<1>2. at \in 0 .. Len(cur.parts)
  <2>1. CASE state = "idle"
    <3>1. at = 0 /\ Len(cur.parts) = 0
      BY <2>1, EmptySequence DEF IInv, WorkInv, NoCommand, Command
    <3> QED
      BY <3>1
  <2>2. CASE CurrentInv
    BY <2>2 DEF CurrentInv
  <2> QED
    BY <2>1, <2>2 DEF IInv, WorkInv
<1>3. state \in {"idle", "build", "give up", "undo", "redo", "stopped"}
  BY DEF IInv, WorkInv
<1> QED
  BY <1>1, <1>2, <1>3 DEF TypeOK

\* The variables have their types: the grove is one, and stays one, whatever is done.
THEOREM TypeCorrect == Spec => []TypeOK
BY SpecInv, InvType, PTL

\* A node is never at two places of a document, in a text, in itself or below itself:
\* not after any command, and not between two parts of one.
THEOREM ForestAlways == Spec => []ForestKept
<1>1. IInv => ForestKept
  BY GroveInv DEF ForestKept
<1> QED
  BY <1>1, SpecInv, PTL

\* Whenever no command is being worked on, the grove is what the last command that is
\* done has left; and in the middle of a composite command that is built, undone, redone
\* or given up, it is as it was there when the command was built.
THEOREM UndoRestored == Spec => []UndoRestores
<1>1. IInv => UndoRestores
  BY DEF IInv, WorkInv, CurrentInv, UndoRestores
<1> QED
  BY <1>1, SpecInv, PTL

\* The preconditions of a part hold whenever it is redone, so that redoing a composite
\* command never fails after some of its parts.
THEOREM RedoAlwaysSucceeds == Spec => []RedoSucceeds
<1>1. IInv => RedoSucceeds
  BY DEF IInv, WorkInv, RedoSucceeds
<1> QED
  BY <1>1, SpecInv, PTL

==============================================================================
