---------------------------- MODULE MCGroveEditor ----------------------------
(***************************************************************************)
(* GroveEditor on small documents.                                         *)
(***************************************************************************)
EXTENDS GroveEditor

MCName == {"#document", "p", "q", "t"}
MCChar == {"a", "b", "c", "d", "x"}

Text(s) == <<NoAddress(MaxElements + 1), s, <<>>>>
Element(name, shapes) == <<NoAddress(Document), <<name>>, shapes>>

\* The grove of a document with the root element of a shape.
Opened(shape) ==
  LET empty == [kids |-> [n \in Node |-> <<>>], data |-> [n \in Node |-> <<>>], used |-> {}]
      m == Make(Made(empty, Document, <<"#document">>), <<shape>>)
  IN [m.grove EXCEPT !.kids[Document] = m.made]

\* Texts on both sides of an element and inside it; elements in which a selection can
\* begin and end at different depths; neighbours that can be joined.
Large ==
  {Opened(Element("p", shapes)) : shapes \in {
     <<Text(<<"a", "b", "c">>), Element("q", <<Text(<<"c">>)>>), Text(<<"d">>)>>,
     <<Element("q", <<Element("p", <<Text(<<"a", "b">>)>>), Text(<<"c">>)>>),
       Element("q", <<Text(<<"d">>), Element("p", <<>>)>>)>>}}

\* One that is small enough for a second command.
Small == {Opened(Element("p", <<Text(<<"a">>), Element("q", <<Text(<<"b">>)>>)>>))}

MCDocuments == Large \cup Small

MCMaxHistory ==
  [shape \in {Shape(d, Document) : d \in MCDocuments} |->
     IF shape \in {Shape(d, Document) : d \in Small} THEN 2 ELSE 1]

MCClips ==
  {<<Text(<<"x">>)>>, <<Element("p", <<Text(<<"x">>)>>)>>,
   <<Text(<<"x">>), Element("q", <<>>), Text(<<"x">>)>>}
=============================================================================
