---------------------------- MODULE MCGroveHistory ----------------------------
(***************************************************************************)
(* GroveHistory on small documents.                                        *)
(***************************************************************************)
EXTENDS GroveHistory

MCName == {"#document", "p", "q"}
MCChar == {"a", "b", "x"}

\* The grove of the nodes that have names or texts in data, with their children.
GroveOf(kids, data) ==
  [kids |-> [n \in Node |-> IF n \in DOMAIN kids THEN kids[n] ELSE <<>>],
   data |-> [n \in Node |-> IF n \in DOMAIN data THEN data[n] ELSE <<>>],
   used |-> DOMAIN data]

\* A text of two characters beside an element with a text; two elements that can be
\* joined. An element, or another with a text in it, and some texts are new.
Large ==
  {GroveOf(1 :> <<2>> @@ 2 :> <<6, 3>> @@ 3 :> <<7>> @@ 5 :> <<8>>,
           1 :> <<"#document">> @@ 2 :> <<"p">> @@ 3 :> <<"q">> @@ 4 :> <<"q">> @@ 5 :> <<"p">>
           @@ 6 :> <<"a", "b">> @@ 7 :> <<"b">> @@ 8 :> <<"x">> @@ 9 :> <<"b">>),
   GroveOf(1 :> <<2>> @@ 2 :> <<3, 4>> @@ 3 :> <<6>> @@ 4 :> <<7>>,
           1 :> <<"#document">> @@ 2 :> <<"p">> @@ 3 :> <<"q">> @@ 4 :> <<"q">> @@ 5 :> <<"q">>
           @@ 6 :> <<"a">> @@ 7 :> <<"b">> @@ 8 :> <<"x">>)}

\* One that is small enough for three parts.
Small ==
  {GroveOf(1 :> <<2>> @@ 2 :> <<3>> @@ 3 :> <<6>>,
           1 :> <<"#document">> @@ 2 :> <<"p">> @@ 3 :> <<"q">> @@ 4 :> <<"q">> @@ 6 :> <<"a">>)}

MCDocuments == Large \cup Small

MCMaxParts == [g \in MCDocuments |-> IF g \in Small THEN 3 ELSE 2]
=============================================================================
