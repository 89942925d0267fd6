--------------------------- MODULE MCCatalogResolver ---------------------------
(***************************************************************************)
(* CatalogResolver on small instances. Root and Sub lead to each other and *)
(* Sub to Leaf; the lists come to the circle from both of its sides.       *)
(***************************************************************************)
EXTENDS CatalogResolver, TLC

Root == <<"root">>
Sub == <<"sub">>
Leaf == <<"leaf">>

Entry(kind, of, id, to) == [kind |-> kind, of |-> of, id |-> id, to |-> to, prefer |-> {}]
Public(option, id, to) == [Entry("map", "public", id, to) EXCEPT !.prefer = {option}]
NextCatalog(to) == Entry("next", "catalog", <<>>, to)

X == <<"x">>
XY == <<"x", "y">>
P == <<"p">>

MCUri == {Root, Sub, Leaf}

\* Each catalog is led to by one other: Root and Sub to each other, Sub to Leaf.
MCEntries ==
  Root :> {<<Entry("rewrite", "system", X, <<"1">>), Entry("delegate", "public", P, Sub),
             Entry("map", "system", X, <<"0">>), Entry("rewrite", "system", XY, <<"2">>),
             NextCatalog(Sub)>>,
           <<Entry("delegate", "system", X, Sub), Entry("map", "public", P, <<"3">>),
             Entry("delegate", "uri", XY, Sub)>>}
  @@ Sub :> {<<NextCatalog(Root), Entry("map", "system", XY, <<"4">>),
               Public("public", P, <<"5">>), NextCatalog(Leaf)>>,
             <<Entry("delegate", "uri", X, Leaf), Entry("delegate", "system", X, Root),
               Public("system", P, <<"6">>)>>}
  @@ Leaf :> {<<Entry("map", "public", P, <<"7">>), Entry("rewrite", "uri", X, <<"8">>)>>}

MCLists == {<<Root>>, <<Sub>>, <<Root, Leaf>>}

MCPublicIds == {<<>>, P}
MCSystemIds == {<<>>, X, XY, <<"urn", "p">>}

\* Two catalogs lead to the same one.
SharedEntries == [MCEntries EXCEPT ![Root] = {<<NextCatalog(Leaf), NextCatalog(Sub)>>}]
=============================================================================
