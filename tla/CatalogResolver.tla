---------------------------- MODULE CatalogResolver ----------------------------
(***************************************************************************)
(* The resolution of external identifiers and URIs by XML catalogs. The    *)
(* catalogs are shared by all documents (CatalogHolder): each is built     *)
(* from its file when a resolution comes to it and finds the file newer,   *)
(* and is used by all that come later, also when the list of catalogs to   *)
(* begin with (XMLCatalogManager) has changed. References that would lead  *)
(* a resolution round in a circle are struck from the catalog.             *)
(*                                                                         *)
(* Identifiers and URIs are sequences of characters, as far as they are    *)
(* normalised. An identifier in the namespace urn:publicid begins with     *)
(* Urn. Catalogs are files; a file that is no catalog has no entries. What *)
(* the parser resolves while it reads the file of a catalog is left out.   *)
(***************************************************************************)
EXTENDS Integers, Sequences, SequencesExt, FiniteSetsExt

CONSTANTS
  Uri,          \* the catalogs
  Missing,      \* no file
  Entries,      \* for each catalog, what its file may have
  Lists,        \* the lists of catalogs that may be configured
  PublicIds, SystemIds,   \* the identifiers that are resolved, <<>> for none
  Urn,          \* the character that stands for the prefix of the namespace
  MaxTime,      \* bound: the time until which files are written
  Ticks         \* by how much the time goes on between two writes

ASSUME TimeAssumption == MaxTime \in Nat \ {0} /\ Ticks \subseteq Nat

VARIABLES
  files,        \* the file of each catalog, or Missing
  time,         \* when a file was written last
  catalogs,     \* the catalogs as they were built, with their mtime_
  configured,   \* catList_, the list that was configured
  catalogList,  \* catalogList_, those of it that were there
  prefer        \* the option of the manager

vars == <<files, time, catalogs, configured, catalogList, prefer>>

\* The types of the variables.
TypeOK ==
  /\ \A u \in Uri :
       /\ files[u] # Missing => files[u].mtime \in 1 .. time /\ files[u].entries \in Entries[u]
       /\ catalogs[u].mtime \in 0 .. time
  /\ time \in 1 .. MaxTime
  /\ configured \in Lists \cup {<<>>}
  /\ ToSet(catalogList) \subseteq ToSet(configured)
  /\ prefer \in {"public", "system"}

-----------------------------------------------------------------------------
\* Entries: a "map" from an identifier, a "rewrite" or a "delegate" of those that
\* begin with it, and a "next" catalog; of says of what kind the identifier is.

\* The entries of one kind, and those with the longest identifiers first.
Of(entries, kind, of) == SelectSeq(entries, LAMBDA e : e.kind = kind /\ e.of = of)

ByLength(es) ==
  LET order == SetToSortSeq(DOMAIN es, LAMBDA i, j :
                 \/ Len(es[i].id) > Len(es[j].id)
                 \/ Len(es[i].id) = Len(es[j].id) /\ i < j)
  IN [i \in DOMAIN order |-> es[order[i]]]

Nexts(entries) == SelectSeq(entries, LAMBDA e : e.kind = "next")

IsReference(e) == e.kind \in {"delegate", "next"}

\* visit(PublicEntry&): whether it is used, e.prefer being the options it is under.
IsUsed(e) ==
  e.of = "public" =>
    /\ "system" \notin e.prefer
    /\ "public" \in e.prefer \/ prefer # "system"

Rewritten(e, id) == e.to \o SubSeq(id, Len(e.id) + 1, Len(id))

-----------------------------------------------------------------------------
\* A resolution: the catalogs as it has left them, those it has visited, the
\* identifiers it still goes by, and whether it has come to an end and with what.

Begin(id) == [cats |-> catalogs, visited |-> {}, id |-> id, ok |-> FALSE, uri |-> <<>>]

Found(r, uri) == [r EXCEPT !.ok = TRUE, !.uri = uri]

Unvisited_InAnyResolution(r, es) ==
  SelectSeq(es, LAMBDA e : ~(IsReference(e) /\ r.cats[e.to].mtime > 0))

\* The entries es without the references to catalogs that were visited on the way to
\* them.
Unvisited(r, es) == SelectSeq(es, LAMBDA e : ~(IsReference(e) /\ e.to \in r.visited))

Build_Once(r, u) ==
  IF files[u] = Missing THEN [r EXCEPT !.cats[u].mtime = 0]
  ELSE IF r.cats[u].mtime > 0 THEN r
  ELSE [r EXCEPT !.cats[u] = [mtime |-> files[u].mtime,
                              entries |-> Unvisited(r, files[u].entries)]]

\* buildCatalog(), unless what was built is not older than the file.
Build(r, u) ==
  IF files[u] = Missing THEN [r EXCEPT !.cats[u].mtime = 0]
  ELSE IF r.cats[u].mtime >= files[u].mtime THEN r
  ELSE [r EXCEPT !.cats[u] = [mtime |-> files[u].mtime,
                              entries |-> Unvisited(r, files[u].entries)]]

Strike_WithNext(r, u, e) ==
  LET es == r.cats[u].entries
      at == CHOOSE i \in DOMAIN es : es[i] = e
  IN [r EXCEPT !.cats[u].entries = SubSeq(es, 1, at - 1) \o SubSeq(es, at + 2, Len(es))]

\* The entry e of the catalog u is struck.
Strike(r, u, e) ==
  [r EXCEPT !.cats[u].entries = SelectSeq(@, LAMBDA f : f # e)]

\* find_match_or_rewrite(), and the same for public identifiers, which are not
\* rewritten.
FindMatch(r, u, of) ==
  LET id == r.id[of]
      maps == SelectSeq(Of(r.cats[u].entries, "map", of), LAMBDA e : e.id = id /\ IsUsed(e))
      rewrites == SelectSeq(ByLength(Of(r.cats[u].entries, "rewrite", of)),
                            LAMBDA e : IsPrefix(e.id, id))
  IN IF maps # <<>> THEN Found(r, maps[1].to)
     ELSE IF rewrites # <<>> THEN Found(r, Rewritten(rewrites[1], id))
     ELSE r

\* What is not asked for any more once an identifier was delegated.
Cleared(id, of) ==
  CASE of = "system" -> [id EXCEPT !.public = <<>>]
    [] of = "public" -> [id EXCEPT !.system = <<>>]
    [] of = "uri" -> id

RECURSIVE Visit(_, _)

\* A reference to a catalog that was visited is struck.
Follow(r, u, e) == IF e.to \in r.visited THEN Strike(r, u, e) ELSE Visit(r, e.to)

\* process_delegates(): the resolution ends with the delegates, if there are any.
ProcessDelegates(r, u, of) ==
  LET matching == SelectSeq(ByLength(Of(r.cats[u].entries, "delegate", of)),
                            LAMBDA e : IsPrefix(e.id, r.id[of]))
      Step(s, e) ==
        IF s.ok THEN s
        ELSE LET cleared == IF e.to \in s.visited THEN s ELSE [s EXCEPT !.id = Cleared(@, of)]
             IN Follow(cleared, u, e)
      end == FoldLeft(Step, r, matching)
      matched == \E i \in DOMAIN matching : matching[i].to \notin r.visited
  IN [end EXCEPT !.ok = @ \/ matched]

ProcessNexts(r, u) ==
  FoldLeft(LAMBDA s, e : IF s.ok THEN s ELSE Follow(s, u, e), r, Nexts(r.cats[u].entries))

\* The identifier of one kind, if there is one.
ResolveOf(r, u, of) ==
  IF r.ok \/ r.id[of] = <<>> THEN r
  ELSE LET match == FindMatch(r, u, of)
       IN IF match.ok THEN match ELSE ProcessDelegates(match, u, of)

NoId == [public |-> <<>>, system |-> <<>>, uri |-> <<>>]

\* resolve() of a catalog that was built.
Resolve(r, u) ==
  LET end == ResolveOf(ResolveOf(ResolveOf(r, u, "system"), u, "public"), u, "uri")
  IN IF end.ok \/ end.id = NoId THEN end ELSE ProcessNexts(end, u)

Visit(r, u) ==
  LET built == Build([r EXCEPT !.visited = @ \cup {u}], u)
  IN IF files[u] = Missing THEN built ELSE Resolve(built, u)

\* find_if() over the catalogs of the manager.
ResolveAll(id) ==
  FoldLeft(LAMBDA r, u : IF r.ok THEN r ELSE Visit(r, u), Begin(id), catalogList)

InUrn(s) == s # <<>> /\ s[1] = Urn
Unwrapped(s) == IF InUrn(s) THEN Tail(s) ELSE s

\* resolveExternalId(): a system identifier in the namespace is a public one.
ExternalId(pub, sys) ==
  [public |-> IF InUrn(sys) /\ pub = <<>> THEN Unwrapped(sys) ELSE Unwrapped(pub),
   system |-> IF InUrn(sys) THEN <<>> ELSE sys,
   uri |-> <<>>]

UriRef(uri) == [public |-> <<>>, system |-> <<>>, uri |-> uri]

\* What may be asked for.
Queries ==
  {ExternalId(pub, sys) : pub \in PublicIds, sys \in SystemIds} \cup
  {UriRef(uri) : uri \in SystemIds}

-----------------------------------------------------------------------------

\* The program starts with the files there are.
Init ==
  /\ files \in [Uri -> {Missing} \cup
                  UNION {{[mtime |-> 1, entries |-> es] : es \in Entries[u]} : u \in Uri}]
  /\ \A u \in Uri : files[u] # Missing => files[u].entries \in Entries[u]
  /\ time = 1
  /\ catalogs = [u \in Uri |-> [mtime |-> 0, entries |-> <<>>]]
  /\ configured = <<>>
  /\ catalogList = <<>>
  /\ prefer \in {"public", "system"}

\* updateCatalogs(), when the configuration was changed: a list that is another than
\* before is read, and those of it that are not there are left out.
UpdateCatalogs(list, option) ==
  /\ configured' = list
  /\ catalogList' = IF list = configured THEN catalogList
                    ELSE SelectSeq(list, LAMBDA u : files[u] # Missing)
  /\ prefer' = option
  /\ UNCHANGED <<files, time, catalogs>>

\* An identifier is resolved, by the parser of a document or by map_uri().
Ask(id) ==
  /\ catalogs' = ResolveAll(id).cats
  /\ UNCHANGED <<files, time, configured, catalogList, prefer>>

WriteFile_Ahead(u, entries, tick) ==
  /\ time + tick \in 1 .. MaxTime
  /\ files' = [files EXCEPT ![u] = [mtime |-> time + tick, entries |-> entries]]
  /\ UNCHANGED <<time, catalogs, configured, catalogList, prefer>>

\* Somebody writes or removes the file of a catalog.
WriteFile(u, entries, tick) ==
  /\ time + tick \in 1 .. MaxTime
  /\ time' = time + tick
  /\ files' = [files EXCEPT ![u] = [mtime |-> time + tick, entries |-> entries]]
  /\ UNCHANGED <<catalogs, configured, catalogList, prefer>>

RemoveFile(u) ==
  /\ files[u] # Missing
  /\ files' = [files EXCEPT ![u] = Missing]
  /\ UNCHANGED <<time, catalogs, configured, catalogList, prefer>>

Next ==
  \/ \E list \in Lists, option \in {"public", "system"} : UpdateCatalogs(list, option)
  \/ \E id \in Queries : Ask(id)
  \/ \E u \in Uri : \E entries \in Entries[u], tick \in Ticks : WriteFile(u, entries, tick)
  \/ \E u \in Uri : RemoveFile(u)

Spec == Init /\ [][Next]_vars

-----------------------------------------------------------------------------
\* What a resolution is to find, by the files as they are. A catalog to be searched
\* is a record of its URI and those that the search has come through.

Present(c) == IF files[c.uri] = Missing THEN <<>> ELSE files[c.uri].entries

\* The catalogs that the entries es of c refer to, but for those that would lead back.
Leads(c, es) ==
  LET on == SelectSeq(es, LAMBDA e : e.to \notin c.from \cup {c.uri})
  IN [i \in DOMAIN on |-> [uri |-> on[i].to, from |-> c.from \cup {c.uri}]]

\* The entries for an identifier: the best is a map, or what has most of the identifier
\* in it, and of two that are equal the first.
Fits(c, of, id) ==
  {i \in DOMAIN Present(c) :
     LET e == Present(c)[i] IN
     /\ e.of = of
     /\ \/ e.kind = "map" /\ e.id = id /\ IsUsed(e)
        \/ e.kind = "rewrite" /\ IsPrefix(e.id, id)}

IsBest(c, i, fits) ==
  \A j \in fits \ {i} :
    LET e == Present(c)[i]
        f == Present(c)[j]
    IN \/ e.kind = "map" /\ f.kind = "rewrite"
       \/ e.kind = f.kind /\ Len(e.id) > Len(f.id)
       \/ e.kind = f.kind /\ Len(e.id) = Len(f.id) /\ i < j

Best(c, of, id) == CHOOSE i \in Fits(c, of, id) : IsBest(c, i, Fits(c, of, id))

Delegates(c, of, id) ==
  Leads(c, ByLength(SelectSeq(Of(Present(c), "delegate", of), LAMBDA e : IsPrefix(e.id, id))))

RECURSIVE Search(_, _)
\* The catalogs cs are searched one after the other, each with what it goes on to.
Search(cs, id) ==
  IF cs = <<>> THEN <<>>
  ELSE
    LET c == Head(cs)
        Kind(of) == id[of] # <<>> /\ (Fits(c, of, id[of]) # {} \/ Delegates(c, of, id[of]) # <<>>)
        Answer(of) ==
          IF Fits(c, of, id[of]) # {}
          THEN LET e == Present(c)[Best(c, of, id[of])]
               IN IF e.kind = "map" THEN e.to ELSE Rewritten(e, id[of])
          ELSE Search(Delegates(c, of, id[of]), Cleared(id, of))
    IN CASE Kind("system") -> Answer("system")
         [] ~Kind("system") /\ Kind("public") -> Answer("public")
         [] Kind("uri") -> Answer("uri")
         [] OTHER -> Search(Leads(c, Nexts(Present(c))) \o Tail(cs), id)

Defined(id) ==
  Search([i \in DOMAIN catalogList |-> [uri |-> catalogList[i], from |-> {}]], id)

\* Every identifier is resolved to what the files say now.
Answered == \A id \in Queries : ResolveAll(id).uri = Defined(id)

\* What is struck of a catalog that is up to date.
Struck(u) ==
  IF files[u] # Missing /\ catalogs[u].mtime = files[u].mtime
  THEN ToSet(files[u].entries) \ ToSet(catalogs[u].entries)
  ELSE {}

\* The catalogs that entries refer to.
Targets(entries) == {e.to : e \in {f \in entries : IsReference(f)}}

RECURSIVE Ways(_, _)
\* The catalogs that those of a set now lead to without coming through v.
Ways(us, v) ==
  LET here == {u \in us : files[u] # Missing}
      on == (us \cup UNION {Targets(ToSet(files[u].entries)) : u \in here}) \ {v}
  IN IF on = us THEN us ELSE Ways(on, v)

\* Of a catalog that is otherwise as its file is, a reference is struck that led back for
\* a resolution from another list, and does not for this list, from which the catalog is
\* found another way.
ReferenceLost ==
  \E u \in Uri : \E e \in Struck(u) :
    /\ IsReference(e)
    /\ ToSet(catalogs[u].entries) \subseteq ToSet(files[u].entries)
    /\ u \in Ways(ToSet(catalogList) \ {e.to}, e.to)

\* Whatever was asked before and whatever has happened to the files, an identifier is
\* resolved to what the files say now, unless a resolution from another list has
\* struck a reference that this one needs: catalogs are kept as they are left.
AnswersAsDefined == ~ReferenceLost => Answered

RECURSIVE Reached(_)
\* The catalogs that those of a set may ever have led to.
Reached(us) ==
  LET on == us \cup UNION {Targets(ToSet(es)) : es \in UNION {Entries[u] : u \in us}}
  IN IF on = us THEN us ELSE Reached(on)

\* A catalog that is up to date has every entry of its file, but for references to
\* catalogs that have led back to it: neither building nor erasing strikes another.
OnlyCirclesAreStruck ==
  \A u \in Uri : \A e \in Struck(u) : IsReference(e) /\ u \in Reached({e.to})

=============================================================================
