---------------------- MODULE CommandExecutorRefinement ----------------------
(***************************************************************************)
(* The list of commands with its cursor implements UndoHistory, a list of  *)
(* versions of which one is shown, for every set of commands and           *)
(* documents, every depth limit and every length of the list.              *)
(***************************************************************************)
EXTENDS CommandExecutorProofs

\* The versions that the commands h lead through, the document being d.
AreVersions(v, h, d) ==
  /\ v \in Seq(Doc)
  /\ Len(v) = Len(h) + 1
  /\ v[1] = IF Len(h) = 0 THEN d ELSE h[1].before
  /\ \A i \in 1..Len(h) : v[i + 1] = h[i].after

LEMMA VersionsOf ==
  ASSUME NEW h \in Seq(CommandObject), NEW d \in Doc, NEW v,
         v = [i \in 1..(Len(h) + 1) |->
               IF h = <<>> THEN d
               ELSE IF i = 1 THEN h[1].before ELSE h[i - 1].after]
  PROVE  AreVersions(v, h, d)
<1> DEFINE n == Len(h)
<1>1. n \in Nat /\ (h = <<>> <=> n = 0)
  BY LenProperties, EmptySeq
<1>2. \A i \in 1..n : h[i] \in CommandObject
  BY ElementOfSeq
<1>3. \A i \in 1..(n + 1) : v[i] \in Doc
  <2> SUFFICES ASSUME NEW i \in 1..(n + 1) PROVE v[i] \in Doc
    OBVIOUS
  <2>1. CASE n = 0
    BY <2>1, <1>1
  <2>2. CASE n # 0 /\ i = 1
    BY <2>2, <1>1, <1>2 DEF CommandObject
  <2>3. CASE n # 0 /\ i # 1
    <3>1. i - 1 \in 1..n
      BY <2>3, <1>1
    <3>2. QED
      BY <3>1, <2>3, <1>1, <1>2 DEF CommandObject
  <2>4. QED
    BY <2>1, <2>2, <2>3
<1>4. v \in Seq(Doc) /\ Len(v) = n + 1
  BY <1>1, <1>3
<1>5. v[1] = IF n = 0 THEN d ELSE h[1].before
  BY <1>1
<1>6. \A i \in 1..n : v[i + 1] = h[i].after
  BY <1>1
<1>7. QED
  BY <1>4, <1>5, <1>6 DEF AreVersions

LEMMA VersionsNow == HistoryInv => AreVersions(Versions, hist, doc)
<1> SUFFICES ASSUME HistoryInv PROVE AreVersions(Versions, hist, doc)
  OBVIOUS
<1>1. hist \in Seq(CommandObject) /\ doc \in Doc
  BY DEF HistoryInv, TypeOK
<1>2. QED
  BY <1>1, VersionsOf DEF Versions

LEMMA VersionsNext == HistoryInv' => AreVersions(Versions', hist', doc')
<1> SUFFICES ASSUME HistoryInv' PROVE AreVersions(Versions', hist', doc')
  OBVIOUS
<1>1. hist' \in Seq(CommandObject) /\ doc' \in Doc
  BY DEF HistoryInv, TypeOK
<1>2. PICK h, d : h = hist' /\ d = doc'
  OBVIOUS
<1>3. PICK v : v = Versions'
  OBVIOUS
<1>4. v = [i \in 1..(Len(h) + 1) |->
            IF h = <<>> THEN d
            ELSE IF i = 1 THEN h[1].before ELSE h[i - 1].after]
  BY <1>2, <1>3 DEF Versions
<1>5. AreVersions(v, h, d)
  BY <1>1, <1>2, <1>4, VersionsOf
<1>6. QED
  BY <1>2, <1>3, <1>5

\* The version that is shown is the document.
LEMMA Shown ==
  ASSUME HistoryInv, NEW v, AreVersions(v, hist, doc)
  PROVE  v[Done + 1] = doc
<1>1. /\ Done \in 0..Len(hist) /\ Len(hist) \in Nat
      /\ \A i \in 1..Len(hist) : Done = i => doc = hist[i].after
      /\ \A i \in 1..Len(hist) : Done = i - 1 => doc = hist[i].before
  BY CursorFacts, LenProperties DEF HistoryInv, TypeOK, CommandsInContext
<1>2. CASE Done = 0
  BY <1>1, <1>2 DEF AreVersions
<1>3. CASE Done # 0
  <2>1. Done \in 1..Len(hist)
    BY <1>1, <1>3
  <2>2. QED
    BY <2>1, <1>1 DEF AreVersions
<1>4. QED
  BY <1>2, <1>3

-----------------------------------------------------------------------------

LEMMA Slice ==
  ASSUME NEW v \in Seq(Doc), NEW a \in Nat, NEW b \in Nat,
         1 <= a, a <= b, b <= Len(v)
  PROVE  /\ SubSeq(v, a, b) \in Seq(Doc)
         /\ Len(SubSeq(v, a, b)) = b - a + 1
         /\ \A i \in 1..(b - a + 1) : SubSeq(v, a, b)[i] = v[a + i - 1]
<1>1. \A i \in a..b : v[i] \in Doc
  <2>1. \A i \in a..b : i \in 1..Len(v)
    BY LenProperties
  <2>2. QED
    BY <2>1, ElementOfSeq
<1>2. /\ SubSeq(v, a, b) \in Seq(Doc)
      /\ Len(SubSeq(v, a, b)) = IF a <= b THEN b - a + 1 ELSE 0
      /\ \A i \in 1..(b - a + 1) : SubSeq(v, a, b)[i] = v[a + i - 1]
  BY <1>1, SubSeqProperties
<1>3. QED
  BY <1>2

\* A sequence that is a piece of another.
LEMMA IsSlice ==
  ASSUME NEW v \in Seq(Doc), NEW w \in Seq(Doc), NEW a \in Nat, NEW b \in Nat,
         1 <= a, a <= b, b <= Len(v),
         Len(w) = b - a + 1,
         \A i \in 1..(b - a + 1) : w[i] = v[a + i - 1]
  PROVE  w = SubSeq(v, a, b)
<1>1. PICK s : s = SubSeq(v, a, b)
  OBVIOUS
<1>2. /\ s \in Seq(Doc) /\ Len(s) = b - a + 1
      /\ \A i \in 1..(b - a + 1) : s[i] = v[a + i - 1]
  BY <1>1, Slice
<1>3. Len(w) = Len(s) /\ \A i \in 1..Len(w) : w[i] = s[i]
  BY <1>2
<1>4. w = s
  BY <1>2, <1>3, SeqEqual
<1>5. QED
  BY <1>1, <1>4

\* A sequence that is a piece of another and an element more.
LEMMA IsSliceAndOne ==
  ASSUME NEW v \in Seq(Doc), NEW w \in Seq(Doc), NEW a \in Nat, NEW b \in Nat,
         NEW d \in Doc,
         1 <= a, a <= b, b <= Len(v),
         Len(w) = b - a + 2,
         \A i \in 1..(b - a + 1) : w[i] = v[a + i - 1],
         w[b - a + 2] = d
  PROVE  w = Append(SubSeq(v, a, b), d)
<1>1. PICK s, t : s = SubSeq(v, a, b) /\ t = Append(s, d)
  OBVIOUS
<1>2. /\ s \in Seq(Doc) /\ Len(s) = b - a + 1
      /\ \A i \in 1..(b - a + 1) : s[i] = v[a + i - 1]
  BY <1>1, Slice
<1>3. /\ t \in Seq(Doc) /\ Len(t) = Len(s) + 1
      /\ \A i \in 1..Len(s) : t[i] = s[i]
      /\ t[Len(s) + 1] = d
  BY <1>1, <1>2, AppendProperties
<1>4. Len(t) = b - a + 2 /\ t[b - a + 2] = d
  BY <1>2, <1>3
<1>5. \A i \in 1..Len(w) : w[i] = t[i]
  <2> SUFFICES ASSUME NEW i \in 1..Len(w) PROVE w[i] = t[i]
    OBVIOUS
  <2>1. CASE i = b - a + 2
    BY <2>1, <1>4
  <2>2. CASE i # b - a + 2
    <3>1. i \in 1..(b - a + 1)
      BY <2>2
    <3>2. QED
      BY <3>1, <1>2, <1>3
  <2>3. QED
    BY <2>1, <2>2
<1>6. w = t
  BY <1>3, <1>4, <1>5, SeqEqual
<1>7. QED
  BY <1>1, <1>6

-----------------------------------------------------------------------------

LEMMA ExecuteIsEdit ==
  ASSUME HistoryInv, HistoryInv', NEW c \in Command, NEW d \in Doc,
         ExecuteAndAdd(c, d)
  PROVE  Promise!Edit(d)
<1>1. PICK o \in {0, 1} : Appended(o, c, d)
  BY ExecuteMakes
<1>2. PICK v, w, n : v = Versions /\ w = Versions' /\ n = Done - o
  OBVIOUS
<1>3. /\ Done \in 0..Len(hist) /\ Done = n + o
      /\ n \in Nat /\ Len(hist) \in Nat
  BY <1>1, <1>2, CursorFacts, LenProperties DEF Appended, HistoryInv, TypeOK
<1>4. /\ hist' \in Seq(CommandObject) /\ Len(hist') = n + 1
      /\ \A i \in 1..n : hist'[i] = hist[i + o]
      /\ hist'[n + 1].addr = c /\ hist'[n + 1].before = doc
      /\ hist'[n + 1].after = d
      /\ lastDone' = c
  BY <1>1, <1>2 DEF Appended, NewCommand, ExecuteAndAdd
<1>5. Done' = n + 1
  <2>1. n + 1 \in 0..Len(hist') /\ n + 1 # 0
    BY <1>3, <1>4
  <2>2. hist' \in Seq(CommandObject) /\ DistinctCommands'
    BY <1>4 DEF HistoryInv
  <2>3. lastDone' = hist'[n + 1].addr
    BY <1>4
  <2>4. QED
    BY <2>1, <2>2, <2>3, CursorNext
<1>6. /\ v \in Seq(Doc) /\ Len(v) = Len(hist) + 1
      /\ Len(hist) # 0 => v[1] = hist[1].before
      /\ \A i \in 1..Len(hist) : v[i + 1] = hist[i].after
      /\ v[Done + 1] = doc
  <2>1. AreVersions(v, hist, doc)
    BY <1>2, VersionsNow
  <2>2. v[Done + 1] = doc
    BY <2>1, Shown
  <2>3. QED
    BY <2>1, <2>2 DEF AreVersions
<1>7. /\ w \in Seq(Doc) /\ Len(w) = n + 2
      /\ w[1] = hist'[1].before
      /\ \A i \in 1..(n + 1) : w[i + 1] = hist'[i].after
  <2>1. AreVersions(w, hist', doc')
    BY <1>2, VersionsNext
  <2>2. Len(hist') = n + 1 /\ n + 1 # 0 /\ (n + 1) + 1 = n + 2
    BY <1>3, <1>4
  <2>3. QED
    BY <2>1, <2>2 DEF AreVersions
<1>8. w[1] = v[o + 1]
  <2>1. CASE n = 0
    BY <2>1, <1>3, <1>4, <1>6, <1>7
  <2>2. CASE n # 0 /\ o = 0
    BY <2>2, <1>3, <1>4, <1>6, <1>7
  <2>3. CASE n # 0 /\ o = 1
    <3>1. 1 \in 1..(Len(hist) - 1)
      BY <2>3, <1>3
    <3>2. hist[1].after = hist[2].before
      BY <3>1 DEF HistoryInv, CommandsInContext
    <3>3. QED
      BY <3>1, <3>2, <2>3, <1>3, <1>4, <1>6, <1>7
  <2>4. QED
    BY <2>1, <2>2, <2>3
<1>9. \A i \in 1..n : w[i + 1] = v[i + 1 + o]
  <2> SUFFICES ASSUME NEW i \in 1..n PROVE w[i + 1] = v[i + 1 + o]
    OBVIOUS
  <2>1. i \in 1..(n + 1) /\ i + o \in 1..Len(hist)
    BY <1>3
  <2>2. w[i + 1] = hist[i + o].after
    BY <2>1, <1>4, <1>7
  <2>3. v[(i + o) + 1] = hist[i + o].after
    BY <2>1, <1>6
  <2>4. (i + o) + 1 = i + 1 + o
    BY <1>3
  <2>5. QED
    BY <2>2, <2>3, <2>4
<1>10. PICK a, b : a = o + 1 /\ b = Done + 1
  OBVIOUS
<1>11. /\ a \in Nat /\ b \in Nat /\ 1 <= a /\ a <= b /\ b <= Len(v)
       /\ b - a + 1 = n + 1 /\ b - a + 2 = n + 2
  BY <1>3, <1>6, <1>10
<1>12. \A i \in 1..(n + 1) : w[i] = v[a + i - 1]
  <2> SUFFICES ASSUME NEW i \in 1..(n + 1) PROVE w[i] = v[a + i - 1]
    OBVIOUS
  <2>1. CASE i = 1
    <3>1. a + i - 1 = o + 1
      BY <2>1, <1>10
    <3>2. QED
      BY <2>1, <3>1, <1>8
  <2>2. CASE i # 1
    <3>1. PICK j : j = i - 1
      OBVIOUS
    <3>2. j \in 1..n /\ i = j + 1 /\ a + i - 1 = j + 1 + o
      BY <2>2, <3>1, <1>3, <1>10
    <3>3. QED
      BY <3>2, <1>9
  <2>3. QED
    BY <2>1, <2>2
<1>13. w[n + 2] = d
  <2>1. n + 1 \in 1..(n + 1) /\ (n + 1) + 1 = n + 2
    BY <1>3
  <2>2. QED
    BY <2>1, <1>4, <1>7
<1>14. w = Append(SubSeq(v, a, b), d)
  BY <1>6, <1>7, <1>11, <1>12, <1>13, IsSliceAndOne
<1>15. a \in {1, 2} \cap 1..b /\ Done' + 1 = b - a + 2
  BY <1>5, <1>10, <1>11
<1>16. saved' = saved
  BY DEF ExecuteAndAdd
<1>17. QED
  BY <1>2, <1>10, <1>14, <1>15, <1>16 DEF Promise!Edit

\* A list of the same commands leads through the same versions.
LEMMA SameVersions ==
  ASSUME HistoryInv, HistoryInv',
         Len(hist') = Len(hist), Len(hist) = 0 => doc' = doc,
         \A i \in 1..Len(hist) : /\ hist'[i].before = hist[i].before
                                 /\ hist'[i].after = hist[i].after
  PROVE  Versions' = Versions
<1>1. PICK v, w : v = Versions /\ w = Versions'
  OBVIOUS
<1>2. /\ v \in Seq(Doc) /\ Len(v) = Len(hist) + 1
      /\ v[1] = IF Len(hist) = 0 THEN doc ELSE hist[1].before
      /\ \A i \in 1..Len(hist) : v[i + 1] = hist[i].after
  BY <1>1, VersionsNow DEF AreVersions
<1>3. /\ w \in Seq(Doc) /\ Len(w) = Len(hist) + 1
      /\ w[1] = IF Len(hist) = 0 THEN doc' ELSE hist'[1].before
      /\ \A i \in 1..Len(hist) : w[i + 1] = hist'[i].after
  BY <1>1, VersionsNext DEF AreVersions
<1>4. Len(hist) \in Nat
  BY LenProperties DEF HistoryInv, TypeOK
<1>5. w[1] = v[1]
  BY <1>2, <1>3, <1>4
<1>6. \A i \in 1..Len(hist) : w[i + 1] = v[i + 1]
  BY <1>2, <1>3
<1>7. \A i \in 1..Len(w) : w[i] = v[i]
  <2> SUFFICES ASSUME NEW i \in 1..Len(w), i # 1 PROVE w[i] = v[i]
    BY <1>5
  <2>1. PICK j : j = i - 1
    OBVIOUS
  <2>2. j \in 1..Len(hist) /\ i = j + 1
    BY <2>1, <1>3, <1>4
  <2>3. QED
    BY <2>2, <1>6
<1>8. w = v
  BY <1>2, <1>3, <1>7, SeqEqual
<1>9. QED
  BY <1>1, <1>8

\* Undo and redo move the cursor and leave the versions alone.
LEMMA MovedShows ==
  ASSUME HistoryInv, HistoryInv',
         NEW m \in 1..Len(hist), NEW b \in BOOLEAN, NEW k \in 0..Len(hist),
         hist' = [hist EXCEPT ![m].executed = b],
         lastDone' = IF k = 0 THEN NULL ELSE hist[k].addr
  PROVE  Versions' = Versions /\ Done' = k
<1> DEFINE n == Len(hist)
<1>1. /\ n \in Nat /\ hist \in Seq(CommandObject)
      /\ \A i \in 1..n : hist[i] \in CommandObject
  BY CursorFacts, LenProperties DEF HistoryInv, TypeOK
<1>2. [hist[m] EXCEPT !.executed = b] \in CommandObject
  BY <1>1 DEF CommandObject
<1>3. hist' = [hist EXCEPT ![m] = [hist[m] EXCEPT !.executed = b]]
  OBVIOUS
<1>4. hist' \in Seq(CommandObject) /\ Len(hist') = n
  BY <1>1, <1>2, <1>3, ExceptSeq
<1>5. \A i \in 1..n :
        hist'[i] = IF i = m THEN [hist[m] EXCEPT !.executed = b] ELSE hist[i]
  BY <1>1, <1>2, <1>3, ExceptSeq
<1>6. \A i \in 1..n :
        /\ hist'[i].addr = hist[i].addr
        /\ hist'[i].before = hist[i].before
        /\ hist'[i].after = hist[i].after
  BY <1>5, <1>1 DEF CommandObject
<1>7. Versions' = Versions
  BY <1>1, <1>4, <1>6, SameVersions
<1>8. Done' = k
  <2>1. DistinctCommands' /\ k \in 0..Len(hist')
    BY <1>4 DEF HistoryInv
  <2>2. (k = 0 => lastDone' = NULL) /\ (k # 0 => lastDone' = hist'[k].addr)
    BY <1>6
  <2>3. QED
    BY <2>1, <2>2, <1>4, CursorNext
<1>9. QED
  BY <1>7, <1>8

LEMMA UndoIsUndo ==
  ASSUME HistoryInv, HistoryInv', Undo
  PROVE  Promise!Undo
<1>1. Done \in 1..Len(hist) /\ Done - 1 \in 0..Len(hist)
  BY CursorFacts DEF Undo, HistoryInv, TypeOK
<1>2. lastDone' = IF Done - 1 = 0 THEN NULL ELSE hist[Done - 1].addr
  BY <1>1 DEF Undo
<1>3. Versions' = Versions /\ Done' = Done - 1
  BY <1>1, <1>2, MovedShows DEF Undo
<1>4. Done + 1 > 1 /\ Done' + 1 = (Done + 1) - 1
  BY <1>1, <1>3
<1>5. saved' = saved
  BY DEF Undo
<1>6. QED
  BY <1>3, <1>4, <1>5 DEF Promise!Undo

LEMMA RedoIsRedo ==
  ASSUME HistoryInv, HistoryInv', Redo
  PROVE  Promise!Redo
<1>1. Done + 1 \in 1..Len(hist) /\ Done + 1 \in 0..Len(hist) /\ Done \in Nat
  BY CursorFacts DEF Redo, HistoryInv, TypeOK
<1>2. lastDone' = IF Done + 1 = 0 THEN NULL ELSE hist[Done + 1].addr
  BY <1>1 DEF Redo
<1>3. Versions' = Versions /\ Done' = Done + 1
  BY <1>1, <1>2, MovedShows DEF Redo
<1>4. Len(Versions) = Len(hist) + 1
  BY VersionsNow DEF AreVersions
<1>5. Done + 1 < Len(Versions) /\ Done' + 1 = (Done + 1) + 1
  BY <1>1, <1>3, <1>4
<1>6. saved' = saved
  BY DEF Redo
<1>7. QED
  BY <1>3, <1>5, <1>6 DEF Promise!Redo

-----------------------------------------------------------------------------

\* Dropping the last command leaves the cursor where it is, or on the new end.
LEMMA DroppedCursor ==
  ASSUME HistoryInv, HistoryInv', NEW h, Shortened(h), DropLast(h)
  PROVE  Done' = IF IsRedoPossible THEN Done ELSE Len(h)
<1> DEFINE m == Len(h)
           k == IF IsRedoPossible THEN Done ELSE m
<1>0. /\ h \in Seq(CommandObject)
      /\ Len(hist) >= 1
      /\ m = Len(hist) - 1
      /\ \A i \in 1..m : h[i].addr = hist[i].addr
  BY DEF Shortened
<1>1. /\ Done \in 0..(m + 1) /\ m \in Nat /\ Len(hist) = m + 1
      /\ IsRedoPossible <=> Done < m + 1
      /\ lastDone = NULL <=> Done = 0
      /\ Done > 0 => hist[Done].addr = lastDone
      /\ LastChild = hist[m + 1].addr
  <2>1. hist # <<>> /\ m \in Nat
    BY <1>0, LenProperties
  <2>2. LastChild = hist[m + 1].addr
    BY <2>1, <1>0 DEF LastChild
  <2>3. QED
    BY <2>1, <2>2, <1>0, CursorFacts
       DEF HistoryInv, TypeOK, ExecutedPrefix, IsUndoPossible
<1>2. lastDone = LastChild <=> ~IsRedoPossible
  <2>1. hist # <<>>
    BY <1>0, LenProperties
  <2>2. QED
    BY <2>1 DEF IsRedoPossible
<1>3. hist' = h /\ hist' \in Seq(CommandObject) /\ DistinctCommands'
  BY <1>0 DEF DropLast, HistoryInv
<1>4. k \in 0..Len(hist')
  BY <1>1, <1>3
<1>5. (k = 0 => lastDone' = NULL) /\ (k # 0 => lastDone' = hist'[k].addr)
  <2>1. CASE IsRedoPossible
    BY <2>1, <1>0, <1>1, <1>2, <1>3 DEF DropLast
  <2>2. CASE ~IsRedoPossible
    <3>1. m = 0 <=> h = <<>>
      BY <1>0, EmptySeq
    <3>2. QED
      BY <2>2, <3>1, <1>0, <1>1, <1>2, <1>3 DEF DropLast
  <2>3. QED
    BY <2>1, <2>2
<1>6. QED
  BY <1>3, <1>4, <1>5, CursorNext

LEMMA RemoveIsWithdraw ==
  ASSUME HistoryInv, HistoryInv', RemoveLastCommand
  PROVE  Promise!Withdraw
<1>1. PICK h : Shortened(h) /\ DropLast(h)
  BY RemoveShortens
<1>2. PICK v, w, m : v = Versions /\ w = Versions' /\ m = Len(h)
  OBVIOUS
<1>3. IsRedoPossible /\ doc' = doc /\ saved' = saved /\ hist' = h
  BY <1>1 DEF RemoveLastCommand, DropLast
<1>4. /\ m \in Nat /\ Len(hist) = m + 1
      /\ Done \in 0..m
  BY <1>1, <1>2, <1>3, CursorFacts, LenProperties DEF Shortened, HistoryInv, TypeOK
<1>5. \A i \in 1..m : h[i].before = hist[i].before /\ h[i].after = hist[i].after
  BY <1>1, <1>2, <1>3, <1>4 DEF Shortened
<1>6. Done' = Done
  BY <1>1, <1>3, DroppedCursor
<1>7. /\ v \in Seq(Doc) /\ Len(v) = m + 2
      /\ v[1] = hist[1].before
      /\ \A i \in 1..(m + 1) : v[i + 1] = hist[i].after
      /\ v[Done + 1] = doc
  <2>1. AreVersions(v, hist, doc)
    BY <1>2, VersionsNow
  <2>2. v[Done + 1] = doc
    BY <2>1, Shown
  <2>3. QED
    BY <2>1, <2>2, <1>4 DEF AreVersions
<1>8. /\ w \in Seq(Doc) /\ Len(w) = m + 1
      /\ w[1] = IF m = 0 THEN doc ELSE h[1].before
      /\ \A i \in 1..m : w[i + 1] = h[i].after
  <2>1. AreVersions(w, h, doc)
    BY <1>2, <1>3, VersionsNext
  <2>2. QED
    BY <2>1, <1>2 DEF AreVersions
<1>9. w[1] = v[1]
  BY <1>4, <1>5, <1>7, <1>8
<1>10. \A i \in 1..(m + 1) : w[i] = v[i]
  <2> SUFFICES ASSUME NEW i \in 1..(m + 1), i # 1 PROVE w[i] = v[i]
    BY <1>9
  <2>1. PICK j : j = i - 1
    OBVIOUS
  <2>2. j \in 1..m /\ j \in 1..(m + 1) /\ i = j + 1
    BY <2>1, <1>4
  <2>3. QED
    BY <2>2, <1>5, <1>7, <1>8
<1>11. w = SubSeq(v, 1, m + 1)
  <2>1. PICK a, b : a = 1 /\ b = m + 1
    OBVIOUS
  <2>2. /\ a \in Nat /\ b \in Nat /\ 1 <= a /\ a <= b /\ b <= Len(v)
        /\ Len(w) = b - a + 1
    BY <2>1, <1>4, <1>7, <1>8
  <2>3. \A i \in 1..(b - a + 1) : w[i] = v[a + i - 1]
    BY <2>1, <1>4, <1>10
  <2>4. w = SubSeq(v, a, b)
    BY <2>2, <2>3, <1>7, <1>8, IsSlice
  <2>5. QED
    BY <2>1, <2>4
<1>12. Done + 1 < Len(v) /\ Len(v) - 1 = m + 1 /\ Done' + 1 = Done + 1
  BY <1>4, <1>6, <1>7
<1>13. QED
  BY <1>2, <1>3, <1>11, <1>12 DEF Promise!Withdraw

LEMMA MergeIsMerge ==
  ASSUME HistoryInv, HistoryInv', MergeLastCommand
  PROVE  Promise!Merge
<1>1. PICK h : Shortened(h) /\ DropLast(h)
  BY MergeShortens
<1>2. PICK v, w, m : v = Versions /\ w = Versions' /\ m = Len(h)
  OBVIOUS
<1>3. ~IsRedoPossible /\ saved' = saved /\ hist' = h /\ Len(hist) >= 2
  BY <1>1 DEF MergeLastCommand, DropLast
<1>4. /\ m \in Nat /\ m >= 1 /\ Len(hist) = m + 1
      /\ Done = m + 1
  BY <1>1, <1>2, <1>3, CursorFacts, LenProperties DEF Shortened, HistoryInv, TypeOK
<1>5. /\ h[1].before = hist[1].before
      /\ \A i \in 1..(m - 1) : h[i].after = hist[i].after
      /\ h[m].after = hist[m + 1].after
  BY <1>1, <1>2, <1>3, <1>4 DEF Shortened
<1>6. Done' = m
  BY <1>1, <1>2, <1>3, DroppedCursor
<1>7. /\ v \in Seq(Doc) /\ Len(v) = m + 2
      /\ v[1] = hist[1].before
      /\ \A i \in 1..(m + 1) : v[i + 1] = hist[i].after
  <2>1. AreVersions(v, hist, doc)
    BY <1>2, VersionsNow
  <2>2. QED
    BY <2>1, <1>4 DEF AreVersions
<1>8. /\ w \in Seq(Doc) /\ Len(w) = m + 1
      /\ w[1] = h[1].before
      /\ \A i \in 1..m : w[i + 1] = h[i].after
  <2>1. AreVersions(w, h, doc')
    BY <1>2, <1>3, VersionsNext
  <2>2. QED
    BY <2>1, <1>2, <1>4 DEF AreVersions
<1>9. \A i \in 1..m : w[i] = v[i]
  <2> SUFFICES ASSUME NEW i \in 1..m, i # 1 PROVE w[i] = v[i]
    BY <1>5, <1>7, <1>8
  <2>1. PICK j : j = i - 1
    OBVIOUS
  <2>2. j \in 1..(m - 1) /\ j \in 1..m /\ j \in 1..(m + 1) /\ i = j + 1
    BY <2>1, <1>4
  <2>3. QED
    BY <2>2, <1>5, <1>7, <1>8
<1>10. w[m + 1] = v[m + 2] /\ v[m + 2] \in Doc
  <2>1. m \in 1..m /\ m + 1 \in 1..(m + 1) /\ (m + 1) + 1 = m + 2
    BY <1>4
  <2>2. m + 2 \in 1..Len(v)
    BY <1>4, <1>7
  <2>3. QED
    BY <2>1, <2>2, <1>5, <1>7, <1>8, ElementOfSeq
<1>11. w = Append(SubSeq(v, 1, m), v[m + 2])
  <2>1. PICK a, b, d : a = 1 /\ b = m /\ d = v[m + 2]
    OBVIOUS
  <2>2. /\ a \in Nat /\ b \in Nat /\ d \in Doc
        /\ 1 <= a /\ a <= b /\ b <= Len(v)
        /\ Len(w) = b - a + 2
        /\ w[b - a + 2] = d
    BY <2>1, <1>4, <1>7, <1>8, <1>10
  <2>3. \A i \in 1..(b - a + 1) : w[i] = v[a + i - 1]
    BY <2>1, <1>4, <1>9
  <2>4. w = Append(SubSeq(v, a, b), d)
    BY <2>2, <2>3, <1>7, <1>8, IsSliceAndOne
  <2>5. QED
    BY <2>1, <2>4
<1>12. PICK n : n = Len(v)
  OBVIOUS
<1>13. /\ Done + 1 = n /\ n > 2 /\ n - 2 = m /\ n = m + 2
       /\ Done' + 1 = n - 1
  BY <1>4, <1>6, <1>7, <1>12
<1>14. QED
  BY <1>2, <1>3, <1>11, <1>12, <1>13 DEF Promise!Merge

-----------------------------------------------------------------------------

LEMMA SaveIsSave ==
  ASSUME HistoryInv, SetNotModified
  PROVE  Promise!Save
<1>1. Versions' = Versions /\ Done' = Done /\ saved' = doc
  BY DEF SetNotModified, Versions, Done
<1>2. Versions[Done + 1] = doc
  BY VersionsNow, Shown
<1>3. QED
  BY <1>1, <1>2 DEF Promise!Save

\* The versions of an empty list of commands.
LEMMA OneVersion ==
  ASSUME NEW d, NEW v,
         v = [i \in 1..(Len(<<>>) + 1) |-> d]
  PROVE  v = <<d>>
<1>1. Len(<<>>) + 1 = 1
  OBVIOUS
<1>2. QED
  BY <1>1

LEMMA ReopenIsReopen ==
  ASSUME Reopen
  PROVE  Promise!Reopen
<1>1. hist' = <<>> /\ lastDone' = NULL /\ doc' = saved /\ saved' = saved
  BY DEF Reopen
<1>2. Done' + 1 = 1
  BY <1>1 DEF Done, Position
<1>3. Versions' = [i \in 1..(Len(<<>>) + 1) |-> saved]
  BY <1>1 DEF Versions
<1>4. Versions' = <<saved>>
  BY <1>3, OneVersion
<1>5. QED
  BY <1>1, <1>2, <1>4 DEF Promise!Reopen

LEMMA InitIsInit == Init => Promise!Init
<1> SUFFICES ASSUME Init PROVE Promise!Init
  OBVIOUS
<1>1. hist = <<>> /\ lastDone = NULL /\ saved = doc /\ doc \in Doc
  BY DEF Init
<1>2. Done + 1 = 1
  BY <1>1 DEF Done, Position
<1>3. Versions = [i \in 1..(Len(<<>>) + 1) |-> saved]
  BY <1>1 DEF Versions
<1>4. Versions = <<saved>>
  BY <1>3, OneVersion
<1>5. QED
  BY <1>1, <1>2, <1>4 DEF Promise!Init

\* Every step of the list is a step of the versions, or leaves them alone.
LEMMA StepIsStep ==
  ASSUME HistoryInv, HistoryInv', [Next]_vars
  PROVE  [Promise!Next]_(Promise!vars)
<1>1. CASE \E c \in Command, d \in Doc : ExecuteAndAdd(c, d)
  <2>1. PICK c \in Command, d \in Doc : ExecuteAndAdd(c, d)
    BY <1>1
  <2>2. Promise!Edit(d)
    BY <2>1, ExecuteIsEdit
  <2>3. QED
    BY <2>2 DEF Promise!Next
<1>2. CASE Undo
  BY <1>2, UndoIsUndo DEF Promise!Next
<1>3. CASE Redo
  BY <1>3, RedoIsRedo DEF Promise!Next
<1>4. CASE RemoveLastCommand
  BY <1>4, RemoveIsWithdraw DEF Promise!Next
<1>5. CASE MergeLastCommand
  BY <1>5, MergeIsMerge DEF Promise!Next
<1>6. CASE SetNotModified
  BY <1>6, SaveIsSave DEF Promise!Next
<1>7. CASE Reopen
  BY <1>7, ReopenIsReopen DEF Promise!Next
<1>8. CASE UNCHANGED vars
  BY <1>8 DEF vars, Promise!vars, Versions, Done
<1>9. QED
  BY <1>1, <1>2, <1>3, <1>4, <1>5, <1>6, <1>7, <1>8 DEF Next

\* CommandExecutor, with its pointers, its redo tail, its trimming, merging and
\* cancelling, does what an undo history promises: undo and redo walk along a list
\* of versions, an edit cuts off those that were undone, and nothing else changes
\* the list but at its ends.
THEOREM HistoryKeepsPromise == Spec => KeepsPromise
<1>1. Init => Promise!Init
  BY InitIsInit
<1>2. HistoryInv /\ HistoryInv' /\ [Next]_vars => [Promise!Next]_(Promise!vars)
  BY StepIsStep
<1>3. QED
  BY <1>1, <1>2, HistoryInvariant, PTL DEF Spec, KeepsPromise, Promise!Spec

=============================================================================
